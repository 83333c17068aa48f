------------------------- MODULE JsonlExport_proofs -------------------------
(***************************************************************************)
(* Proofs about JsonlExport and JsonlValues: the file of an export and the *)
(* values in it.                                                           *)
(*                                                                         *)
(* What is said of exports holds for any runs, outputs and tables and for  *)
(* any overlap of the runs.  What becomes of a value holds for any         *)
(* calendar, any zones (each any function from instants to offsets), any   *)
(* offsets, digits and precisions.                                         *)
(***************************************************************************)
EXTENDS JsonlExport, JsonlValues, FiniteSetTheorems, TLAPS

Entry == Record \cup {Gap}

-----------------------------------------------------------------------------
(* Writing at a position of a file.                                        *)

LEMMA Tabulated ==
  ASSUME NEW S, NEW n \in Nat, NEW f \in [1 .. n -> S]
  PROVE  f \in Seq(S) /\ Len(f) = n
  OBVIOUS

(* A write keeps what lies before and behind it and fills up to it.        *)
LEMMA WrittenAtTyped ==
  ASSUME NEW d \in Seq(Entry), NEW i \in Nat \ {0}, NEW e \in Record
  PROVE  /\ WrittenAt(d, i, e) \in Seq(Entry)
         /\ Len(WrittenAt(d, i, e)) = IF i > Len(d) THEN i ELSE Len(d)
         /\ \A j \in 1 .. Len(WrittenAt(d, i, e)) :
              WrittenAt(d, i, e)[j] = IF j = i THEN e ELSE IF j <= Len(d) THEN d[j] ELSE Gap
<1> DEFINE n == IF i > Len(d) THEN i ELSE Len(d)
           w == [j \in 1 .. n |-> IF j = i THEN e ELSE IF j <= Len(d) THEN d[j] ELSE Gap]
<1>1. n \in Nat /\ i \in 1 .. n
  OBVIOUS
<1>2. WrittenAt(d, i, e) = w
  BY <1>1 DEF WrittenAt, Padded
<1>3. \A j \in 1 .. n : w[j] \in Entry
  BY DEF Entry
<1>4. w \in Seq(Entry) /\ Len(w) = n
  <2>1. w \in [1 .. n -> Entry]
    BY <1>3
  <2> HIDE DEF w
  <2> QED
    BY <1>1, <2>1, Tabulated
<1> QED
  BY <1>2, <1>4

-----------------------------------------------------------------------------
(* Types.                                                                  *)

(* A run that has a stage that uses them has an output and an open file.   *)
Placed ==
  \A r \in Run :
    /\ stage[r] \in Active => output[r] \in Output
    /\ stage[r] = "writing" => file[r] \in Run

TypeInvariant == TypeOK /\ Placed

LEMMA TypeStep == TypeInvariant /\ [Next]_vars => TypeInvariant'
<1> SUFFICES ASSUME TypeInvariant, [Next]_vars PROVE TypeInvariant'
  OBVIOUS
<1> USE BoundsAssumption, NoFileAssumption DEF TypeInvariant, TypeOK, Placed, Active, Ended, Version, ghosts
<1>0. DocumentLength \in Nat /\ DocumentLength >= 1
  BY DEF DocumentLength
<1>1. CASE UNCHANGED vars
  BY <1>1 DEF vars
<1>2. CASE Commit
  BY <1>2 DEF Commit
<1>3. ASSUME NEW r \in Run, NEW o \in Output, Start(r, o) PROVE TypeInvariant'
  BY <1>3 DEF Start
<1>4. ASSUME NEW r \in Run, Open(r) PROVE TypeInvariant'
  <2> DEFINE f == IF temporary[output[r]] = NoFile THEN r ELSE temporary[output[r]]
  <2>1. f \in Run
    BY <1>4 DEF Open
  <2>2. /\ stage' = [stage EXCEPT ![r] = "writing"]
        /\ file' = [file EXCEPT ![r] = f]
        /\ temporary' = [temporary EXCEPT ![output[r]] = f]
        /\ data' = [data EXCEPT ![f] = <<>>]
        /\ overlapped' = overlapped \cup Meeting(r)
        /\ UNCHANGED <<source, output, written, view, published, disturbed>>
    BY <1>4 DEF Open
  <2>3. /\ data' \in [Run -> Seq(Entry)]
        /\ \A g \in Run : Len(data'[g]) <= DocumentLength
    BY <2>1, <2>2, <1>0 DEF Entry
  <2>4. output[r] \in Output
    BY <1>4 DEF Open
  <2>5. Meeting(r) \subseteq Run
    BY DEF Meeting, WritingBeside
  <2> QED
    BY <2>1, <2>2, <2>3, <2>4, <2>5 DEF Entry
<1>5. ASSUME NEW r \in Run, Write(r) PROVE TypeInvariant'
  <2> DEFINE e == [by |-> r, shows |-> ViewFor(r)]
             w == WrittenAt(data[file[r]], written[r] + 1, e)
  <2>1. ViewFor(r) \in Version /\ e \in Record
    BY DEF ViewFor, Record
  <2>2. file[r] \in Run /\ data[file[r]] \in Seq(Entry) /\ written[r] + 1 \in Nat \ {0}
    BY <1>5 DEF Write, Entry
  <2>3. w \in Seq(Entry) /\ Len(w) <= DocumentLength
    <3>1. written[r] + 1 <= DocumentLength /\ Len(data[file[r]]) <= DocumentLength
      BY <1>5, <1>0, <2>2 DEF Write
    <3>2. /\ w \in Seq(Entry)
          /\ Len(w) = IF written[r] + 1 > Len(data[file[r]]) THEN written[r] + 1
                      ELSE Len(data[file[r]])
      <4>1. \A d \in Seq(Entry), i \in Nat \ {0}, x \in Record :
              /\ WrittenAt(d, i, x) \in Seq(Entry)
              /\ Len(WrittenAt(d, i, x)) = IF i > Len(d) THEN i ELSE Len(d)
        BY WrittenAtTyped
      <4> HIDE DEF e
      <4> QED
        BY ONLY <2>1, <2>2, <4>1 DEF w
    <3> HIDE DEF w
    <3> QED
      BY <3>1, <3>2
  <2>4. /\ view' = [view EXCEPT ![r] = ViewFor(r)]
        /\ written' = [written EXCEPT ![r] = @ + 1]
        /\ data' = [data EXCEPT ![file[r]] = w]
        /\ UNCHANGED <<source, stage, output, file, temporary, published, ghosts>>
    BY <1>5 DEF Write
  <2>5. data' \in [Run -> Seq(Entry)] /\ \A g \in Run : Len(data'[g]) <= DocumentLength
    BY <2>2, <2>3, <2>4 DEF Entry
  <2>6. written' \in [Run -> 0 .. DocumentLength]
    BY <2>4, <1>5, <1>0 DEF Write
  <2> QED
    BY <2>1, <2>4, <2>5, <2>6 DEF Entry
<1>6. ASSUME NEW r \in Run, Publish(r) PROVE TypeInvariant'
  BY <1>6 DEF Publish, DisturbedBy
<1>7. ASSUME NEW r \in Run, Finish(r) PROVE TypeInvariant'
  BY <1>7 DEF Finish
<1>8. ASSUME NEW r \in Run, Abort(r) PROVE TypeInvariant'
  BY <1>8 DEF Abort
<1>9. ASSUME NEW r \in Run, FailOutsideWriter(r) PROVE TypeInvariant'
  BY <1>9 DEF FailOutsideWriter
<1>10. ASSUME NEW r \in Run, Kill(r) PROVE TypeInvariant'
  BY <1>10 DEF Kill
<1> QED
  BY <1>1, <1>2, <1>3, <1>4, <1>5, <1>6, <1>7, <1>8, <1>9, <1>10 DEF Next

LEMMA TypeInit == Init => TypeInvariant
<1>1. DocumentLength \in Nat
  BY BoundsAssumption DEF DocumentLength
<1> QED
  BY <1>1, BoundsAssumption, NoFileAssumption DEF Init, TypeInvariant, TypeOK, Placed, Active, Ended, Version

LEMMA TypeInvariantHolds == Spec => []TypeInvariant
  BY TypeInit, TypeStep, PTL DEF Spec

(* The types hold whatever runs overlap; no file grows beyond a document.  *)
THEOREM TypeCorrect == Spec => []TypeOK
<1>1. TypeInvariant => TypeOK
  BY DEF TypeInvariant
<1> QED
  BY <1>1, TypeInvariantHolds, PTL
-----------------------------------------------------------------------------
(* What a run has written so far: the first n records of a document, all   *)
(* of them read no later than view v.                                      *)

IsBeginning(d, r, n, v) ==
  /\ Len(d) = n
  /\ \A i \in 1 .. n : d[i] \in Record /\ d[i].by = r /\ d[i].shows <= v
  /\ \A i, j \in 1 .. n : i <= j => d[i].shows <= d[j].shows
  /\ \A i \in 1 .. n : OpensBlock(i) /\ i + 1 <= n => d[i].shows = d[i + 1].shows
  /\ r \in Snapshot => \A i \in 1 .. n : d[i].shows = v
  /\ n > 0 => d[n].shows = v

(* The next record, read at view u, continues a beginning.                 *)
LEMMA BeginningGrows ==
  ASSUME NEW d \in Seq(Entry), NEW r \in Run, NEW n \in Nat,
         NEW v \in Version, NEW u \in Version,
         IsBeginning(d, r, n, v),
         v <= u,
         r \in Snapshot => u = v,
         ~OpensBlock(n + 1) /\ n > 0 => u = v
  PROVE  IsBeginning(WrittenAt(d, n + 1, [by |-> r, shows |-> u]), r, n + 1, u)
<1> DEFINE e == [by |-> r, shows |-> u]
           w == WrittenAt(d, n + 1, e)
<1>1. e \in Record /\ e.by = r /\ e.shows = u
  BY DEF Record
<1>2. n + 1 \in Nat \ {0} /\ Len(d) = n
  BY DEF IsBeginning
<1>3. /\ Len(w) = n + 1
      /\ \A j \in 1 .. n : w[j] = d[j]
      /\ w[n + 1] = e
  <2>1. /\ Len(w) = IF n + 1 > Len(d) THEN n + 1 ELSE Len(d)
        /\ \A j \in 1 .. Len(w) :
             w[j] = IF j = n + 1 THEN e ELSE IF j <= Len(d) THEN d[j] ELSE Gap
    <3>1. \A x \in Seq(Entry), i \in Nat \ {0}, y \in Record :
            /\ Len(WrittenAt(x, i, y)) = IF i > Len(x) THEN i ELSE Len(x)
            /\ \A j \in 1 .. Len(WrittenAt(x, i, y)) :
                 WrittenAt(x, i, y)[j] = IF j = i THEN y ELSE IF j <= Len(x) THEN x[j] ELSE Gap
      BY WrittenAtTyped
    <3> HIDE DEF e
    <3> QED
      BY <1>1, <1>2, <3>1
  <2> HIDE DEF w, e
  <2> QED
    BY <1>2, <2>1
<1> HIDE DEF w, e
<1>4. \A i \in 1 .. n + 1 : w[i] \in Record /\ w[i].by = r /\ w[i].shows <= u
  BY <1>1, <1>3 DEF IsBeginning, Version, Record
<1>5. \A i, j \in 1 .. n + 1 : i <= j => w[i].shows <= w[j].shows
  BY <1>1, <1>3, <1>4 DEF IsBeginning, Version, Record
<1>6. \A i \in 1 .. n + 1 : OpensBlock(i) /\ i + 1 <= n + 1 => w[i].shows = w[i + 1].shows
  <2> SUFFICES ASSUME NEW i \in 1 .. n, OpensBlock(i) PROVE w[i].shows = w[i + 1].shows
    OBVIOUS
  <2>1. CASE i = n
    <3>1. ~OpensBlock(n + 1)
      BY <2>1 DEF OpensBlock
    <3> QED
      BY <2>1, <3>1, <1>1, <1>3 DEF IsBeginning
  <2>2. CASE i # n
    BY <2>2, <1>3 DEF IsBeginning
  <2> QED
    BY <2>1, <2>2
<1>7. r \in Snapshot => \A i \in 1 .. n + 1 : w[i].shows = u
  BY <1>1, <1>3 DEF IsBeginning
<1>8. IsBeginning(w, r, n + 1, u)
  BY <1>1, <1>3, <1>4, <1>5, <1>6, <1>7 DEF IsBeginning
<1> QED
  BY <1>8 DEF w, e

(* A beginning of full length is a whole document.                         *)
LEMMA FullIsWhole ==
  ASSUME NEW d \in Seq(Entry), NEW r \in Run, NEW v \in Version,
         IsBeginning(d, r, DocumentLength, v)
  PROVE  IsWholeDocument(d)
<1>1. \A i \in 1 .. DocumentLength : OpensBlock(i) => i + 1 <= DocumentLength
  BY BoundsAssumption DEF DocumentLength, OpensBlock
<1>2. d \in [1 .. DocumentLength -> Record]
  BY DEF IsBeginning
<1> QED
  BY <1>1, <1>2 DEF IsBeginning, IsWholeDocument

-----------------------------------------------------------------------------
(* The invariant of the runs.                                              *)

(* Runs that have the writer open for one output at a time are overlapped. *)
WritersApart ==
  \A r \in Run \ overlapped, q \in Run :
    stage[r] = "writing" /\ stage[q] = "writing" /\ output[r] = output[q] => r = q

(* A file never leaves the output of the run that created it, and is under *)
(* no name and open to nobody before that run has opened it.               *)
AtHome(f, o) == stage[f] \notin {"idle", "prepared"} /\ output[f] = o

FilesAtHome ==
  /\ \A o \in Output : temporary[o] # NoFile =>
       AtHome(temporary[o], o) /\ temporary[o] # published[o]
  /\ \A o \in Output : published[o] # NoFile => AtHome(published[o], o)
  /\ \A r \in Run : stage[r] = "writing" => AtHome(file[r], output[r])
  /\ \A r \in Run : stage[r] \in {"idle", "prepared"} => written[r] = 0

(* A run that writes alone has its file to itself; a run to its output     *)
(* that fails to open the writer may have unlinked the name.               *)
WritesItsOwn ==
  \A r \in Run \ overlapped : stage[r] = "writing" =>
    /\ temporary[output[r]] \in {file[r], NoFile}
    /\ IsBeginning(data[file[r]], r, written[r], view[r])

(* Nobody has the file open that lies under an undisturbed output.         *)
PublishedIsClosed ==
  \A o \in Output \ disturbed, r \in Run : stage[r] = "writing" => file[r] # published[o]

ViewsArePast == \A r \in Run : view[r] <= source

ExportInvariant ==
  /\ TypeInvariant /\ WritersApart /\ FilesAtHome /\ WritesItsOwn
  /\ PublishedIsClosed /\ ViewsArePast /\ OutputsAreWhole

LEMMA ExportInit == Init => ExportInvariant
<1> SUFFICES ASSUME Init PROVE ExportInvariant
  OBVIOUS
<1>1. TypeInvariant
  BY TypeInit
<1>2. WritersApart /\ WritesItsOwn /\ PublishedIsClosed
  BY DEF Init, WritersApart, WritesItsOwn, PublishedIsClosed
<1>3. ViewsArePast /\ FilesAtHome /\ OutputsAreWhole
  BY DEF Init, ViewsArePast, FilesAtHome, OutputsAreWhole
<1> QED
  BY <1>1, <1>2, <1>3 DEF ExportInvariant

(* Steps that move no file keep the invariant when the run they move was   *)
(* active and ends.                                                        *)
LEMMA StageStep ==
  ASSUME ExportInvariant, TypeInvariant', NEW r \in Run, NEW t \in {"done", "failed", "leaked", "killed"},
         stage[r] \in Active, stage' = [stage EXCEPT ![r] = t],
         UNCHANGED <<source, output, file, written, view, published, data, ghosts>>,
         \A o \in Output : temporary'[o] \in {temporary[o], NoFile}
  PROVE  ExportInvariant'
<1> USE DEF ExportInvariant, ghosts
<1>1. \A q \in Run : stage'[q] = IF q = r THEN t ELSE stage[q]
  BY DEF TypeInvariant, TypeOK
<1>2. WritersApart'
  BY <1>1 DEF WritersApart
<1>3. FilesAtHome'
  <2>1. \A f \in Run, o \in Output : AtHome(f, o) => AtHome(f, o)'
    BY <1>1 DEF AtHome
  <2>2. \A q \in Run : stage[q] = "writing" => output[q] \in Output /\ file[q] \in Run
    BY DEF TypeInvariant, Placed, Active
  <2>3. \A o \in Output : temporary[o] \in Run \cup {NoFile} /\ published[o] \in Run \cup {NoFile}
    BY DEF TypeInvariant, TypeOK
  <2> QED
    BY <1>1, <2>1, <2>2, <2>3 DEF FilesAtHome, Active
<1>4. WritesItsOwn'
  <2> SUFFICES ASSUME NEW q \in Run \ overlapped, stage'[q] = "writing"
               PROVE  /\ temporary'[output[q]] \in {file[q], NoFile}
                      /\ IsBeginning(data[file[q]], q, written[q], view[q])
    BY DEF WritesItsOwn
  <2>1. stage[q] = "writing" /\ output[q] \in Output
    BY <1>1 DEF TypeInvariant, Placed, Active
  <2> QED
    BY <2>1 DEF WritesItsOwn
<1>5. PublishedIsClosed'
  BY <1>1 DEF PublishedIsClosed
<1>6. ViewsArePast' /\ OutputsAreWhole'
  BY DEF ViewsArePast, OutputsAreWhole, Visible
<1> QED
  BY <1>2, <1>3, <1>4, <1>5, <1>6

LEMMA CommitStep == ExportInvariant /\ TypeInvariant' /\ Commit => ExportInvariant'
<1> SUFFICES ASSUME ExportInvariant, TypeInvariant', Commit PROVE ExportInvariant'
  OBVIOUS
<1>1. /\ source' = source + 1
      /\ UNCHANGED <<stage, output, file, written, view, temporary, published, data>>
      /\ UNCHANGED <<overlapped, disturbed>>
  BY DEF Commit, ghosts
<1>2. WritersApart' /\ FilesAtHome' /\ WritesItsOwn' /\ PublishedIsClosed' /\ OutputsAreWhole'
  BY <1>1 DEF ExportInvariant, WritersApart, FilesAtHome, AtHome, WritesItsOwn,
              PublishedIsClosed, OutputsAreWhole, Visible
<1>3. ViewsArePast'
  BY <1>1 DEF ExportInvariant, ViewsArePast, TypeInvariant, TypeOK, Version
<1> QED
  BY <1>2, <1>3 DEF ExportInvariant

LEMMA StartStep ==
  ASSUME ExportInvariant, TypeInvariant', NEW r \in Run, NEW o \in Output, Start(r, o)
  PROVE  ExportInvariant'
<1> USE DEF ExportInvariant
<1>1. /\ stage[r] = "idle"
      /\ stage' = [stage EXCEPT ![r] = "prepared"]
      /\ output' = [output EXCEPT ![r] = o]
      /\ view' = [view EXCEPT ![r] = source]
      /\ UNCHANGED <<source, file, written, temporary, published, data>>
      /\ UNCHANGED <<overlapped, disturbed>>
  BY DEF Start, ghosts
<1>2. \A q \in Run : q # r => stage'[q] = stage[q] /\ output'[q] = output[q] /\ view'[q] = view[q]
  BY <1>1 DEF TypeInvariant, TypeOK
<1>3. stage'[r] = "prepared" /\ output'[r] = o /\ view'[r] = source
  BY <1>1 DEF TypeInvariant, TypeOK
<1>4. WritersApart' /\ WritesItsOwn' /\ PublishedIsClosed'
  BY <1>1, <1>2, <1>3 DEF WritersApart, WritesItsOwn, PublishedIsClosed
<1>5. FilesAtHome'
  <2>1. \A f \in Run, p \in Output : AtHome(f, p) => AtHome(f, p)'
    BY <1>1, <1>2 DEF AtHome
  <2>2. \A q \in Run : stage[q] = "writing" => output[q] \in Output /\ file[q] \in Run
    BY DEF TypeInvariant, Placed, Active
  <2>3. \A p \in Output : temporary[p] \in Run \cup {NoFile} /\ published[p] \in Run \cup {NoFile}
    BY DEF TypeInvariant, TypeOK
  <2>4. (\A q \in Run : stage[q] = "writing" => AtHome(file[q], output[q]))'
    BY <1>1, <1>2, <1>3, <2>1, <2>2 DEF FilesAtHome
  <2> QED
    BY <1>1, <1>2, <1>3, <2>1, <2>3, <2>4 DEF FilesAtHome
<1>6. ViewsArePast' /\ OutputsAreWhole'
  BY <1>1, <1>2, <1>3 DEF ViewsArePast, OutputsAreWhole, Visible, TypeInvariant, TypeOK, Version
<1> QED
  BY <1>4, <1>5, <1>6

LEMMA OpenStep ==
  ASSUME ExportInvariant, TypeInvariant', NEW r \in Run, Open(r)
  PROVE  ExportInvariant' /\ \A o \in Output : Visible(o)' = Visible(o)
<1> USE DEF ExportInvariant
<1> DEFINE f == IF temporary[output[r]] = NoFile THEN r ELSE temporary[output[r]]
<1>1. /\ stage[r] = "prepared" /\ stage' = [stage EXCEPT ![r] = "writing"]
      /\ file' = [file EXCEPT ![r] = f]
      /\ temporary' = [temporary EXCEPT ![output[r]] = f]
      /\ data' = [data EXCEPT ![f] = <<>>]
      /\ overlapped' = overlapped \cup Meeting(r)
      /\ UNCHANGED <<source, output, written, view, published, disturbed>>
  BY DEF Open
<1>2. output[r] \in Output /\ f \in Run
  BY <1>1 DEF TypeInvariant, TypeOK, Placed, Active
<1>3. /\ \A q \in Run : q # r => stage'[q] = stage[q] /\ file'[q] = file[q]
      /\ stage'[r] = "writing" /\ file'[r] = f
      /\ \A o \in Output : temporary'[o] = IF o = output[r] THEN f ELSE temporary[o]
      /\ \A g \in Run : data'[g] = IF g = f THEN <<>> ELSE data[g]
  BY <1>1, <1>2 DEF TypeInvariant, TypeOK
<1>4. \A o \in Output : published[o] # f
  BY <1>1, <1>2, NoFileAssumption DEF FilesAtHome, AtHome
<1>5. AtHome(f, output[r])' /\ (f = r \/ AtHome(f, output[r]))
  BY <1>1, <1>2, <1>3 DEF FilesAtHome, AtHome
<1>6. \A g \in Run, o \in Output : AtHome(g, o) => AtHome(g, o)'
  BY <1>1, <1>3 DEF AtHome
<1>7. \A q \in Run : stage[q] = "writing" =>
        output[q] \in Output /\ file[q] \in Run /\ AtHome(file[q], output[q])
  BY DEF TypeInvariant, Placed, Active, FilesAtHome
<1> HIDE DEF f
<1>8. /\ \A q \in Run \ overlapped' : q \notin overlapped
      /\ \A q \in Run \ overlapped' : q # r /\ stage[q] = "writing" => output[q] # output[r]
      /\ r \notin overlapped' =>
           \A q \in Run : q # r /\ stage[q] = "writing" => output[q] # output[r]
  BY <1>1 DEF Meeting, WritingBeside
<1>9. WritersApart'
  <2> SUFFICES ASSUME NEW p \in Run \ overlapped', NEW q \in Run, p # q,
                      stage'[p] = "writing", stage'[q] = "writing"
               PROVE  output[p] # output[q]
    BY <1>1 DEF WritersApart
  <2> QED
    BY <1>3, <1>8 DEF WritersApart
<1>10. FilesAtHome'
  <2>1. \A o \in Output : temporary[o] \in Run \cup {NoFile} /\ published[o] \in Run \cup {NoFile}
    BY DEF TypeInvariant, TypeOK
  <2>3. (\A o \in Output : temporary[o] # NoFile =>
           AtHome(temporary[o], o) /\ temporary[o] # published[o])'
    BY <1>1, <1>3, <1>4, <1>5, <1>6, <2>1 DEF FilesAtHome, AtHome
  <2>4. (\A o \in Output : published[o] # NoFile => AtHome(published[o], o))'
    BY <1>1, <1>6, <2>1 DEF FilesAtHome, AtHome
  <2>5. (\A q \in Run : stage[q] = "writing" => AtHome(file[q], output[q]))'
    BY <1>1, <1>3, <1>5, <1>6, <1>7 DEF AtHome
  <2>6. \A q \in Run : stage'[q] \in {"idle", "prepared"} => written'[q] = 0
    BY <1>1, <1>3 DEF FilesAtHome
  <2> QED
    BY <2>3, <2>4, <2>5, <2>6 DEF FilesAtHome, AtHome
<1>11. WritesItsOwn'
  <2> SUFFICES ASSUME NEW q \in Run \ overlapped', stage'[q] = "writing"
               PROVE  /\ temporary'[output[q]] \in {file'[q], NoFile}
                      /\ IsBeginning(data'[file'[q]], q, written[q], view[q])
    BY <1>1 DEF WritesItsOwn
  <2>1. CASE q = r
    <3>1. written[r] = 0 /\ data'[f] = <<>>
      BY <1>1, <1>2, <1>3 DEF FilesAtHome
    <3> QED
      BY <2>1, <3>1, <1>2, <1>3 DEF IsBeginning
  <2>2. CASE q # r
    <3>1. /\ q \notin overlapped /\ stage[q] = "writing" /\ output[q] # output[r]
          /\ output[q] \in Output /\ file[q] \in Run /\ output[file[q]] = output[q]
      BY <2>2, <1>3, <1>7, <1>8 DEF AtHome
    <3>2. file[q] # f
      BY <3>1, <1>1, <1>5 DEF AtHome
    <3>3. temporary[output[q]] \in {file[q], NoFile}
      BY <3>1 DEF WritesItsOwn
    <3>4. temporary'[output[q]] \in {file'[q], NoFile}
      BY <2>2, <3>1, <3>3, <1>3
    <3>5. data'[file'[q]] = data[file[q]]
      BY <2>2, <3>1, <3>2, <1>3
    <3> QED
      BY <3>1, <3>4, <3>5 DEF WritesItsOwn
  <2> QED
    BY <2>1, <2>2
<1>12. PublishedIsClosed'
  BY <1>1, <1>3, <1>4 DEF PublishedIsClosed
<1>13. \A o \in Output : Visible(o)' = Visible(o)
  BY <1>1, <1>3, <1>4 DEF Visible, TypeInvariant, TypeOK
<1>14. ViewsArePast' /\ OutputsAreWhole'
  BY <1>1, <1>13 DEF ViewsArePast, OutputsAreWhole
<1> QED
  BY <1>9, <1>10, <1>11, <1>12, <1>13, <1>14

LEMMA WriteStep ==
  ASSUME ExportInvariant, TypeInvariant', NEW r \in Run, Write(r)
  PROVE  ExportInvariant' /\ \A o \in Output \ disturbed : Visible(o)' = Visible(o)
<1> USE DEF ExportInvariant
<1> DEFINE n == written[r]
           w == WrittenAt(data[file[r]], n + 1, [by |-> r, shows |-> ViewFor(r)])
<1>1. /\ stage[r] = "writing"
      /\ view' = [view EXCEPT ![r] = ViewFor(r)]
      /\ written' = [written EXCEPT ![r] = n + 1]
      /\ data' = [data EXCEPT ![file[r]] = w]
      /\ UNCHANGED <<source, stage, output, file, temporary, published>>
      /\ UNCHANGED <<overlapped, disturbed>>
  BY DEF Write, ghosts
<1>2. \A q \in Run : stage[q] = "writing" =>
        output[q] \in Output /\ file[q] \in Run /\ output[file[q]] = output[q]
  BY DEF TypeInvariant, Placed, Active, FilesAtHome, AtHome
<1>3. r \notin overlapped => IsBeginning(w, r, n + 1, ViewFor(r))
  <2> SUFFICES ASSUME r \notin overlapped PROVE IsBeginning(w, r, n + 1, ViewFor(r))
    OBVIOUS
  <2>1. data[file[r]] \in Seq(Entry) /\ n \in Nat
    BY <1>1, <1>2 DEF TypeInvariant, TypeOK, Entry
  <2>2. /\ view[r] \in Version /\ ViewFor(r) \in Version /\ view[r] <= ViewFor(r)
        /\ r \in Snapshot => ViewFor(r) = view[r]
        /\ ~OpensBlock(n + 1) => ViewFor(r) = view[r]
    BY DEF ViewFor, TypeInvariant, TypeOK, Version, ViewsArePast
  <2>3. IsBeginning(data[file[r]], r, n, view[r])
    BY <1>1 DEF WritesItsOwn
  <2> QED
    BY ONLY <2>1, <2>2, <2>3, BeginningGrows
<1> HIDE DEF w
<1>4. /\ \A q \in Run : q # r => view'[q] = view[q] /\ written'[q] = written[q]
      /\ view'[r] = ViewFor(r) /\ written'[r] = n + 1
      /\ \A g \in Run : data'[g] = IF g = file[r] THEN w ELSE data[g]
  BY <1>1, <1>2 DEF TypeInvariant, TypeOK
<1>5. \A o \in Output \ disturbed : published[o] # file[r]
  BY <1>1 DEF PublishedIsClosed
<1>6. WritersApart' /\ PublishedIsClosed'
  BY <1>1 DEF WritersApart, PublishedIsClosed
<1>7. FilesAtHome'
  BY <1>1, <1>4 DEF FilesAtHome, AtHome
<1>8. WritesItsOwn'
  <2> SUFFICES ASSUME NEW q \in Run \ overlapped, stage[q] = "writing"
               PROVE  /\ temporary[output[q]] \in {file[q], NoFile}
                      /\ IsBeginning(data'[file[q]], q, written'[q], view'[q])
    BY <1>1 DEF WritesItsOwn
  <2>0. temporary[output[q]] \in {file[q], NoFile}
    BY DEF WritesItsOwn
  <2>1. CASE q = r
    <3>1. data'[file[q]] = w /\ written'[q] = n + 1 /\ view'[q] = ViewFor(r)
      BY <2>1, <1>1, <1>2, <1>4
    <3> QED
      BY <2>0, <2>1, <3>1, <1>3
  <2>2. CASE q # r
    <3>1. file[q] # file[r]
      BY <2>2, <1>1, <1>2 DEF WritersApart
    <3>2. data'[file[q]] = data[file[q]] /\ written'[q] = written[q] /\ view'[q] = view[q]
      BY <2>2, <3>1, <1>2, <1>4
    <3> QED
      BY <2>0, <3>2 DEF WritesItsOwn
  <2> QED
    BY <2>1, <2>2
<1>9. \A o \in Output \ disturbed : Visible(o)' = Visible(o)
  BY <1>1, <1>4, <1>5 DEF Visible, TypeInvariant, TypeOK
<1>10. OutputsAreWhole'
  BY <1>1, <1>9 DEF OutputsAreWhole
<1>11. ViewsArePast'
  BY <1>1, <1>4 DEF ViewsArePast, ViewFor, TypeInvariant, TypeOK, Version
<1> QED
  BY <1>6, <1>7, <1>8, <1>9, <1>10, <1>11

(* A run that wrote alone publishes its whole document; any other marks    *)
(* its output.                                                             *)
LEMMA PublishStep ==
  ASSUME ExportInvariant, TypeInvariant', NEW r \in Run, Publish(r)
  PROVE  /\ ExportInvariant'
         /\ disturbed' = IF r \in overlapped THEN disturbed \cup {output[r]}
                         ELSE disturbed \ {output[r]}
         /\ \A p \in Output : p # output[r] => Visible(p)' = Visible(p)
         /\ r \notin overlapped =>
              \A p \in Output : p = output[r] =>
                /\ published'[p] # NoFile
                /\ IsBeginning(data'[published'[p]], r, DocumentLength, view[r])
                /\ IsWholeDocument(data'[published'[p]])
<1> USE DEF ExportInvariant
<1> DEFINE o == output[r]
<1>1. /\ stage[r] = "writing" /\ written[r] = DocumentLength
      /\ temporary[o] # NoFile
      /\ published' = [published EXCEPT ![o] = temporary[o]]
      /\ temporary' = [temporary EXCEPT ![o] = NoFile]
      /\ stage' = [stage EXCEPT ![r] = "published"]
      /\ UNCHANGED <<source, output, file, written, view, data, overlapped>>
      /\ disturbed' = IF r \in overlapped THEN disturbed \cup {o} ELSE disturbed \ {o}
  BY DEF Publish, DisturbedBy
<1>2. /\ o \in Output /\ file[r] \in Run
      /\ r \notin overlapped => temporary[o] = file[r]
  BY <1>1, NoFileAssumption DEF TypeInvariant, Placed, Active, WritesItsOwn
<1>3. r \notin overlapped => IsBeginning(data[file[r]], r, DocumentLength, view[r])
  BY <1>1 DEF WritesItsOwn
<1>4. r \notin overlapped => IsWholeDocument(data[file[r]])
  <2>1. data[file[r]] \in Seq(Entry) /\ view[r] \in Version
    BY <1>2 DEF TypeInvariant, TypeOK, Entry
  <2> QED
    BY ONLY <2>1, <1>3, FullIsWhole
<1>5. /\ \A p \in Output : published'[p] = IF p = o THEN temporary[o] ELSE published[p]
      /\ \A p \in Output : temporary'[p] = IF p = o THEN NoFile ELSE temporary[p]
      /\ \A q \in Run : stage'[q] = IF q = r THEN "published" ELSE stage[q]
  BY <1>1, <1>2 DEF TypeInvariant, TypeOK
<1> HIDE DEF o
<1>6. \A p \in Output : p # o => Visible(p)' = Visible(p)
  BY <1>1, <1>2, <1>5 DEF Visible
<1>7. WritersApart'
  BY <1>1, <1>5 DEF WritersApart
<1>8. \A q \in Run : stage'[q] = "writing" =>
        /\ q # r /\ stage[q] = "writing" /\ output[q] \in Output /\ file[q] \in Run
        /\ output[file[q]] = output[q]
  BY <1>5 DEF TypeInvariant, Placed, Active, FilesAtHome, AtHome
<1>9. FilesAtHome'
  <2>1. \A p \in Output : temporary[p] \in Run \cup {NoFile} /\ published[p] \in Run \cup {NoFile}
    BY DEF TypeInvariant, TypeOK
  <2>2. \A g \in Run, p \in Output : AtHome(g, p) => AtHome(g, p)'
    BY <1>1, <1>5 DEF AtHome
  <2>3. (\A p \in Output : temporary[p] # NoFile =>
           AtHome(temporary[p], p) /\ temporary[p] # published[p])'
    BY <1>5, <2>1, <2>2 DEF FilesAtHome, AtHome
  <2>4. (\A p \in Output : published[p] # NoFile => AtHome(published[p], p))'
    BY <1>1, <1>2, <1>5, <2>1, <2>2 DEF FilesAtHome, AtHome
  <2>5. (\A q \in Run : stage[q] = "writing" => AtHome(file[q], output[q]))'
    BY <1>1, <1>5, <1>8 DEF FilesAtHome, AtHome
  <2>6. \A q \in Run : stage'[q] \in {"idle", "prepared"} => written'[q] = 0
    BY <1>1, <1>5 DEF FilesAtHome
  <2> QED
    BY <2>3, <2>4, <2>5, <2>6 DEF FilesAtHome, AtHome
<1>10. WritesItsOwn'
  <2> SUFFICES ASSUME NEW q \in Run \ overlapped, stage'[q] = "writing"
               PROVE  /\ temporary'[output[q]] \in {file[q], NoFile}
                      /\ IsBeginning(data[file[q]], q, written[q], view[q])
    BY <1>1 DEF WritesItsOwn
  <2> QED
    BY <1>5, <1>8 DEF WritesItsOwn
<1>11. PublishedIsClosed'
  <2> SUFFICES ASSUME NEW p \in Output \ disturbed', NEW q \in Run, stage'[q] = "writing"
               PROVE  file[q] # published'[p]
    BY <1>1 DEF PublishedIsClosed
  <2>1. CASE p = o
    <3>1. r \notin overlapped /\ published'[p] = file[r]
      BY <2>1, <1>1, <1>2, <1>5
    <3>2. output[q] # o
      BY <3>1, <1>1, <1>8 DEF WritersApart, o
    <3>3. output[file[r]] = o
      BY <1>1 DEF FilesAtHome, AtHome, o
    <3> QED
      BY <3>1, <3>2, <3>3, <1>8
  <2>2. CASE p # o
    BY <2>2, <1>1, <1>5, <1>8 DEF PublishedIsClosed
  <2> QED
    BY <2>1, <2>2
<1>12. \A p \in Output : p = o /\ r \notin overlapped =>
         /\ published'[p] # NoFile
         /\ IsBeginning(data'[published'[p]], r, DocumentLength, view[r])
         /\ IsWholeDocument(data'[published'[p]])
  BY <1>1, <1>2, <1>3, <1>4, <1>5
<1>13. ViewsArePast'
  BY <1>1 DEF ViewsArePast
<1>14. OutputsAreWhole'
  <2> SUFFICES ASSUME NEW p \in Output \ disturbed', published'[p] # NoFile
               PROVE  IsWholeDocument(Visible(p)')
    BY DEF OutputsAreWhole
  <2>1. CASE p = o
    BY <2>1, <1>1, <1>12 DEF Visible
  <2>2. CASE p # o
    BY <2>2, <1>1, <1>5, <1>6 DEF OutputsAreWhole
  <2> QED
    BY <2>1, <2>2
<1> QED
  BY <1>1, <1>6, <1>7, <1>9, <1>10, <1>11, <1>12, <1>13, <1>14 DEF o

-----------------------------------------------------------------------------
(* One step, and what follows.                                             *)

LEMMA NextStep ==
  ASSUME ExportInvariant, TypeInvariant', [Next]_vars
  PROVE  ExportInvariant'
<1>1. CASE UNCHANGED vars
  BY <1>1 DEF vars, ghosts, ExportInvariant, WritersApart, FilesAtHome, AtHome, WritesItsOwn,
              PublishedIsClosed, ViewsArePast, OutputsAreWhole, Visible
<1>2. CASE Commit
  BY <1>2, CommitStep
<1>3. ASSUME NEW r \in Run, NEW o \in Output, Start(r, o) PROVE ExportInvariant'
  BY <1>3, StartStep
<1>4. ASSUME NEW r \in Run, Open(r) \/ Write(r) \/ Publish(r) PROVE ExportInvariant'
  BY <1>4, OpenStep, WriteStep, PublishStep
<1>5. ASSUME NEW r \in Run, Finish(r) \/ FailOutsideWriter(r) \/ Kill(r) PROVE ExportInvariant'
  <2>1. PICK t \in {"done", "failed", "leaked", "killed"} : stage' = [stage EXCEPT ![r] = t]
    BY <1>5 DEF Finish, FailOutsideWriter, Kill
  <2>2. /\ stage[r] \in Active
        /\ UNCHANGED <<source, output, file, written, view, temporary, published, data, ghosts>>
    BY <1>5 DEF Finish, FailOutsideWriter, Kill, Active
  <2> QED
    BY <2>1, <2>2, StageStep
<1>6. ASSUME NEW r \in Run, Abort(r) PROVE ExportInvariant'
  <2>1. PICK t \in {"done", "failed", "leaked", "killed"} : stage' = [stage EXCEPT ![r] = t]
    BY <1>6 DEF Abort
  <2>2. /\ stage[r] \in Active
        /\ UNCHANGED <<source, output, file, written, view, published, data, ghosts>>
        /\ \A o \in Output : temporary'[o] \in {temporary[o], NoFile}
    BY <1>6 DEF Abort, Active, ExportInvariant, TypeInvariant, TypeOK
  <2> QED
    BY <2>1, <2>2, StageStep
<1> QED
  BY <1>1, <1>2, <1>3, <1>4, <1>5, <1>6 DEF Next

(* The invariant of the runs, whatever of them overlap.                    *)
THEOREM ExportInvariantHolds == Spec => []ExportInvariant
<1>1. ExportInvariant => TypeInvariant
  BY DEF ExportInvariant
<1>2. ExportInvariant /\ [Next]_vars => ExportInvariant'
  BY <1>1, TypeStep, NextStep
<1> QED
  BY <1>2, ExportInit, PTL DEF Spec

(* However runs fail, are killed or overlap, a reader of an output finds   *)
(* no file or one whole document, unless the last run that published there *)
(* had the writer open beside another run.                                 *)
THEOREM OutputsStayWhole == Spec => []OutputsAreWhole
<1>1. ExportInvariant => OutputsAreWhole
  BY DEF ExportInvariant
<1> QED
  BY <1>1, ExportInvariantHolds, PTL

(* A run that wrote alone and renames its file publishes what it wrote     *)
(* itself.                                                                 *)
THEOREM RunsPublishTheirOwn == Spec => PublishesItsOwn
<1>1. ASSUME ExportInvariant, TypeInvariant', [Next]_vars
      PROVE  [\A r \in Run \ overlapped : stage[r] = "writing" /\ stage'[r] = "published" =>
                \A i \in 1 .. DocumentLength : data'[published'[output[r]]][i].by = r]_vars
  <2> SUFFICES ASSUME Next, NEW r \in Run \ overlapped, stage[r] = "writing", stage'[r] = "published"
               PROVE  \A i \in 1 .. DocumentLength : data'[published'[output[r]]][i].by = r
    BY <1>1
  <2>1. Publish(r)
    <3>1. stage \in [Run -> {"idle"} \cup Active \cup Ended] /\ ~Commit
      BY <1>1 DEF ExportInvariant, TypeInvariant, TypeOK, Commit
    <3>2. PICK q \in Run :
            \/ \E o \in Output : Start(q, o)
            \/ Open(q) \/ Write(q) \/ Publish(q) \/ Finish(q)
            \/ Abort(q) \/ FailOutsideWriter(q) \/ Kill(q)
      BY <3>1 DEF Next
    <3>3. ~Write(q)
      BY DEF Write
    <3>4. CASE Publish(q)
      BY <3>1, <3>4 DEF Publish
    <3>5. CASE \/ \E o \in Output : Start(q, o)
               \/ Open(q) \/ Finish(q) \/ Abort(q) \/ FailOutsideWriter(q) \/ Kill(q)
      BY <3>1, <3>5 DEF Start, Open, Finish, Abort, FailOutsideWriter, Kill
    <3> QED
      BY <3>2, <3>3, <3>4, <3>5
  <2>2. output[r] \in Output
    BY <1>1, <2>1 DEF Publish, ExportInvariant, TypeInvariant, Placed, Active
  <2>3. IsBeginning(data'[published'[output[r]]], r, DocumentLength, view[r])
    BY <1>1, <2>1, <2>2, PublishStep
  <2> QED
    BY <2>3 DEF IsBeginning
<1>2. ExportInvariant => TypeInvariant
  BY DEF ExportInvariant
<1> QED
  BY <1>1, <1>2, ExportInvariantHolds, PTL DEF PublishesItsOwn, Spec

-----------------------------------------------------------------------------
(* Refinement.                                                             *)

Shows(o) == IF o \in disturbed THEN Damaged ELSE Visible(o)
visibleNow == [o \in Output |-> Shows(o)]

(* Every step publishes one artifact under one name or changes nothing     *)
(* that a reader of undisturbed outputs sees.                              *)
LEMMA StepPublishes ==
  ASSUME ExportInvariant, TypeInvariant', [Next]_vars
  PROVE  [Artifacts!Next]_visibleNow
<1> SUFFICES ASSUME visibleNow' # visibleNow PROVE Artifacts!Next
  OBVIOUS
<1>1. ASSUME \A o \in Output : Shows(o)' = Shows(o) PROVE FALSE
  BY <1>1 DEF visibleNow
<1>2. ~UNCHANGED <<published, data, disturbed>>
  BY <1>1 DEF Shows, Visible
<1>3. PICK r \in Run : Open(r) \/ Write(r) \/ Publish(r)
  BY <1>2 DEF Next, vars, ghosts, Commit, Start, Finish, Abort, FailOutsideWriter, Kill
<1>4. Publish(r)
  <2>1. CASE Open(r)
    <3>1. disturbed' = disturbed
      BY <2>1 DEF Open
    <3> QED BY <1>1, <2>1, <3>1, OpenStep DEF Shows
  <2>2. CASE Write(r)
    <3>1. disturbed' = disturbed
      BY <2>2 DEF Write, ghosts
    <3> QED BY <1>1, <2>2, <3>1, WriteStep DEF Shows
  <2> QED BY <1>3, <2>1, <2>2
<1>5. output[r] \in Output
  BY <1>4 DEF Publish, ExportInvariant, TypeInvariant, Placed, Active
<1>6. /\ disturbed' = IF r \in overlapped THEN disturbed \cup {output[r]}
                      ELSE disturbed \ {output[r]}
      /\ \A p \in Output : p # output[r] => Visible(p)' = Visible(p)
      /\ r \notin overlapped =>
           \A p \in Output : p = output[r] =>
             published'[p] # NoFile /\ IsWholeDocument(data'[published'[p]])
  BY <1>4, PublishStep
<1>7. \A p \in Output : p # output[r] => Shows(p)' = Shows(p)
  BY <1>6 DEF Shows
<1>8. \A p \in Output : p = output[r] => IsArtifact(Shows(p)')
  <2>1. CASE r \in overlapped
    <3>1. \A p \in Output : p = output[r] => Shows(p)' = Damaged
      BY <1>6, <2>1 DEF Shows, Damaged, Gap
    <3> QED BY <3>1 DEF IsArtifact
  <2>2. CASE r \notin overlapped
    <3>1. \A p \in Output : p = output[r] => IsWholeDocument(Shows(p)')
      BY <1>6, <2>2 DEF Shows, Visible
    <3> QED BY <3>1 DEF IsArtifact
  <2> QED BY <2>1, <2>2
<1>9. Artifacts!Publish(output[r])
  <2>1. \A p \in Output : visibleNow'[p] = Shows(p)'
    BY DEF visibleNow
  <2>2. IsArtifact(visibleNow'[output[r]])
    BY <1>5, <1>8, <2>1
  <2>3. visibleNow' = [visibleNow EXCEPT ![output[r]] = visibleNow'[output[r]]]
    BY <1>5, <1>7, <2>1 DEF visibleNow
  <2>4. visibleNow = [o \in Output |-> IF o \in disturbed THEN Damaged ELSE Visible(o)]
    BY DEF visibleNow, Shows
  <2>5. visibleNow' = [o \in Output |-> IF o \in disturbed THEN Damaged ELSE Visible(o)]'
    BY DEF visibleNow, Shows
  <2> QED
    BY <2>2, <2>3, <2>4, <2>5 DEF Artifacts!Publish
<1> QED
  BY <1>5, <1>9 DEF Artifacts!Next, Artifacts!Publish

(* Exports implement the promise of AtomicArtifacts, for any number of     *)
(* runs, outputs and tables: an output that an overlapped run has          *)
(* published may show anything, until a run that wrote alone replaces it.  *)
THEOREM ImplementsArtifacts == Spec => ImplementsAtomicArtifacts
<1>1. Init => Artifacts!Init
  BY DEF Init, Artifacts!Init, Visible
<1>2. ASSUME ExportInvariant, TypeInvariant', [Next]_vars
      PROVE  [Artifacts!Next]_([o \in Output |-> IF o \in disturbed THEN Damaged ELSE Visible(o)])
  BY <1>2, StepPublishes DEF visibleNow, Shows
<1>3. ExportInvariant => TypeInvariant
  BY DEF ExportInvariant
<1> QED
  BY <1>1, <1>2, <1>3, ExportInvariantHolds, PTL DEF ImplementsAtomicArtifacts, Artifacts!Spec, Spec

-----------------------------------------------------------------------------
(* The values (JsonlValues).                                               *)

(* Where the value is: what has been written is what the export makes of   *)
(* the column's value, and what is stored is what the import makes of it.  *)
Exported == ExportOf(origin.dialect, origin.value, origin.family, origin.zone, origin.zeroIsNull)
Imported == Decode(line, target.family, target.zone, target.precision)

SourceIsTyped ==
  /\ origin.dialect \in Dialects /\ origin.family \in Families /\ origin.zone \in Zones
  /\ origin.value \in IF origin.family = "datetime" THEN Values \cup Moments ELSE Values
  /\ Fits(origin.dialect, origin.family, origin.value)
WrittenIsExported ==
  /\ line = NoValue \/ (line = Exported /\ ~IsError(Exported) /\ Valid(line, origin.family))
  /\ place = "export" => line = NoValue
  /\ place \in {"file", "replay", "stored", "done"} =>
       line = Exported /\ ~IsError(Exported) /\ Valid(line, origin.family)
RefusedByImport == place \in {"refused", "crashed"} /\ line # NoValue
StoredIsImported ==
  /\ place \in {"replay", "stored", "done"} \/ RefusedByImport =>
       /\ target.dialect \in Dialects /\ Compatible(origin.family, target.family)
       /\ target.zone \in Zones /\ target.precision \in Precisions /\ target.session \in Zones
  /\ place \in {"stored", "done"} => stored = Parameter(target.dialect, Imported) /\ ~IsError(Imported)
  /\ RefusedByImport => IsError(Imported) /\ (place = "crashed" <=> Imported.says = "crash")

(* The invariant of a value's way, inductive.                              *)
WayInvariant ==
  /\ place \in {"export", "file", "replay", "stored", "done", "refused", "crashed"}
  /\ SourceIsTyped /\ WrittenIsExported /\ StoredIsImported

-----------------------------------------------------------------------------

LEMMA InitialWay == WayInit => WayInvariant
<1> SUFFICES ASSUME WayInit PROVE WayInvariant OBVIOUS
<1>1. PICK d \in Dialects, f \in Families, z \in Zones, b \in BOOLEAN :
        \E v \in IF f = "datetime" THEN Values \cup Moments ELSE Values :
          /\ Fits(d, f, v)
          /\ origin = [dialect |-> d, family |-> f, zone |-> z, value |-> v, zeroIsNull |-> b]
  BY DEF WayInit
<1>2. SourceIsTyped
  BY <1>1 DEF SourceIsTyped
<1> QED BY <1>2 DEF WayInit, WayInvariant, WrittenIsExported, StoredIsImported, RefusedByImport

LEMMA NextKeepsWay == WayInvariant /\ [WayNext]_wayVars => WayInvariant'
<1> SUFFICES ASSUME WayInvariant, [WayNext]_wayVars PROVE WayInvariant' OBVIOUS
<1>1. CASE Export
  <2>1. origin' = origin /\ target' = target /\ stored' = stored /\ place' \in {"file", "refused", "crashed"}
    BY <1>1 DEF Export, Stop
  <2>2. \/ line' = line /\ place' # "file"
        \/ /\ line' = Exported /\ place' = "file"
           /\ ~IsError(Exported) /\ Valid(line', origin.family)
    BY <1>1 DEF Export, Stop, Exported
  <2>3. Exported' = Exported
    BY <2>1 DEF Exported
  <2>4. line = NoValue
    BY <1>1 DEF WayInvariant, WrittenIsExported, Export
  <2> QED BY <2>1, <2>2, <2>3, <2>4
          DEF WayInvariant, SourceIsTyped, WrittenIsExported, StoredIsImported, RefusedByImport
<1>2. CASE Preflight
  <2>1. PICK d \in Dialects, f \in Families, z \in Zones, p \in Precisions, s \in Zones, a \in BOOLEAN :
          /\ Compatible(origin.family, f)
          /\ target' = [dialect |-> d, family |-> f, zone |-> z, precision |-> p, session |-> s, aware |-> a]
    BY <1>2 DEF Preflight
  <2>2. /\ place = "file" /\ place' = "replay"
        /\ origin' = origin /\ line' = line /\ stored' = stored
    BY <1>2 DEF Preflight
  <2>3. Exported' = Exported
    BY <2>2 DEF Exported
  <2> QED BY <2>1, <2>2, <2>3
          DEF WayInvariant, SourceIsTyped, WrittenIsExported, StoredIsImported, RefusedByImport
<1>3. CASE Replay
  <2>1. /\ place = "replay" /\ origin' = origin /\ line' = line /\ target' = target
        /\ place' \in {"stored", "refused", "crashed"}
        /\ place' # "stored" => IsError(Imported) /\ (place' = "crashed" <=> Imported.says = "crash")
    BY <1>3 DEF Replay, Stop, Imported
  <2>2. place' = "stored" => stored' = Parameter(target.dialect, Imported) /\ ~IsError(Imported)
    BY <1>3 DEF Replay, Stop, Imported
  <2>3. Exported' = Exported /\ Imported' = Imported
    BY <2>1 DEF Exported, Imported
  <2> QED BY <2>1, <2>2, <2>3
          DEF WayInvariant, SourceIsTyped, WrittenIsExported, StoredIsImported, RefusedByImport
<1>4. CASE ExportAgain \/ UNCHANGED wayVars
  <2>1. /\ origin' = origin /\ line' = line /\ target' = target /\ stored' = stored
        /\ place' = place \/ (place = "stored" /\ place' = "done")
    BY <1>4 DEF ExportAgain, wayVars
  <2>2. Exported' = Exported /\ Imported' = Imported
    BY <2>1 DEF Exported, Imported
  <2> QED BY <2>1, <2>2
          DEF WayInvariant, SourceIsTyped, WrittenIsExported, StoredIsImported, RefusedByImport
<1> QED BY <1>1, <1>2, <1>3, <1>4 DEF WayNext

-----------------------------------------------------------------------------

(* The inductive invariant of a value's way holds.                         *)
THEOREM WayInvariantHolds == WaySpec => []WayInvariant
  BY InitialWay, NextKeepsWay, PTL DEF WaySpec

-----------------------------------------------------------------------------

(* Of the values of a column, only moments look like moments in JSON, and  *)
(* their clock, offset and digits are the same there.                      *)
LEMMA JsonOfMoment ==
  ASSUME NEW v \in Values \cup Moments, IsMoment(JsonOf(v))
  PROVE  /\ v \in Moments
         /\ JsonOf(v).wall = v.wall /\ JsonOf(v).offset = v.offset /\ JsonOf(v).digits = v.digits
<1>1. CASE v \in Moments
  <2>1. PICK c \in {"datetime", "str"}, w \in Hours, o \in {NoOffset} \cup Offsets, d \in Digits :
          v = Moment(c, w, o, d)
    BY <1>1 DEF Moments
  <2>2. JsonOf(v) = IF c = "datetime" THEN [v EXCEPT !.is = "str"] ELSE v
    BY <2>1 DEF JsonOf, Moment
  <2> QED BY <1>1, <2>1, <2>2 DEF Moment
<1>2. CASE v \in Values
  <2>1. v.says # "moment"
    BY <1>2 DEF Values, Value, NULL, Blob, Numbers, Booleans, Objects, Words
  <2>2. /\ v = [is |-> v.is, says |-> v.says]
    BY <1>2 DEF Values, Value, NULL, Blob, Numbers, Booleans, Objects, Words
  <2>3. JsonOf(v).says \in {v.says, "refused"}
    BY <2>2 DEF JsonOf, Value, Refused, Error
  <2> QED BY <2>1, <2>3 DEF IsMoment
<1> QED BY <1>1, <1>2

(* What FromMysql makes of a value.                                        *)
LEMMA FromMysqlIs ==
  ASSUME NEW v \in Values \cup Moments, NEW f, NEW b
  PROVE  FromMysql(v, f, b) \in {v, NULL, Refused, Value("str", "clock")}
  BY DEF FromMysql

(* A moment that is written is the instant of the moment that was read.    *)
LEMMA WrittenInstant ==
  ASSUME SourceIsTyped, origin.family = "datetime", line = Exported, ~IsError(Exported), IsMoment(line)
  PROVE  /\ origin.value \in Moments
         /\ line = Moment("str", Instant(origin.value, origin.zone), 0, origin.value.digits)
         /\ Representable(Instant(origin.value, origin.zone))
<1> DEFINE v == origin.value
           read == IF origin.dialect = "mysql" THEN FromMysql(v, "datetime", origin.zeroIsNull) ELSE v
           json == JsonOf(read)
<1> HIDE DEF read, json
<1>0. v \in Values \cup Moments
  BY DEF SourceIsTyped
<1>1. read \in {v, NULL, Refused, Value("str", "clock")}
  BY <1>0, FromMysqlIs DEF read
<1>2. ~IsError(read) /\ line = Encode(read, "datetime", origin.zone)
  BY DEF Exported, ExportOf, read
<1>3. line = IF IsError(json) \/ json = NULL THEN json
                ELSE IF IsMoment(json) THEN Normalized(json, origin.zone) ELSE Refused
  BY <1>2 DEF Encode, json
<1>4. IsMoment(json) /\ ~IsError(json) /\ line = Normalized(json, origin.zone)
  BY <1>3 DEF IsMoment, IsError, NULL, Value, Refused, Error
<1>5. read = v
  BY <1>1, <1>2, <1>4 DEF json, IsMoment, JsonOf, NULL, Value, IsError, Refused, Error
<1>6. v \in Moments /\ json.wall = v.wall /\ json.offset = v.offset /\ json.digits = v.digits
  BY <1>0, <1>4, <1>5, JsonOfMoment DEF json
<1>7. Instant(json, origin.zone) = Instant(v, origin.zone)
  BY <1>6 DEF Instant
<1>8. Representable(Instant(v, origin.zone))
  BY <1>4, <1>7 DEF Normalized, IsMoment, Error
<1> QED BY <1>4, <1>6, <1>7, <1>8 DEF Normalized

(* The clock of the target shows a moment's hour at that instant.          *)
LEMMA StoredInstant ==
  ASSUME NEW i, Representable(i), NEW z \in Zones, NEW d \in Digits, NEW p \in Precisions,
         NEW m, m = Moment("str", i, 0, d),
         ~IsError(Localized(m, z, p))
  PROVE  /\ Localized(m, z, p) = Moment("str", i + Offset[z][i], NoOffset, Cut(d, p))
         /\ i \in Shown(z, i + Offset[z][i])
         /\ Cut(d, p) \in {d, p}
<1>1. i \in Int /\ i \in Hours /\ Offset[z][i] \in Int
  BY ZonesAssumption DEF Representable, Hours
<1>2. Instant(m, z) = i
  BY <1>1, ZonesAssumption DEF Instant, Moment
<1> QED BY <1>1, <1>2 DEF Localized, Moment, Error, IsError, Shown, Cut

-----------------------------------------------------------------------------

(* What the import stores of a moment for a column of moments.             *)
LEMMA StoredMoment ==
  ASSUME WayInvariant, IsMoment(line), place \in {"stored", "done"}, target.family = "datetime"
  PROVE  /\ line.wall \in Shown(target.zone, stored.wall)
         /\ stored.digits \in {line.digits, target.precision}
<1> DEFINE i == Instant(origin.value, origin.zone)
           d == origin.value.digits
<1> HIDE DEF i, d
<1>1. /\ origin.family = "datetime" /\ target.zone \in Zones /\ target.precision \in Precisions
      /\ stored = Parameter(target.dialect, Imported) /\ ~IsError(Imported)
  BY DEF WayInvariant, StoredIsImported, SourceIsTyped, Compatible, NumericFamilies
<1>2. line = Moment("str", i, 0, d) /\ Representable(i) /\ origin.value \in Moments
  BY <1>1, WrittenInstant DEF WayInvariant, WrittenIsExported, i, d
<1>3. d \in Digits
  BY <1>2 DEF Moments, Moment, d
<1>4. Imported = Localized(line, target.zone, target.precision)
  BY <1>1, <1>2 DEF Imported, Decode, Untagged, Moment, IsMoment, NULL, Value
<1>5. /\ Imported = Moment("str", i + Offset[target.zone][i], NoOffset, Cut(d, target.precision))
      /\ i \in Shown(target.zone, i + Offset[target.zone][i])
      /\ Cut(d, target.precision) \in {d, target.precision}
  BY <1>1, <1>2, <1>3, <1>4, StoredInstant
<1>6. stored = Imported
  BY <1>1, <1>5 DEF Parameter, Moment
<1> QED BY <1>2, <1>5, <1>6 DEF Moment

(* Whatever zones the export and the import are given, a moment is the     *)
(* same instant in the column, in the file and in the target.              *)
THEOREM InstantKept == WaySpec => []InstantIsKept
<1>1. ASSUME WayInvariant PROVE InstantIsKept
  <2> SUFFICES ASSUME IsMoment(line) PROVE InstantIsKept
    BY DEF InstantIsKept
  <2>1. ASSUME origin.family = "datetime"
        PROVE  line.wall = Instant(origin.value, origin.zone) /\ line.offset = 0
    <3>1. line # NoValue
      BY DEF IsMoment, NoValue, Value
    <3>2. line = Moment("str", Instant(origin.value, origin.zone), 0, origin.value.digits)
      BY <1>1, <2>1, <3>1, WrittenInstant DEF WayInvariant, WrittenIsExported
    <3> QED BY <3>2 DEF Moment
  <2>2. ASSUME place \in {"stored", "done"}, target.family = "datetime"
        PROVE  /\ line.wall \in Shown(target.zone, stored.wall)
               /\ stored.digits = line.digits \/ stored.digits = target.precision
    BY <1>1, <2>2, StoredMoment
  <2> QED BY <2>1, <2>2 DEF InstantIsKept
<1> QED BY <1>1, WayInvariantHolds, PTL

-----------------------------------------------------------------------------

(* What is known of a value in the file or in JSON: a number is none of    *)
(* the words for truth values, and bytes are no number.                    *)
IsPlain(json) ==
  /\ json.is \in (JsonClasses \cup {"error"}) \ {"none"}
  /\ json.is \in {"decimalTag", "int", "float"} => json.says \notin {"yes", "no"}
  /\ json.is = "blobTag" => json.says = "data"
  /\ json.is = "null" => json = NULL

(* The values of a column have one of two forms.                           *)
LEMMA ColumnValue ==
  ASSUME NEW v \in Values \cup Moments
  PROVE  \/ v = [is |-> v.is, says |-> v.says] /\ v \in Values
         \/ v = Moment(v.is, v.wall, v.offset, v.digits) /\ v.is \in {"datetime", "str"} /\ v.says = "moment"
<1>1. CASE v \in Moments
  BY <1>1 DEF Moments, Moment
<1>2. CASE v \in Values
  BY <1>2 DEF Values, Value, NULL, Blob, Numbers, Booleans, Objects, Words
<1> QED BY <1>1, <1>2

(* Reading a column of MySQL keeps the meaning, but for the zero date.     *)
LEMMA ReadMeaning ==
  ASSUME NEW v \in Values \cup Moments, NEW f, NEW b, ~IsError(FromMysql(v, f, b))
  PROVE  /\ FromMysql(v, f, b) \in Values \cup Moments
         /\ \/ Meaning(FromMysql(v, f, b)) = Meaning(v)
            \/ v = Value("str", "zeroDate") /\ b /\ FromMysql(v, f, b) = NULL
<1>1. Value("str", "clock") \in Values /\ NULL \in Values
  BY DEF Values, Words
<1>2. CASE v = Value("str", "zeroDate") /\ f \in {"date", "datetime"}
  BY <1>1, <1>2 DEF FromMysql, Value, NULL, Refused, Error, IsError
<1>3. CASE v.is = "timedelta"
  BY <1>1, <1>3 DEF FromMysql, Value, NULL, Refused, Error, IsError, Meaning
<1>4. CASE v.is # "timedelta" /\ ~(v = Value("str", "zeroDate") /\ f \in {"date", "datetime"})
  BY <1>1, <1>4 DEF FromMysql
<1> QED BY <1>2, <1>3, <1>4

(* And so does JSON.                                                       *)
LEMMA JsonMeaning ==
  ASSUME NEW v \in Values \cup Moments
  PROVE  /\ IsPlain(JsonOf(v))
         /\ ~IsError(JsonOf(v)) => Meaning(JsonOf(v)) = Meaning(v)
<1>1. CASE v = Moment(v.is, v.wall, v.offset, v.digits) /\ v.is \in {"datetime", "str"} /\ v.says = "moment"
  <2>1. JsonOf(v) = IF v.is = "datetime" THEN [v EXCEPT !.is = "str"] ELSE v
    BY <1>1 DEF JsonOf
  <2>2. JsonOf(v) = Moment("str", v.wall, v.offset, v.digits)
    BY <1>1, <2>1 DEF Moment
  <2> QED BY <1>1, <2>2 DEF Moment, Meaning, IsPlain, JsonClasses
<1>2. CASE v = [is |-> v.is, says |-> v.says] /\ v \in Values
  <2>1. /\ v.is \in {"null", "bytes", "int", "float", "decimal", "bool", "date", "time", "timedelta", "str"}
        /\ v.is # "str" => v.says \notin {"yes", "no"}
        /\ v.is = "timedelta" => v.says \in {"clock", "days"}
        /\ v.is = "bytes" => v.says = "data"
        /\ v.is = "null" => v = NULL
    BY <1>2 DEF Values, Value, NULL, Blob, Numbers, Booleans, Objects, Words
  <2>2. CASE v.is \in {"date", "time"}
    <3>1. JsonOf(v) = [is |-> "str", says |-> v.says]
      BY <1>2, <2>2 DEF JsonOf
    <3> QED BY <2>1, <2>2, <3>1 DEF Meaning, IsPlain, JsonClasses
  <2>3. CASE v.is \notin {"date", "time"}
    BY <1>2, <2>1, <2>3 DEF JsonOf, Meaning, IsPlain, JsonClasses, IsError, Refused, Error, Value
  <2> QED BY <2>2, <2>3
<1> QED BY <1>1, <1>2, ColumnValue

(* Encoding for the declared type keeps the meaning.                       *)
LEMMA EncodeMeaning ==
  ASSUME NEW v \in Values \cup Moments, NEW f, NEW z
  PROVE  /\ IsPlain(Encode(v, f, z))
         /\ ~IsError(Encode(v, f, z)) => Meaning(Encode(v, f, z)) = Meaning(v)
<1> DEFINE json == JsonOf(v)
           code == Encode(v, f, z)
<1>1. IsPlain(json) /\ (~IsError(json) => Meaning(json) = Meaning(v))
  BY JsonMeaning
<1>2. IsPlain(Refused) /\ IsError(Refused)
  BY DEF Refused, Error, IsError, IsPlain, JsonClasses
<1>3. CASE IsError(json) \/ json = NULL
  <2>1. code = json
    BY <1>3 DEF Encode
  <2> QED BY <1>1, <2>1
<1>4. CASE ~(IsError(json) \/ json = NULL) /\ f = "decimal"
  <2>1. \/ code = Refused
        \/ /\ code = Value("decimalTag", v.says)
           /\ v.is \in {"int", "float", "decimal", "str"} /\ v.says \in {"0", "1", "2"}
    BY <1>4 DEF Encode
  <2>2. ASSUME code = Value("decimalTag", v.says),
               v.is \in {"int", "float", "decimal", "str"}, v.says \in {"0", "1", "2"}
        PROVE  IsPlain(code) /\ Meaning(code) = Meaning(v)
    BY <2>2 DEF IsPlain, JsonClasses, Value, Meaning
  <2> QED BY <1>2, <2>1, <2>2
<1>5. CASE ~(IsError(json) \/ json = NULL) /\ f = "datetime"
  <2>1. code = IF IsMoment(json) THEN Normalized(json, z) ELSE Refused
    BY <1>5 DEF Encode
  <2>2. ASSUME IsMoment(json), code = Normalized(json, z)
        PROVE  IsPlain(code) /\ (~IsError(code) => Meaning(code) = Meaning(json))
    BY <2>2 DEF Normalized, Moment, Error, IsError, IsPlain, JsonClasses, IsMoment, Meaning
  <2> QED BY <1>1, <1>2, <1>5, <2>1, <2>2
<1>6. CASE ~(IsError(json) \/ json = NULL) /\ f \notin {"decimal", "datetime"}
  <2>1. code \in {json, Refused}
    BY <1>6 DEF Encode
  <2> QED BY <1>1, <1>2, <1>6, <2>1
<1> QED BY <1>3, <1>4, <1>5, <1>6

(* Decoding keeps the meaning, too.                                        *)
LEMMA DecodeMeaning ==
  ASSUME NEW j, IsPlain(j), NEW f, NEW z, NEW p, NEW d, ~IsError(Decode(j, f, z, p))
  PROVE  Meaning(Parameter(d, Decode(j, f, z, p))) = Meaning(j)
<1> DEFINE value == Untagged(j)
           out == Decode(j, f, z, p)
<1> HIDE DEF value, out
<1>0. j.is # "timedelta"
  BY DEF IsPlain, JsonClasses
<1>1. /\ Meaning(value) = Meaning(j) /\ value.is # "timedelta"
      /\ value.is = "decimal" => value.says \notin {"yes", "no"}
  BY <1>0 DEF value, Untagged, Meaning, Value, IsPlain, JsonClasses
<1>2. \/ out = value
      \/ IsMoment(value) /\ out = Localized(value, z, p)
      \/ out = Refused
      \/ out = Boolean(value)
  BY DEF out, value, Decode
<1>3. Meaning(out) = Meaning(value) /\ (out.is = "decimal" => out.says \notin {"yes", "no"})
  <2>1. ASSUME IsMoment(value), out = Localized(value, z, p)
        PROVE  Meaning(out) = Meaning(value) /\ out.is # "decimal"
    BY <2>1 DEF out, Localized, Moment, Error, IsError, IsMoment, Meaning
  <2>2. ASSUME out = Boolean(value)
        PROVE  Meaning(out) = Meaning(value) /\ (out.is = "decimal" => out.says \notin {"yes", "no"})
    <3>1. out # Refused
      BY DEF out, Refused, Error, IsError
    <3> QED BY <2>2, <3>1 DEF Boolean, Meaning, Value
  <2>3. out # Refused
    BY DEF out, Refused, Error, IsError
  <2> QED BY <1>1, <1>2, <2>1, <2>2, <2>3
<1>4. out.is # "timedelta"
  BY <1>1, <1>2 DEF Localized, Boolean, Refused, Error, Moment, Value
<1>5. Meaning(Parameter(d, out)) = Meaning(out)
  BY <1>3, <1>4 DEF Parameter, Meaning, Value
<1> QED BY <1>1, <1>3, <1>5 DEF out

(* What is written means what was read.                                    *)
LEMMA WrittenMeaning ==
  ASSUME SourceIsTyped, ~IsError(Exported)
  PROVE  /\ IsPlain(Exported)
         /\ \/ Meaning(Exported) = Meaning(origin.value)
            \/ origin.value = Value("str", "zeroDate") /\ origin.zeroIsNull /\ Exported = NULL
<1> DEFINE v == origin.value
           read == IF origin.dialect = "mysql" THEN FromMysql(v, origin.family, origin.zeroIsNull) ELSE v
<1> HIDE DEF read
<1>1. v \in Values \cup Moments
  BY DEF SourceIsTyped
<1>2. ~IsError(read) /\ Exported = Encode(read, origin.family, origin.zone)
  BY DEF Exported, ExportOf, read
<1>3. /\ read \in Values \cup Moments
      /\ \/ Meaning(read) = Meaning(v)
         \/ v = Value("str", "zeroDate") /\ origin.zeroIsNull /\ read = NULL
  BY <1>1, <1>2, ReadMeaning DEF read
<1>4. IsPlain(Exported) /\ Meaning(Exported) = Meaning(read)
  BY <1>2, <1>3, EncodeMeaning
<1>5. read = NULL => Exported = NULL
  BY <1>2 DEF Encode, JsonOf, NULL, Value
<1> QED BY <1>3, <1>4, <1>5

(* What an export has written, an import that fits refuses only for a      *)
(* boolean column, or where the zone of the target leaves the calendar.    *)
LEMMA WrittenCanBeDecoded ==
  ASSUME WayInvariant, RefusedByImport
  PROVE  \/ /\ place = "refused" /\ target.family = "boolean"
            /\ line.is = "decimalTag" \/ line.says \notin {"0", "1", "yes", "no"}
         \/ place = "crashed" /\ ~Representable(line.wall + Offset[target.zone][line.wall])
<1> DEFINE value == Untagged(line)
           i == Instant(origin.value, origin.zone)
<1> HIDE DEF value, i
<1>1. /\ line = Exported /\ ~IsError(Exported) /\ Valid(line, origin.family) /\ SourceIsTyped
      /\ target.zone \in Zones /\ target.precision \in Precisions
      /\ Compatible(origin.family, target.family)
      /\ IsError(Imported) /\ (place = "crashed" <=> Imported.says = "crash")
      /\ place \in {"refused", "crashed"}
  BY DEF WayInvariant, WrittenIsExported, StoredIsImported, RefusedByImport
<1>2. IsPlain(line) /\ ~IsError(line)
  BY <1>1, WrittenMeaning
<1>3. value # NULL /\ ~IsError(value)
  <2>1. ~IsError(value)
    BY <1>2 DEF value, Untagged, IsError, Value
  <2>2. ASSUME value = NULL PROVE FALSE
    <3>1. Imported = value
      BY <2>2 DEF Imported, Decode, value
    <3> QED BY <1>1, <2>1, <3>1
  <2> QED BY <2>1, <2>2
<1>4. /\ line.is \notin {"decimalTag", "blobTag"} => value = line
      /\ line.is = "decimalTag" => value = Value("decimal", line.says)
      /\ line.is = "blobTag" => value = Value("bytes", line.says)
  BY DEF value, Untagged
<1>5. line # NULL
  BY <1>3, <1>4 DEF NULL, Value
<1>6. CASE target.family = "datetime"
  <2>1. origin.family = "datetime" /\ IsMoment(line)
    BY <1>1, <1>5, <1>6 DEF Compatible, NumericFamilies, Valid
  <2>2. value = line
    BY <1>4, <2>1 DEF IsMoment
  <2>3. Imported = Localized(line, target.zone, target.precision)
    BY <1>3, <1>6, <2>1, <2>2 DEF Imported, Decode, value
  <2>4. line = Moment("str", i, 0, origin.value.digits) /\ Representable(i)
    BY <1>1, <2>1, WrittenInstant DEF i
  <2>5. Instant(line, target.zone) = i
    BY <2>4, ZonesAssumption DEF Instant, Moment, Representable, Hours
  <2>6. ~Representable(i + Offset[target.zone][i]) /\ Imported = Error("crash")
    BY <1>1, <2>3, <2>4, <2>5 DEF Localized, Moment, IsError
  <2> QED BY <1>1, <2>4, <2>6 DEF Error, Moment
<1>7. CASE target.family \in {"date", "time"}
  <2>1. IsTemporal(line, target.family)
    BY <1>1, <1>5, <1>7 DEF Compatible, NumericFamilies, Valid
  <2>2. Imported = value
    BY <1>3, <1>4, <1>7, <2>1 DEF Imported, Decode, value, IsTemporal
  <2> QED BY <1>1, <1>3, <2>2
<1>8. CASE target.family = "boolean"
  <2>1. Imported = Boolean(value)
    BY <1>3, <1>8 DEF Imported, Decode, value
  <2>2. Imported = Refused
    BY <1>1, <1>3, <2>1 DEF Boolean, IsError, Value
  <2>3. place = "refused"
    BY <1>1, <2>2 DEF Refused, Error
  <2>4. ASSUME line.is # "decimalTag", line.says \in {"0", "1", "yes", "no"} PROVE FALSE
    <3>1. /\ value = line /\ line.is \in {"bool", "int", "float", "str"}
          /\ line.is \in {"int", "float"} => line.says \in {"0", "1"}
      BY <1>2, <1>4, <1>5, <2>4 DEF IsPlain, JsonClasses, IsError
    <3> QED BY <1>3, <2>1, <2>2, <2>4, <3>1 DEF Boolean, Refused, Error, IsError, Value
  <2> QED BY <1>8, <2>3, <2>4
<1>9. CASE target.family \notin {"datetime", "date", "time", "boolean"}
  <2>1. Imported = value
    BY <1>3, <1>9 DEF Imported, Decode, value
  <2> QED BY <1>1, <1>3, <2>1
<1> QED BY <1>6, <1>7, <1>8, <1>9

(* What export writes, both passes of import accept, but for these.        *)
THEOREM WrittenAccepted == WaySpec => []WrittenIsAccepted
<1>1. ASSUME WayInvariant PROVE WrittenIsAccepted
  <2>1. place = "file" => Valid(line, origin.family)
    BY <1>1 DEF WayInvariant, WrittenIsExported
  <2> QED BY <1>1, <2>1, WrittenCanBeDecoded DEF WrittenIsAccepted, RefusedByImport
<1> QED BY <1>1, WayInvariantHolds, PTL

(* Nothing is coerced on the way from one database to another: what is     *)
(* stored is the number, truth value, text or moment that was exported.    *)
THEOREM MeaningKept == WaySpec => []MeaningIsKept
<1>1. ASSUME WayInvariant PROVE MeaningIsKept
  <2> SUFFICES ASSUME place \in {"stored", "done"} PROVE MeaningIsKept
    BY DEF MeaningIsKept
  <2>1. /\ line = Exported /\ ~IsError(Exported) /\ SourceIsTyped
        /\ stored = Parameter(target.dialect, Imported) /\ ~IsError(Imported)
    BY <1>1 DEF WayInvariant, WrittenIsExported, StoredIsImported
  <2>2. /\ IsPlain(line)
        /\ \/ Meaning(line) = Meaning(origin.value)
           \/ origin.value = Value("str", "zeroDate") /\ origin.zeroIsNull /\ line = NULL
    BY <2>1, WrittenMeaning
  <2>3. Meaning(stored) = Meaning(line)
    BY <2>1, <2>2, DecodeMeaning DEF Imported
  <2>4. ASSUME line = NULL PROVE stored = NULL
    BY <2>1, <2>4 DEF Imported, Decode, Untagged, NULL, Value, Parameter
  <2> QED BY <2>2, <2>3, <2>4 DEF MeaningIsKept
<1> QED BY <1>1, WayInvariantHolds, PTL

-----------------------------------------------------------------------------

StoredClasses == {"null", "bool", "int", "float", "str", "decimal", "bytes"}

LEMMA DecodeClass ==
  ASSUME NEW j, j.is \in JsonClasses, NEW f, NEW z, NEW p, NEW d, ~IsError(Decode(j, f, z, p))
  PROVE  Parameter(d, Decode(j, f, z, p)).is \in StoredClasses \cup {"none"}
<1> DEFINE value == Untagged(j)
           out == Decode(j, f, z, p)
<1> HIDE DEF value, out
<1>1. value.is \in StoredClasses \cup {"none"}
  BY DEF value, Untagged, Value, JsonClasses, StoredClasses
<1>2. \/ out = value
      \/ IsMoment(value) /\ out = Localized(value, z, p)
      \/ out = Refused
      \/ out = Boolean(value)
  BY DEF out, value, Decode
<1>3. out.is \in StoredClasses \cup {"none", "error"}
  BY <1>1, <1>2 DEF Localized, Boolean, Refused, Error, Moment, Value, StoredClasses
<1> QED BY <1>3 DEF Parameter, Value, StoredClasses, IsError, out

(* An export of what is stored gives JSON, or is refused.                  *)
LEMMA ExportClass ==
  ASSUME NEW v, v.is \in StoredClasses \cup {"none"}, NEW d, NEW f, NEW z
  PROVE  ExportOf(d, v, f, z, TRUE).is \in JsonClasses \cup {"error"}
<1>1. ASSUME NEW r, r.is \in StoredClasses \cup {"none"}
      PROVE  Encode(r, f, z).is \in JsonClasses \cup {"error"}
  <2>1. JsonOf(r).is \in JsonClasses \cup {"error"}
    BY <1>1 DEF JsonOf, Value, Refused, Error, JsonClasses, StoredClasses
  <2>2. Encode(r, f, z) \in {JsonOf(r), Refused, Value("decimalTag", r.says), Normalized(JsonOf(r), z)}
    BY DEF Encode
  <2> QED BY <2>1, <2>2 DEF Normalized, Moment, Error, Refused, Value, JsonClasses
<1>2. FromMysql(v, f, TRUE) \in {v, NULL, Refused, Value("str", "clock")}
  BY DEF FromMysql
<1>3. ASSUME NEW r, r \in {v, NULL, Value("str", "clock")}
      PROVE  r.is \in StoredClasses \cup {"none"}
  BY <1>3 DEF NULL, Value, StoredClasses
<1> DEFINE read == IF d = "mysql" THEN FromMysql(v, f, TRUE) ELSE v
<1> HIDE DEF read
<1>4. ExportOf(d, v, f, z, TRUE) = IF IsError(read) THEN read ELSE Encode(read, f, z)
  BY DEF ExportOf, read
<1>5. read \in {v, NULL, Refused, Value("str", "clock")}
  BY <1>2 DEF read
<1>6. CASE read = Refused
  BY <1>4, <1>6 DEF IsError, Refused, Error
<1>7. CASE read # Refused
  <2>1. read.is \in StoredClasses \cup {"none"}
    BY <1>3, <1>5, <1>7
  <2>2. ~IsError(read)
    BY <2>1 DEF IsError, StoredClasses
  <2> QED BY <1>1, <1>4, <2>1, <2>2
<1> QED BY <1>6, <1>7

(* What a database gives back is of a class that it stores, or nothing     *)
(* that the driver can return.                                             *)
LEMMA GivenBackClass ==
  ASSUME NEW column, NEW s, s.is \in StoredClasses \cup {"none"}, NEW v \in GivenBack(column, s)
  PROVE  v.is \in StoredClasses \cup {"none"} \/ v = Error("crash")
<1> DEFINE numeric ==
      /\ s.is \in {"bool", "int", "float", "decimal", "str"} /\ column.family \in NumericFamilies
      /\ s.says \in {"0", "1", "2"}
<1>1. CASE numeric
  BY <1>1 DEF GivenBack, Value, StoredClasses
<1>2. CASE ~numeric /\ ~(column.family = "datetime" /\ IsMoment(s))
  <2>1. v = s
    BY <1>2 DEF GivenBack
  <2> QED BY <2>1
<1>3. CASE ~numeric /\ column.family = "datetime" /\ IsMoment(s)
  <2>1. PICK m \in Rounded(column.dialect, s) : v \in Returned(column, m)
    BY <1>3 DEF GivenBack
  <2>2. m.is = "str"
    BY <1>3, <2>1 DEF Rounded, Moment, IsMoment
  <2>3. v = m \/ v = Error("crash") \/ (\E i : v = At(column, m, i))
    BY <2>1 DEF Returned
  <2>4. ASSUME NEW i PROVE At(column, m, i).is = "str" \/ At(column, m, i) = Error("crash")
    BY DEF At, Moment
  <2> QED BY <2>2, <2>3, <2>4 DEF StoredClasses
<1> QED BY <1>1, <1>2, <1>3

LEMMA ClassesAreKept == WayInvariant /\ WayTypeOK /\ [WayNext]_wayVars => WayTypeOK'
<1> SUFFICES ASSUME WayInvariant, WayTypeOK, [WayNext]_wayVars PROVE WayTypeOK' OBVIOUS
<1>1. WayInvariant'
  BY NextKeepsWay
<1>2. origin'.family \in Families /\ origin'.dialect \in Dialects
  BY <1>1 DEF WayInvariant, SourceIsTyped
<1>3. /\ place' \in {"export", "file", "replay", "stored", "done", "refused", "crashed"}
      /\ place' \in {"replay", "stored", "done"} => target'.dialect \in Dialects
  BY <1>1 DEF WayInvariant, StoredIsImported
<1>4. line'.is \in JsonClasses
  <2>1. ASSUME Export, line' # line PROVE line'.is \in JsonClasses
    <3>1. line' = Exported /\ ~IsError(Exported)
      BY <2>1 DEF Export, Stop, Exported
    <3> QED BY <3>1, WrittenMeaning DEF WayInvariant, IsPlain, IsError
  <2> QED BY <2>1 DEF WayTypeOK, WayNext, Preflight, Replay, ExportAgain, wayVars
<1>5. stored'.is \in StoredClasses \cup {"none"}
  <2>1. ASSUME Replay, stored' # stored PROVE stored'.is \in StoredClasses \cup {"none"}
    <3>1. stored' = Parameter(target.dialect, Imported) /\ ~IsError(Imported)
      BY <2>1 DEF Replay, Stop, Imported
    <3> QED BY <3>1, DecodeClass DEF WayTypeOK, Imported
  <2> QED BY <2>1 DEF WayTypeOK, StoredClasses, WayNext, Export, Preflight, ExportAgain, wayVars
<1>6. again'.is \in JsonClasses \cup {"error"}
  <2>1. ASSUME ExportAgain PROVE again'.is \in JsonClasses \cup {"error"}
    <3>1. PICK v \in GivenBack(target, stored) :
            again' = ExportOf(target.dialect, v, target.family, target.zone, TRUE)
      BY <2>1 DEF ExportAgain
    <3>2. stored.is \in StoredClasses \cup {"none"}
      BY DEF WayTypeOK, StoredClasses
    <3>3. v.is \in StoredClasses \cup {"none"} \/ v = Error("crash")
      BY <3>1, <3>2, GivenBackClass
    <3>4. CASE v = Error("crash")
      <4>1. FromMysql(v, target.family, TRUE) = v
        BY <3>4 DEF FromMysql, Error, Value
      <4>2. again' = v
        <5>1. IsError(v)
          BY <3>4 DEF IsError, Error
        <5> QED BY <3>1, <4>1, <5>1 DEF ExportOf
      <4> QED BY <3>4, <4>2 DEF Error
    <3>5. CASE v.is \in StoredClasses \cup {"none"}
      BY <3>1, <3>5, ExportClass
    <3> QED BY <3>3, <3>4, <3>5
  <2> QED BY <2>1 DEF WayTypeOK, WayNext, Export, Preflight, Replay, wayVars
<1> QED BY <1>2, <1>3, <1>4, <1>5, <1>6 DEF WayTypeOK, StoredClasses

(* Only JSON is written, and only what a driver takes is stored.           *)
THEOREM WayTypeCorrect == WaySpec => []WayTypeOK
<1>1. WayInit => WayTypeOK
  <2>1. WayInit => WayInvariant
    BY InitialWay
  <2> QED BY <2>1 DEF WayInit, WayTypeOK, NoValue, Value, JsonClasses, WayInvariant, SourceIsTyped
<1> QED BY <1>1, ClassesAreKept, WayInvariantHolds, PTL DEF WaySpec

-----------------------------------------------------------------------------
(* An export of the target.                                                *)

(* What an export makes of a value of the target.                          *)
Reexported(d, v, f, z) == ExportOf(d, v, f, z, TRUE)

(* What was written a second time is what an export makes of a value the   *)
(* target gives back.                                                      *)
AgainIsExported ==
  place = "done" =>
    \E v \in GivenBack(target, stored) :
      again = Reexported(target.dialect, v, target.family, target.zone)

LEMMA NextKeepsAgain == AgainIsExported /\ [WayNext]_wayVars => AgainIsExported'
<1> SUFFICES ASSUME AgainIsExported, [WayNext]_wayVars PROVE AgainIsExported' OBVIOUS
<1>1. CASE ExportAgain
  BY <1>1 DEF ExportAgain, AgainIsExported, Reexported
<1>2. CASE Export \/ Preflight \/ Replay
  BY <1>2 DEF Export, Stop, Preflight, Replay, AgainIsExported
<1>3. CASE UNCHANGED wayVars
  BY <1>3 DEF wayVars, AgainIsExported
<1> QED BY <1>1, <1>2, <1>3 DEF WayNext

(* In the file are neither NaN nor, but for decimal columns, decimals, and *)
(* moments only for columns of moments.                                    *)
LEMMA WrittenForm ==
  ASSUME SourceIsTyped, ~IsError(Exported)
  PROVE  /\ Exported.is = "float" => Exported.says # "nan"
         /\ Exported.is = "decimalTag" =>
              origin.family = "decimal" /\ Exported.says \in {"0", "1", "2"}
         /\ origin.family # "datetime" => ~IsMoment(Exported)
<1> DEFINE v == origin.value
           f == origin.family
           read == IF origin.dialect = "mysql" THEN FromMysql(v, f, origin.zeroIsNull) ELSE v
           json == JsonOf(read)
<1> HIDE DEF read, json
<1>1. /\ v \in Values \cup Moments /\ (f # "datetime" => v \in Values)
      /\ v.is = "decimal" => f = "decimal"
  BY DEF SourceIsTyped, Fits, NULL, Value
<1>2. /\ \/ v = [is |-> v.is, says |-> v.says] /\ v \in Values
         \/ v = Moment(v.is, v.wall, v.offset, v.digits) /\ v.is \in {"datetime", "str"}
      /\ v \in Values => v.says # "moment" /\ v.is # "decimalTag"
  BY <1>1, ColumnValue DEF Values, Value, NULL, Blob, Numbers, Booleans, Objects, Words
<1>3. read \in {v, NULL, Value("str", "clock")}
  BY <1>1, FromMysqlIs DEF Exported, ExportOf, read, IsError, Refused, Error
<1>4. Exported = Encode(read, f, origin.zone)
  BY DEF Exported, ExportOf, read
<1>5. ASSUME ~IsError(json)
      PROVE  /\ json.is = "float" => json.says # "nan"
             /\ json.is = "decimalTag" => f = "decimal"
             /\ f # "datetime" => json.says # "moment"
  <2>1. CASE read = v /\ v \in Values
    BY <1>1, <1>2, <1>5, <2>1 DEF json, JsonOf, Value, IsError, Refused, Error
  <2>2. CASE read = v /\ v \notin Values
    BY <1>1, <1>2, <2>2 DEF json, JsonOf, Moment
  <2>3. CASE read \in {NULL, Value("str", "clock")}
    BY <2>3 DEF json, JsonOf, NULL, Value
  <2> QED BY <1>3, <2>1, <2>2, <2>3
<1>6. ~IsError(json)
  BY <1>4 DEF Encode, json
<1>7. CASE f = "decimal"
  <2>1. \/ Exported = NULL
        \/ Exported = Value("decimalTag", read.says) /\ read.says \in {"0", "1", "2"}
    BY <1>4, <1>6, <1>7 DEF Encode, json, IsError, Refused, Error
  <2> QED BY <1>7, <2>1 DEF NULL, Value, IsMoment
<1>8. CASE f = "datetime"
  <2>1. Exported = NULL \/ Exported = Normalized(json, origin.zone)
    BY <1>4, <1>6, <1>8 DEF Encode, json, IsError, Refused, Error
  <2> QED BY <1>8, <2>1 DEF NULL, Value, Normalized, Moment, Error, IsError
<1>9. CASE f \notin {"decimal", "datetime"}
  <2>1. Exported = json
    BY <1>4, <1>6, <1>9 DEF Encode, json, IsError, Refused, Error
  <2> QED BY <1>5, <1>6, <1>9, <2>1 DEF IsMoment
<1> QED BY <1>7, <1>8, <1>9

(* A clock that shows an hour once shows it at the instant it is read as.  *)
LEMMA ShownOnce ==
  ASSUME NEW z \in Zones, NEW w \in Int, NEW i \in Shown(z, w),
         ~(Cardinality(Shown(z, w)) > 1)
  PROVE  w - OffsetAt(z, w) = i
<1> DEFINE shown == Shown(z, w)
           first == CHOOSE j \in shown : \A k \in shown : j <= k
<1>1. shown \subseteq 0 .. LastHour /\ IsFiniteSet(0 .. LastHour)
  BY FS_Interval, ZonesAssumption DEF Shown, Hours
<1>2. IsFiniteSet(shown) /\ Cardinality(shown) \in Nat
  BY <1>1, FS_Subset, FS_CardinalityType
<1>3. \A j \in shown : j = i
  <2> SUFFICES ASSUME NEW j \in shown, j # i PROVE FALSE
    OBVIOUS
  <2>1. Cardinality({i, j}) = 2
    <3>1. Cardinality({i}) = 1 /\ IsFiniteSet({i}) /\ {i, j} = {i} \cup {j}
      BY FS_Singleton
    <3>2. Cardinality({i} \cup {j}) = 1 + 1
      BY <3>1, FS_AddElement
    <3> QED BY <3>1, <3>2
  <2>2. Cardinality({i, j}) <= Cardinality(shown)
    BY <1>2, FS_Subset
  <2> QED BY <1>2, <2>1, <2>2
<1>4. i \in Int
  BY ZonesAssumption DEF Shown, Hours
<1>5. first = i
  <2>1. i \in shown /\ \A k \in shown : i <= k
    BY <1>3, <1>4
  <2>2. first \in shown
    BY <2>1, Zenon
  <2> QED BY <1>3, <2>2
<1>6. OffsetAt(z, w) = w - i
  <2>1. shown # {}
    OBVIOUS
  <2>2. OffsetAt(z, w) = w - first
    BY <2>1 DEF OffsetAt
  <2> QED BY <1>5, <2>2
<1> QED BY <1>4, <1>6

(* A clock reading that the target's zone shows once, at i, comes back as  *)
(* a reading that an export in that zone takes for i.                      *)
LEMMA MomentGivenBack ==
  ASSUME NEW column, NEW z \in Zones, column.zone = z, column.session \in Zones,
         column.family = "datetime",
         NEW i \in Hours, NEW d,
         NEW w \in Hours, w = i + Offset[z][i], ~(Cardinality(Shown(z, w)) > 1),
         ~(column.dialect = "postgresql" /\ d > 6),
         ~(/\ column.aware
           /\ IF column.dialect = "mysql" THEN Shown(column.session, w) = {}
              ELSE column.session # column.zone),
         NEW v \in GivenBack(column, Moment("str", w, NoOffset, d))
  PROVE  \E o : v = Moment("str", w, o, d) /\ Instant(v, z) = i
<1> DEFINE m == Moment("str", w, NoOffset, d)
<1>1. /\ m.wall = w /\ m.offset = NoOffset /\ m.digits = d /\ IsMoment(m)
      /\ m.says \notin {"0", "1", "2"}
  BY DEF Moment, IsMoment
<1>2. i \in Int /\ w \in Int /\ Offset[z][i] \in Int /\ i \in Shown(z, w)
  BY ZonesAssumption DEF Hours, Shown
<1>3. w - OffsetAt(z, w) = i
  BY <1>2, ShownOnce
<1>4. Instant(m, z) = i
  BY <1>1, <1>3 DEF Instant
<1>5. v \in Returned(column, m)
  <2>1. GivenBack(column, m) = UNION {Returned(column, r) : r \in Rounded(column.dialect, m)}
    BY <1>1 DEF GivenBack
  <2>2. Rounded(column.dialect, m) = {m}
    BY <1>1 DEF Rounded
  <2> QED BY <2>1, <2>2
<1>6. CASE ~column.aware
  <2>1. v = m
    BY <1>1, <1>5, <1>6 DEF Returned, Representable
  <2> QED BY <1>4, <2>1
<1>7. CASE column.aware
  <2>1. PICK j \in TakenFor(column.session, w) : v = At(column, m, j)
    BY <1>1, <1>5, <1>7 DEF Returned
  <2>2. Shown(column.session, w) # {} /\ (column.dialect # "mysql" => column.session = z)
    BY <1>2, <1>7
  <2>3. j \in Hours /\ j + Offset[column.session][j] = w
    BY <2>2 DEF TakenFor, Shown
  <2>4. v = Moment("str", w, IF column.dialect = "mysql" THEN NoOffset ELSE Offset[column.session][j], d)
    BY <1>1, <2>1, <2>3 DEF At, Representable
  <2>5. CASE column.dialect = "mysql"
    <3>1. v = m
      BY <2>4, <2>5
    <3> QED BY <1>4, <3>1
  <2>6. CASE column.dialect # "mysql"
    <3>1. j \in Shown(z, w) /\ j \in Int
      BY <2>2, <2>3, <2>6, ZonesAssumption DEF Shown, Hours
    <3>2. w - OffsetAt(z, w) = j
      BY <1>2, <3>1, ShownOnce
    <3>3. v = Moment("str", w, Offset[z][i], d)
      BY <1>3, <2>2, <2>4, <2>6, <3>2
    <3>4. Offset[z][i] # NoOffset
      BY <1>2, ZonesAssumption
    <3>5. Instant(v, z) = w - Offset[z][i]
      BY <3>3, <3>4 DEF Instant, Moment
    <3> QED BY <1>2, <3>3, <3>5
  <2> QED BY <2>5, <2>6
<1> QED BY <1>6, <1>7

(* A moment comes out of the target as it went in.                         *)
LEMMA MomentAgain ==
  ASSUME WayInvariant, AgainIsExported, place = "done", target.family = "datetime",
         IsMoment(line), ~(Cardinality(Shown(target.zone, stored.wall)) > 1),
         ~(target.dialect = "postgresql" /\ stored.digits > 6), ~TakenForAnother
  PROVE  again = [line EXCEPT !.digits = stored.digits]
<1> DEFINE i == Instant(origin.value, origin.zone)
           z == target.zone
           d == Cut(origin.value.digits, target.precision)
           w == i + Offset[z][i]
<1> HIDE DEF i, d
<1>1. /\ origin.family = "datetime" /\ z \in Zones /\ target.precision \in Precisions
      /\ target.session \in Zones
      /\ stored = Parameter(target.dialect, Imported) /\ ~IsError(Imported)
  BY DEF WayInvariant, StoredIsImported, SourceIsTyped, Compatible, NumericFamilies
<1>2. /\ line = Moment("str", i, 0, origin.value.digits)
      /\ Representable(i) /\ origin.value \in Moments
  BY <1>1, WrittenInstant DEF WayInvariant, WrittenIsExported, i
<1>3. origin.value.digits \in Digits
  BY <1>2 DEF Moments, Moment
<1>4. Imported = Localized(line, z, target.precision)
  BY <1>1, <1>2 DEF Imported, Decode, Untagged, Moment, IsMoment, NULL, Value
<1>5. Imported = Moment("str", w, NoOffset, d)
  BY <1>1, <1>2, <1>3, <1>4, StoredInstant DEF d
<1>6. stored = Moment("str", w, NoOffset, d)
  BY <1>1, <1>5 DEF Parameter, Moment
<1>7. stored.wall = w /\ stored.digits = d
  BY <1>6 DEF Moment
<1>8. i \in Hours /\ w \in Hours
  <2>1. Instant(line, z) = i
    BY <1>2, ZonesAssumption DEF Instant, Moment, Representable, Hours
  <2> QED BY <1>1, <1>2, <1>4, <2>1 DEF Localized, Error, IsError, Representable
<1>9. PICK v \in GivenBack(target, stored) : again = Reexported(target.dialect, v, "datetime", z)
  BY DEF AgainIsExported
<1>10. PICK o : v = Moment("str", w, o, d) /\ Instant(v, z) = i
  <2>1. v \in GivenBack(target, Moment("str", w, NoOffset, d))
    BY <1>6, <1>9
  <2>2. /\ ~(Cardinality(Shown(z, w)) > 1) /\ ~(target.dialect = "postgresql" /\ d > 6)
        /\ ~(/\ target.aware
             /\ IF target.dialect = "mysql" THEN Shown(target.session, w) = {}
                ELSE target.session # target.zone)
    BY <1>7 DEF TakenForAnother
  <2> HIDE DEF w
  <2>3. w = i + Offset[z][i]
    BY DEF w
  <2> QED BY <1>1, <1>8, <2>1, <2>2, <2>3, MomentGivenBack
<1> HIDE DEF w
<1>11. FromMysql(v, "datetime", TRUE) = v
  BY <1>10 DEF FromMysql, Moment, Value
<1>12. again = Encode(v, "datetime", z)
  <2>1. ~IsError(v)
    BY <1>10 DEF IsError, Moment
  <2> QED BY <1>9, <1>11, <2>1 DEF Reexported, ExportOf
<1>13. JsonOf(v) = v /\ v # NULL /\ IsMoment(v) /\ ~IsError(v)
  BY <1>10 DEF JsonOf, Moment, NULL, Value, IsMoment, IsError
<1>14. again = Normalized(v, z)
  BY <1>12, <1>13 DEF Encode
<1>15. again = Moment("str", i, 0, d)
  BY <1>2, <1>10, <1>14 DEF Normalized, Moment
<1> QED BY <1>2, <1>7, <1>15 DEF Moment

(* So does what a column gives back as it got it.                          *)
LEMMA PlainAgain ==
  ASSUME NEW v, v.is \in {"bool", "int", "float", "str", "bytes"},
         v.is = "float" => v.says # "nan",
         NEW f \in {"date", "time", "text", "blob", "boolean", "integer", "real"},
         f \in {"date", "time"} => IsTemporal(v, f),
         f = "blob" => v.is = "bytes", NEW d, NEW z
  PROVE  /\ Reexported(d, v, f, z).says = v.says
         /\ Reexported(d, v, f, z).is = IF v.is = "bytes" THEN "blobTag" ELSE v.is
<1> DEFINE read == IF d = "mysql" THEN FromMysql(v, f, TRUE) ELSE v
<1>1. ~(v = Value("str", "zeroDate") /\ f \in {"date", "datetime"})
  BY DEF IsTemporal, Value
<1>2. read = v
  BY <1>1 DEF FromMysql
<1>3. Reexported(d, v, f, z) = Encode(v, f, z)
  BY <1>2 DEF Reexported, ExportOf, IsError
<1>4. JsonOf(v) = IF v.is = "bytes" THEN Value("blobTag", v.says) ELSE v
  BY DEF JsonOf
<1>5. ~IsError(JsonOf(v)) /\ JsonOf(v) # NULL
  BY <1>4 DEF IsError, NULL, Value
<1>6. Encode(v, f, z) = JsonOf(v)
  <2>1. CASE f \in {"date", "time"}
    <3>1. v.is = "str" /\ IsTemporal(JsonOf(v), f)
      BY <1>4, <2>1 DEF IsTemporal
    <3> QED BY <1>5, <2>1, <3>1 DEF Encode
  <2>2. CASE f = "blob"
    BY <1>4, <1>5, <2>2 DEF Encode, Value
  <2>3. CASE f \in {"text", "boolean", "integer", "real"}
    BY <1>5, <2>3 DEF Encode
  <2> QED BY <2>1, <2>2, <2>3
<1>7. Reexported(d, v, f, z) = JsonOf(v)
  BY <1>3, <1>6
<1>8. JsonOf(v).says = v.says /\ JsonOf(v).is = IF v.is = "bytes" THEN "blobTag" ELSE v.is
  BY <1>4 DEF Value
<1> QED BY <1>7, <1>8

LEMMA MeaningOfNumber ==
  ASSUME NEW v, v.is # "timedelta", v.is = "str" => v.says \notin {"yes", "no"}
  PROVE  Meaning(v) = v.says
  BY DEF Meaning

LEMMA MeaningOfText ==
  ASSUME NEW v, NEW w, v.is = w.is, v.says = w.says
  PROVE  Meaning(v) = Meaning(w)
  BY DEF Meaning

(* A number comes out as one that means the same.                          *)
LEMMA NumericAgain ==
  ASSUME NEW s, s.is \in {"bool", "int", "float", "str", "bytes", "decimal"},
         s.is = "float" => s.says # "nan",
         s.is = "decimal" => s.says \in {"0", "1", "2"},
         NEW column, column.family \in NumericFamilies,
         column.family = "decimal" => s.is \in {"decimal", "str"} /\ s.says \in {"0", "1", "2"},
         NEW z, NEW v \in GivenBack(column, s)
  PROVE  Meaning(Reexported(column.dialect, v, column.family, z)) = Meaning(s)
<1> DEFINE f == column.family
           d == column.dialect
           code == Reexported(d, v, f, z)
<1> HIDE DEF code
<1>1. CASE s.is # "bytes" /\ s.says \in {"0", "1", "2"}
  <2>1. PICK c \in {"bool", "int", "decimal", "float"} : v = Value(c, s.says)
    BY <1>1 DEF GivenBack
  <2>2. code = Encode(v, f, z)
    <3>1. FromMysql(v, f, TRUE) = v
      BY <2>1 DEF FromMysql, Value
    <3>2. ~IsError(v)
      BY <2>1 DEF IsError, Value
    <3> QED BY <3>1, <3>2 DEF code, Reexported, ExportOf
  <2>3. JsonOf(v) = IF c = "decimal" THEN Value("decimalTag", s.says) ELSE v
    BY <1>1, <2>1 DEF JsonOf, Value
  <2>4. ~IsError(JsonOf(v)) /\ JsonOf(v) # NULL
    BY <2>1, <2>3 DEF IsError, NULL, Value
  <2>5. CASE f = "decimal"
    <3>1. v.is \in {"float", "decimal"} /\ v.says = s.says
      BY <2>1, <2>5 DEF GivenBack, Value
    <3>2. code = Value("decimalTag", v.says)
      BY <1>1, <2>2, <2>4, <2>5, <3>1 DEF Encode
    <3>3. code.is = "decimalTag" /\ code.says = s.says
      BY <3>1, <3>2 DEF Value
    <3> QED BY <1>1, <3>3, MeaningOfNumber DEF code
  <2>6. CASE f # "decimal"
    <3>1. code = JsonOf(v)
      BY <2>2, <2>4, <2>6 DEF Encode, NumericFamilies
    <3>2. code.says = s.says /\ code.is \in {"decimalTag", "bool", "int", "float"}
      BY <2>1, <2>3, <3>1 DEF Value
    <3> QED BY <1>1, <3>2, MeaningOfNumber DEF code
  <2> QED BY <2>5, <2>6
<1>2. CASE ~(s.is # "bytes" /\ s.says \in {"0", "1", "2"})
  <2>1. v = s /\ f \in {"boolean", "integer", "real"}
    BY <1>2 DEF GivenBack, NumericFamilies
  <2>2. s.is # "decimal"
    BY <1>2
  <2>3. code.says = s.says /\ code.is = IF s.is = "bytes" THEN "blobTag" ELSE s.is
    BY <2>1, <2>2, PlainAgain DEF code
  <2> QED BY <2>2, <2>3, MeaningOfNumber, MeaningOfText DEF code
<1> QED BY <1>1, <1>2 DEF code

(* What a column of the same family as the value's own is given.           *)
LEMMA StoredForm ==
  ASSUME WayInvariant, place = "done", origin.family = target.family, line # NULL,
         target.family # "datetime"
  PROVE  /\ stored.is \in {"bool", "int", "float", "str", "bytes", "decimal"}
         /\ stored.is = "float" => stored.says # "nan"
         /\ stored.is = "decimal" => target.family = "decimal"
         /\ target.family = "decimal" =>
              stored.is \in {"decimal", "str"} /\ stored.says \in {"0", "1", "2"}
         /\ target.family \in {"date", "time"} => IsTemporal(stored, target.family)
         /\ target.family = "blob" => stored.is = "bytes"
         /\ target.family \notin NumericFamilies =>
              /\ stored.says = line.says
              /\ line.is = IF stored.is = "bytes" THEN "blobTag" ELSE stored.is
<1> DEFINE f == target.family
           value == Untagged(line)
<1> HIDE DEF value
<1>1. /\ line = Exported /\ ~IsError(line) /\ SourceIsTyped /\ Valid(line, f)
      /\ f \in Families
      /\ stored = Parameter(target.dialect, Imported) /\ ~IsError(Imported)
  BY DEF WayInvariant, WrittenIsExported, StoredIsImported, SourceIsTyped
<1>2. /\ line.is \in {"bool", "int", "float", "str", "decimalTag", "blobTag"}
      /\ line.is = "float" => line.says # "nan"
      /\ line.is = "decimalTag" => f = "decimal" /\ line.says \in {"0", "1", "2"}
  BY <1>1, WrittenMeaning, WrittenForm DEF IsPlain, JsonClasses, IsError
<1>3. value = CASE line.is = "blobTag" -> Value("bytes", line.says)
                [] line.is = "decimalTag" -> Value("decimal", line.says)
                [] OTHER -> line
  BY DEF value, Untagged
<1>4. value # NULL
  BY <1>2, <1>3 DEF NULL, Value
<1>5. CASE f = "decimal"
  <2>1. line.is = "decimalTag" /\ Imported = value
    BY <1>1, <1>4, <1>5 DEF Imported, Decode, Valid, value
  <2>2. stored \in {Value("decimal", line.says), Value("str", line.says)}
    BY <1>1, <1>3, <2>1 DEF Parameter, Value
  <2> QED BY <1>2, <1>5, <2>1, <2>2 DEF Value, NumericFamilies
<1>6. CASE f \in {"date", "time"}
  <2>1. IsTemporal(line, f)
    BY <1>1, <1>6 DEF Valid
  <2>2. value = line
    BY <1>3, <2>1 DEF IsTemporal
  <2>3. Imported = line
    BY <1>4, <1>6, <2>1, <2>2 DEF Imported, Decode, value
  <2>4. stored = line
    BY <1>1, <2>1, <2>3 DEF Parameter, IsTemporal
  <2> QED BY <1>6, <2>1, <2>4 DEF IsTemporal
<1>7. CASE f = "boolean"
  <2>1. Imported = Boolean(value)
    BY <1>4, <1>7 DEF Imported, Decode, value
  <2>2. Imported.is = "bool"
    BY <1>1, <2>1 DEF Boolean, Value, IsError, Refused, Error
  <2>3. stored = Imported
    BY <1>1, <2>2 DEF Parameter
  <2> QED BY <1>7, <2>2, <2>3 DEF NumericFamilies
<1>8. CASE f \in {"blob", "integer", "real", "text"}
  <2>1. Imported = value
    BY <1>4, <1>8 DEF Imported, Decode, value
  <2>2. /\ value.says = line.says
        /\ value.is = IF line.is = "blobTag" THEN "bytes" ELSE line.is
    BY <1>2, <1>3, <1>8 DEF Value
  <2>3. stored = value
    BY <1>1, <1>2, <1>8, <2>1, <2>2 DEF Parameter
  <2>4. f = "blob" => line.is = "blobTag"
    BY <1>1 DEF Valid
  <2> QED BY <1>2, <1>8, <2>2, <2>3, <2>4
<1> QED BY <1>1, <1>5, <1>6, <1>7, <1>8 DEF Families

(* An export of the target, in the same zone and to a column of the same   *)
(* family, writes what was imported.                                       *)
LEMMA SameAgain ==
  ASSUME WayInvariant, AgainIsExported
  PROVE  ReexportIsTheSame
<1> SUFFICES ASSUME place = "done", origin.family = target.family PROVE ReexportIsTheSame
  BY DEF ReexportIsTheSame
<1> DEFINE f == target.family
<1>1. /\ line = Exported /\ ~IsError(line) /\ SourceIsTyped /\ Valid(line, f)
      /\ f \in Families
      /\ stored = Parameter(target.dialect, Imported) /\ ~IsError(Imported)
  BY DEF WayInvariant, WrittenIsExported, StoredIsImported, SourceIsTyped
<1>2. PICK v \in GivenBack(target, stored) :
        again = Reexported(target.dialect, v, f, target.zone)
  BY DEF AgainIsExported
<1>3. CASE line = NULL
  <2>1. stored = NULL
    BY <1>1, <1>3 DEF Imported, Decode, Untagged, Parameter, NULL, Value
  <2>2. v = NULL
    BY <1>2, <2>1 DEF GivenBack, NULL, Value, IsMoment
  <2>3. again = NULL
    BY <1>2, <2>2 DEF Reexported, ExportOf, FromMysql, Encode, JsonOf, IsError, NULL, Value
  <2> QED BY <1>3, <2>3 DEF ReexportIsTheSame, NULL, Value, IsMoment
<1>4. CASE line # NULL /\ f = "datetime"
  <2>1. IsMoment(line)
    BY <1>1, <1>4 DEF Valid
  <2> QED BY <1>4, <2>1, MomentAgain DEF ReexportIsTheSame
<1>5. CASE line # NULL /\ f \in {"date", "time", "blob", "text"}
  <2>1. /\ stored.is \in {"bool", "int", "float", "str", "bytes"}
        /\ stored.is = "float" => stored.says # "nan"
        /\ f \in {"date", "time"} => IsTemporal(stored, f)
        /\ f = "blob" => stored.is = "bytes"
        /\ stored.says = line.says
        /\ line.is = IF stored.is = "bytes" THEN "blobTag" ELSE stored.is
    BY <1>5, StoredForm DEF NumericFamilies
  <2>2. v = stored
    BY <1>2, <1>5, <2>1 DEF GivenBack, NumericFamilies
  <2>3. /\ again.says = stored.says
        /\ again.is = IF stored.is = "bytes" THEN "blobTag" ELSE stored.is
    BY <1>2, <1>5, <2>1, <2>2, PlainAgain
  <2>4. ~IsMoment(line)
    BY <1>1, <1>5, WrittenForm
  <2> QED BY <2>1, <2>3, <2>4 DEF ReexportIsTheSame
<1>6. CASE line # NULL /\ f \in NumericFamilies
  <2>1. /\ stored.is \in {"bool", "int", "float", "str", "bytes", "decimal"}
        /\ stored.is = "float" => stored.says # "nan"
        /\ stored.is = "decimal" => f = "decimal"
        /\ f = "decimal" => stored.is \in {"decimal", "str"} /\ stored.says \in {"0", "1", "2"}
    BY <1>6, StoredForm DEF NumericFamilies
  <2>2. Meaning(again) = Meaning(stored)
    BY <1>2, <1>6, <2>1, NumericAgain
  <2>3. Meaning(stored) = Meaning(line)
    BY <1>1, WrittenMeaning, DecodeMeaning DEF Imported
  <2> QED BY <1>6, <2>2, <2>3 DEF ReexportIsTheSame
<1> QED BY <1>1, <1>3, <1>4, <1>5, <1>6 DEF Families, NumericFamilies

(* What one database exports and another imports, the other exports again  *)
(* as it was, but for digits its column has no place for, the hour its     *)
(* clocks show twice, and what a server rounds away or takes for another   *)
(* instant: normalize_datetime and format_datetime_for_database are each   *)
(* other's inverse everywhere else.                                        *)
THEOREM ReexportSame == WaySpec => []ReexportIsTheSame
<1>1. WayInit => AgainIsExported
  BY DEF WayInit, AgainIsExported
<1> QED BY <1>1, NextKeepsAgain, SameAgain, WayInvariantHolds, PTL DEF WaySpec
=============================================================================
