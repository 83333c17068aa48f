------------------------ MODULE DumpPublish_proofs ------------------------
(***************************************************************************)
(* Proofs about DumpPublish, for any number of runs and names.             *)
(***************************************************************************)
EXTENDS DumpPublish, SequenceTheorems, TLAPS

-----------------------------------------------------------------------------
(* Names.                                                                  *)

(* Names with at most one number, the only ones a run sets out with.       *)
Short == {n \in Name : n.numbers \in {<<>>} \cup {<<i>> : i \in 1 .. MaxSequence}}

LEMMA BaseIsShort == \A a \in BOOLEAN : Base(a) \in Short /\ Base(a) \in Name
  BY DEF Base, Short, Name

LEMMA NumberedBaseIsShort ==
  \A a \in BOOLEAN, i \in 1 .. MaxSequence : Sequenced(Base(a), i) \in Short
<1> TAKE a \in BOOLEAN, i \in 1 .. MaxSequence
<1>1. Sequenced(Base(a), i) = [archive |-> a, numbers |-> <<i>>]
  BY DEF Sequenced, Base
<1> QED
  BY <1>1 DEF Short, Name

LEMMA TwoNumbers == \A i, j \in Nat : Append(<<j>>, i) = <<j, i>>
<1> TAKE i, j \in Nat
<1>1. <<j>> \in Seq(Nat) /\ Len(<<j>>) = 1 /\ <<j>>[1] = j
  OBVIOUS
<1>2. /\ Append(<<j>>, i) \in Seq(Nat) /\ Len(Append(<<j>>, i)) = 2
      /\ Append(<<j>>, i)[1] = j /\ Append(<<j>>, i)[2] = i
  BY <1>1, AppendProperties
<1>3. <<j, i>> \in Seq(Nat) /\ Len(<<j, i>>) = 2 /\ <<j, i>>[1] = j /\ <<j, i>>[2] = i
  OBVIOUS
<1>4. \A k \in 1 .. 2 : Append(<<j>>, i)[k] = <<j, i>>[k]
  BY <1>2, <1>3
<1> QED
  BY <1>2, <1>3, <1>4, SeqEqual

LEMMA NumberedIsName ==
  \A n \in Short, i \in 1 .. MaxSequence : Sequenced(n, i) \in Name
<1> TAKE n \in Short, i \in 1 .. MaxSequence
<1>1. CASE n.numbers = <<>>
  <2>1. Append(n.numbers, i) = <<i>>
    BY <1>1
  <2> QED
    BY <2>1 DEF Sequenced, Short, Name
<1>2. ASSUME NEW j \in 1 .. MaxSequence, n.numbers = <<j>> PROVE Sequenced(n, i) \in Name
  <2>1. Append(n.numbers, i) = <<j, i>>
    <3>1. i \in Nat /\ j \in Nat
      BY MaxSequenceAssumption
    <3> QED
      BY <1>2, <3>1, TwoNumbers
  <2> QED
    BY <2>1 DEF Sequenced, Short, Name
<1> QED
  BY <1>1, <1>2 DEF Short

-----------------------------------------------------------------------------
(* Types.                                                                  *)

(* A run looks for its name among the short ones.                          *)
SetsOutShort ==
  \A r \in Run :
    /\ stage[r] = "naming" => candidate[r] \in Short
    /\ automatic[r] \/ stage[r] = "idle" => output[r] \in Short

ExplicitKeepsName ==
  \A r \in Run :
    /\ stage[r] = "naming" => automatic[r]
    /\ stage[r] = "idle" => ~automatic[r]
    /\ stage[r] \notin {"idle", "naming"} /\ ~automatic[r] => candidate[r] = output[r]

TypeInvariant == TypeOK /\ SetsOutShort /\ ExplicitKeepsName

LEMMA TypeInit == Init => TypeInvariant
<1> SUFFICES ASSUME Init PROVE TypeInvariant
  OBVIOUS
<1>1. Base(FALSE) \in Name
  BY BaseIsShort
<1>2. TypeOK
  <2>1. /\ output \in [Run -> Name] /\ candidate \in [Run -> Name]
        /\ automatic \in [Run -> BOOLEAN] /\ archive \in [Run -> BOOLEAN]
    BY <1>1 DEF Init
  <2>2. sequence \in [Run -> 1 .. MaxSequence + 1]
    BY MaxSequenceAssumption DEF Init
  <2>3. held \in [Run -> SUBSET Kind] /\ stuck \in [Run -> SUBSET Kind] /\ whole \in [Run -> SUBSET Kind]
    BY DEF Init
  <2>4. names \in [Name -> File \cup {NoFile}]
    BY DEF Init
  <2> QED
    BY <2>1, <2>2, <2>3, <2>4 DEF Init, TypeOK
<1>3. SetsOutShort /\ ExplicitKeepsName
  BY BaseIsShort DEF Init, SetsOutShort, ExplicitKeepsName
<1> QED
  BY <1>2, <1>3 DEF TypeInvariant

LEMMA RemoveTypes ==
  ASSUME TypeOK, NEW r \in Run, NEW gone, Remove(r, gone)
  PROVE  /\ held' \in [Run -> SUBSET Kind] /\ stuck' \in [Run -> SUBSET Kind]
         /\ held'[r] \cap gone \subseteq stuck'[r]
         /\ \A q \in Run : q # r => held'[q] = held[q] /\ stuck'[q] = stuck[q]
<1>1. PICK kept \in SUBSET (held[r] \cap gone) :
        /\ held' = [held EXCEPT ![r] = (@ \ gone) \cup kept]
        /\ stuck' = [stuck EXCEPT ![r] = @ \cup kept]
  BY DEF Remove
<1>2. kept \in SUBSET Kind
  BY DEF TypeOK
<1>3. held' \in [Run -> SUBSET Kind] /\ stuck' \in [Run -> SUBSET Kind]
  BY <1>1, <1>2 DEF TypeOK
<1>4. held'[r] = (held[r] \ gone) \cup kept /\ stuck'[r] = stuck[r] \cup kept
  BY <1>1 DEF TypeOK
<1>5. \A q \in Run : q # r => held'[q] = held[q] /\ stuck'[q] = stuck[q]
  BY <1>1 DEF TypeOK
<1> QED
  BY <1>3, <1>4, <1>5

LEMMA TypeStep == TypeInvariant /\ [Next]_vars => TypeInvariant'
<1> SUFFICES ASSUME TypeInvariant, [Next]_vars PROVE TypeInvariant'
  OBVIOUS
<1> USE MaxSequenceAssumption DEF TypeInvariant, TypeOK, SetsOutShort, ExplicitKeepsName, Goto
<1>1. CASE UNCHANGED vars
  BY <1>1 DEF vars
<1>2. ASSUME NEW r \in Run, NEW a \in Archives, StartAutomatic(r, a) PROVE TypeInvariant'
  <2>1. a \in BOOLEAN /\ Base(a) \in Short /\ Base(a) \in Name
    BY BaseIsShort, OptionsAssumption
  <2> QED
    BY <1>2, <2>1 DEF StartAutomatic
<1>3. ASSUME NEW r \in Run, NEW n \in ExplicitOutput, StartExplicit(r, n) PROVE TypeInvariant'
  <2>1. n \in Name /\ n.archive \in BOOLEAN
    BY ExplicitAssumption DEF Name
  <2> QED
    BY <1>3, <2>1 DEF StartExplicit
<1>4. ASSUME NEW r \in Run, NameTaken(r) PROVE TypeInvariant'
  <2>1. Sequenced(Base(archive[r]), sequence[r]) \in Short
    BY <1>4, NumberedBaseIsShort DEF NameTaken
  <2> QED
    BY <1>4, <2>1 DEF NameTaken, Short
<1>5. ASSUME NEW r \in Run, NameFree(r) PROVE TypeInvariant'
  BY <1>5 DEF NameFree
<1>6. ASSUME NEW r \in Run, NEW c \in Containers, Dump(r, c) PROVE TypeInvariant'
  <2>1. {"sql"} \cup (IF c THEN {"remote"} ELSE {}) \in SUBSET Kind
    BY DEF Kind
  <2>2. held' \in [Run -> SUBSET Kind]
    BY <1>6, <2>1 DEF Dump
  <2>3. stage'[r] = "dumping" /\ stage[r] = "ready"
    BY <1>6 DEF Dump
  <2> QED
    BY <1>6, <2>2, <2>3 DEF Dump
<1>7. ASSUME NEW r \in Run, Dumped(r) PROVE TypeInvariant'
  <2>1. held' \in [Run -> SUBSET Kind] /\ stuck' \in [Run -> SUBSET Kind]
    BY <1>7, RemoveTypes DEF Dumped
  <2>2. whole' \in [Run -> SUBSET Kind]
    BY <1>7 DEF Dumped, Kind
  <2> QED
    BY <1>7, <2>1, <2>2 DEF Dumped
<1>8. ASSUME NEW r \in Run, OpenArchive(r) \/ Compressed(r) PROVE TypeInvariant'
  BY <1>8 DEF OpenArchive, Compressed, Kind
<1>9. ASSUME NEW r \in Run, Replace(r) \/ Link(r) PROVE TypeInvariant'
  <2>1. [by |-> r, kind |-> Source(r)] \in File
    BY DEF File, Kind, Source
  <2> QED
    BY <1>9, <2>1 DEF Replace, Link
<1>10. ASSUME NEW r \in Run, LinkRefused(r) PROVE TypeInvariant'
  <2>1. Sequenced(output[r], sequence[r]) \in Name
    BY <1>10, NumberedIsName DEF LinkRefused
  <2> QED
    BY <1>10, <2>1 DEF LinkRefused
<1>11. ASSUME NEW r \in Run, Unlink(r) PROVE TypeInvariant'
  BY <1>11 DEF Unlink
<1>12. ASSUME NEW r \in Run, Succeed(r) \/ Fail(r) PROVE TypeInvariant'
  <2>1. held' \in [Run -> SUBSET Kind] /\ stuck' \in [Run -> SUBSET Kind]
    BY <1>12, RemoveTypes DEF Succeed, Fail
  <2>2. stage[r] # "idle" /\ stage'[r] \in {"done", "failed"}
    BY <1>12 DEF Succeed, Fail
  <2> QED
    BY <1>12, <2>1, <2>2 DEF Succeed, Fail
<1>13. ASSUME NEW r \in Run, Kill(r) PROVE TypeInvariant'
  BY <1>13 DEF Kill
<1> QED
  BY <1>1, <1>2, <1>3, <1>4, <1>5, <1>6, <1>7, <1>8, <1>9, <1>10, <1>11, <1>12, <1>13 DEF Next, Step

LEMMA TypeInvariantHolds == Spec => []TypeInvariant
  BY TypeInit, TypeStep, PTL DEF Spec

(* dump.py, whole file: every variable keeps its type, for any number of   *)
(* runs; numbers in a name never exceed two.                               *)
THEOREM TypeCorrect == Spec => []TypeOK
<1>1. TypeInvariant => TypeOK
  BY DEF TypeInvariant
<1> QED
  BY <1>1, TypeInvariantHolds, PTL

-----------------------------------------------------------------------------
(* Names are only replaced on request.                                     *)

(* os.replace and os.link in publish_dump: only a run whose user passed    *)
(* the name replaces the file under it.                                    *)
THEOREM AutomaticNeverOverwrites == Spec => OnlyExplicitOverwrites
<1> DEFINE Kept == \A n \in Name : names[n] # NoFile /\ names'[n] # names[n] =>
                     \E r \in Run : ~automatic[r] /\ output[r] = n /\ names'[n].by = r
<1>1. ASSUME TypeInvariant, [Next]_vars, UNCHANGED names PROVE Kept
  BY <1>1
<1>2. ASSUME TypeInvariant, NEW r \in Run, Replace(r) PROVE Kept
  <2>1. names' = [names EXCEPT ![output[r]] = [by |-> r, kind |-> Source(r)]] /\ ~automatic[r]
    BY <1>2 DEF Replace
  <2>2. names'[output[r]].by = r
    BY <2>1, <1>2 DEF TypeInvariant, TypeOK
  <2> QED
    BY <2>1, <2>2, <1>2 DEF TypeInvariant, TypeOK
<1>3. ASSUME TypeInvariant, NEW r \in Run, Link(r) PROVE Kept
  BY <1>3 DEF Link, TypeInvariant, TypeOK
<1>4. ASSUME TypeInvariant, [Next]_vars PROVE Kept
  <2>1. (\E r \in Run : Replace(r) \/ Link(r)) \/ UNCHANGED names
    BY <1>4 DEF Next, Step, vars, StartAutomatic, StartExplicit, NameTaken, NameFree, Dump, Dumped,
      OpenArchive, Compressed, LinkRefused, Unlink, Succeed, Fail, Kill
  <2> HIDE DEF Kept
  <2> QED
    BY <2>1, <1>1, <1>2, <1>3, <1>4
<1>5. TypeInvariant /\ [Next]_vars => [Kept]_vars
  BY <1>4
<1> QED
  BY <1>5, TypeInvariantHolds, PTL DEF OnlyExplicitOverwrites, Spec

-----------------------------------------------------------------------------
(* Nothing is left behind.                                                 *)

LEMMA ResidueStep == TypeInvariant /\ NoResidue /\ [Next]_vars => NoResidue'
<1> SUFFICES ASSUME TypeInvariant, NoResidue, [Next]_vars,
                    NEW r \in Run, stage'[r] \in {"done", "failed"}
             PROVE  held'[r] \subseteq stuck'[r]
  BY DEF NoResidue
<1> DEFINE
    Works(q) == \/ \E c \in Containers : Dump(q, c)
                \/ OpenArchive(q) \/ Compressed(q)
                \/ Replace(q) \/ Link(q) \/ LinkRefused(q) \/ Unlink(q)
    Begins(q) == \/ \E a \in Archives : StartAutomatic(q, a)
                 \/ \E n \in ExplicitOutput : StartExplicit(q, n)
                 \/ NameTaken(q) \/ NameFree(q) \/ Kill(q)
<1>0. TypeOK
  BY DEF TypeInvariant
<1>1. CASE stage[r] \in {"done", "failed"} /\ held'[r] = held[r] /\ stuck'[r] = stuck[r]
  BY <1>1 DEF NoResidue
<1>2. CASE Succeed(r) \/ Fail(r)
  <2>1. held'[r] \cap Kind \subseteq stuck'[r] /\ held' \in [Run -> SUBSET Kind]
    BY <1>0, <1>2, RemoveTypes DEF Succeed, Fail
  <2> QED
    BY <2>1
<1>3. ASSUME NEW q \in Run, q # r, Dumped(q) \/ Succeed(q) \/ Fail(q)
      PROVE  stage[r] \in {"done", "failed"} /\ held'[r] = held[r] /\ stuck'[r] = stuck[r]
  <2>1. held'[r] = held[r] /\ stuck'[r] = stuck[r]
    BY <1>0, <1>3, RemoveTypes DEF Dumped, Succeed, Fail
  <2>2. stage'[r] = stage[r]
    BY <1>0, <1>3 DEF Dumped, Succeed, Fail, Goto, TypeOK
  <2> QED
    BY <2>1, <2>2
<1>4. ASSUME NEW q \in Run, Works(q)
      PROVE  stage[r] \in {"done", "failed"} /\ held'[r] = held[r] /\ stuck'[r] = stuck[r]
  <2>1. q # r
    BY <1>0, <1>4 DEF Dump, OpenArchive, Compressed, Replace, Link, LinkRefused, Unlink, Goto, TypeOK
  <2> QED
    BY <1>0, <1>4, <2>1
       DEF Dump, OpenArchive, Compressed, Replace, Link, LinkRefused, Unlink, Goto, TypeOK
<1>5. ASSUME NEW q \in Run, Begins(q)
      PROVE  stage[r] \in {"done", "failed"} /\ held'[r] = held[r] /\ stuck'[r] = stuck[r]
  <2>1. q # r
    BY <1>0, <1>5 DEF StartAutomatic, StartExplicit, NameTaken, NameFree, Kill, Goto, TypeOK
  <2> QED
    BY <1>0, <1>5, <2>1 DEF StartAutomatic, StartExplicit, NameTaken, NameFree, Kill, Goto, TypeOK
<1>6. ASSUME Dumped(r) PROVE FALSE
  BY <1>0, <1>6 DEF Dumped, Goto, TypeOK
<1>7. CASE UNCHANGED vars
  BY <1>7 DEF vars, NoResidue
<1>8. ASSUME NEW q \in Run, Dumped(q) \/ Succeed(q) \/ Fail(q)
      PROVE  held'[r] \subseteq stuck'[r]
  BY <1>1, <1>2, <1>3, <1>6, <1>8
<1>9. CASE Next
  <2>1. PICK q \in Run : (Dumped(q) \/ Succeed(q) \/ Fail(q)) \/ Works(q) \/ Begins(q)
    BY <1>9 DEF Next, Step
  <2> HIDE DEF Works, Begins
  <2>2. CASE Dumped(q) \/ Succeed(q) \/ Fail(q)
    BY <2>2, <1>8
  <2>3. CASE Works(q) \/ Begins(q)
    <3>1. stage[r] \in {"done", "failed"} /\ held'[r] = held[r] /\ stuck'[r] = stuck[r]
      BY <2>3, <1>4, <1>5
    <3> QED
      BY <3>1, <1>1
  <2> QED
    BY <2>1, <2>2, <2>3
<1> QED
  BY <1>7, <1>9

(* The finally clauses of dump_database and of the container dump: a run   *)
(* that ended by itself left only what it was refused to remove.           *)
THEOREM EndedRunsLeaveNothing == Spec => []NoResidue
<1>1. Init => NoResidue
  BY DEF Init, NoResidue
<1> QED
  BY <1>1, ResidueStep, TypeInvariantHolds, PTL DEF Spec

-----------------------------------------------------------------------------
(* Published dumps are whole.                                              *)

PastPublishing == {"linked", "published", "done", "failed", "killed"}

(* A run that is about to publish has its file whole, of the kind its      *)
(* names say, and the author of a published file never comes back to an    *)
(* earlier stage.                                                          *)
PublicationInvariant ==
  /\ TypeInvariant
  /\ \A r \in Run :
       /\ stage[r] \in {"archiving", "compressing"} => archive[r]
       /\ stage[r] = "publishing" => Source(r) \in whole[r]
       /\ stage[r] \notin {"idle"} => candidate[r].archive = archive[r]
       /\ stage[r] \in {"ready", "dumping", "archiving", "compressing", "publishing"}
            => output[r].archive = archive[r]
  /\ \A n \in Name : names[n] # NoFile =>
       /\ names[n].kind = IF n.archive THEN "gzip" ELSE "sql"
       /\ names[n].kind \in whole[names[n].by]
       /\ stage[names[n].by] \in PastPublishing

LEMMA SequencedKeepsSuffix == \A n \in Name, i \in Nat : Sequenced(n, i).archive = n.archive
  BY DEF Sequenced, Name

(* What publishing under a free or replaced name does.                     *)
LEMMA PlacementStep ==
  ASSUME PublicationInvariant, TypeInvariant', NEW r \in Run, NEW m \in Name,
         stage[r] = "publishing", m.archive = archive[r],
         names' = [names EXCEPT ![m] = [by |-> r, kind |-> Source(r)]],
         stage' = [stage EXCEPT ![r] = "published"] \/ stage' = [stage EXCEPT ![r] = "linked"],
         UNCHANGED <<automatic, archive, output, candidate, whole>>
  PROVE  PublicationInvariant'
<1> USE DEF PublicationInvariant, TypeInvariant, TypeOK
<1>1. \A q \in Run : q # r => stage'[q] = stage[q]
  OBVIOUS
<1>2. stage'[r] \in {"published", "linked"}
  OBVIOUS
<1>3. \A q \in Run :
       /\ stage'[q] \in {"archiving", "compressing"} => archive'[q]
       /\ stage'[q] = "publishing" => Source(q)' \in whole'[q]
       /\ stage'[q] \notin {"idle"} => candidate'[q].archive = archive'[q]
       /\ stage'[q] \in {"ready", "dumping", "archiving", "compressing", "publishing"}
            => output'[q].archive = archive'[q]
  BY <1>1, <1>2 DEF Source
<1>4. ASSUME NEW n \in Name, names'[n] # NoFile
      PROVE  /\ names'[n].kind = IF n.archive THEN "gzip" ELSE "sql"
             /\ names'[n].kind \in whole'[names'[n].by]
             /\ stage'[names'[n].by] \in PastPublishing
  <2>1. CASE n = m
    <3>1. names'[n].by = r /\ names'[n].kind = Source(r)
      BY <2>1
    <3> QED
      BY <2>1, <3>1, <1>2 DEF Source, PastPublishing
  <2>2. CASE n # m
    <3>1. names'[n] = names[n] /\ names[n].by \in Run
      BY <2>2, <1>4 DEF File
    <3>2. names[n] # NoFile
      BY <3>1, <1>4
    <3>3. /\ names[n].kind = IF n.archive THEN "gzip" ELSE "sql"
          /\ names[n].kind \in whole[names[n].by]
          /\ stage[names[n].by] \in PastPublishing
      BY <3>2
    <3>4. stage'[names[n].by] \in PastPublishing
      BY <3>1, <3>3, <1>1, <1>2 DEF PastPublishing
    <3> QED
      BY <3>1, <3>3, <3>4
  <2> QED
    BY <2>1, <2>2
<1> QED
  BY <1>3, <1>4

(* No other step touches a published file or its author's files.           *)
LEMMA PublicationStep == PublicationInvariant /\ [Next]_vars => PublicationInvariant'
<1> SUFFICES ASSUME PublicationInvariant, [Next]_vars PROVE PublicationInvariant'
  OBVIOUS
<1>0. TypeInvariant'
  BY TypeStep DEF PublicationInvariant
<1> DEFINE
    Runs ==
      \A q \in Run :
        /\ stage[q] \in {"archiving", "compressing"} => archive[q]
        /\ stage[q] = "publishing" => Source(q) \in whole[q]
        /\ stage[q] \notin {"idle"} => candidate[q].archive = archive[q]
        /\ stage[q] \in {"ready", "dumping", "archiving", "compressing", "publishing"}
             => output[q].archive = archive[q]
    Quiet(r) ==
      /\ stage[r] \notin PastPublishing \/ whole' = whole
      /\ stage[r] \in PastPublishing => stage'[r] \in PastPublishing
      /\ \A q \in Run : q # r => stage'[q] = stage[q] /\ whole'[q] = whole[q]
      /\ names' = names
<1>1. ASSUME NEW r \in Run, Quiet(r), Runs' PROVE PublicationInvariant'
  <2>1. ASSUME NEW n \in Name, names'[n] # NoFile
        PROVE  /\ names'[n].kind \in whole'[names'[n].by]
               /\ stage'[names'[n].by] \in PastPublishing
    <3>1. names[n] # NoFile /\ names[n].by \in Run
      BY <1>1, <2>1 DEF PublicationInvariant, TypeInvariant, TypeOK, File
    <3> QED
      BY <1>1, <2>1, <3>1 DEF PublicationInvariant
  <2>2. \A n \in Name : names'[n] # NoFile => names'[n].kind = IF n.archive THEN "gzip" ELSE "sql"
    BY <1>1 DEF PublicationInvariant
  <2> QED
    BY <1>0, <1>1, <2>1, <2>2 DEF PublicationInvariant
<1>2. Runs
  BY DEF PublicationInvariant
<1> USE DEF PublicationInvariant, TypeInvariant, TypeOK, Goto, Source, PastPublishing
<1>3. ASSUME NEW r \in Run, NEW a \in Archives, StartAutomatic(r, a) PROVE PublicationInvariant'
  <2>1. Quiet(r)
    BY <1>3 DEF StartAutomatic
  <2>2. a \in BOOLEAN /\ Base(a).archive = a
    BY OptionsAssumption DEF Base
  <2>3. Runs'
    BY <1>3, <2>2 DEF StartAutomatic
  <2> QED
    BY <1>1, <2>1, <2>3
<1>4. ASSUME NEW r \in Run, NEW n \in ExplicitOutput, StartExplicit(r, n) PROVE PublicationInvariant'
  <2>1. Quiet(r)
    BY <1>4 DEF StartExplicit
  <2>2. Runs'
    BY <1>4, ExplicitAssumption DEF StartExplicit, Name
  <2> QED
    BY <1>1, <2>1, <2>2
<1>5. ASSUME NEW r \in Run, NameTaken(r) PROVE PublicationInvariant'
  <2>1. Quiet(r)
    BY <1>5 DEF NameTaken
  <2>2. Sequenced(Base(archive[r]), sequence[r]).archive = archive[r]
    BY MaxSequenceAssumption DEF Sequenced, Base
  <2>3. Runs'
    BY <1>5, <2>2 DEF NameTaken
  <2> QED
    BY <1>1, <2>1, <2>3
<1>6. ASSUME NEW r \in Run, NameFree(r) PROVE PublicationInvariant'
  <2>1. Quiet(r) /\ Runs'
    BY <1>6 DEF NameFree
  <2> QED
    BY <1>1, <2>1
<1>7. ASSUME NEW r \in Run, NEW c \in Containers, Dump(r, c) PROVE PublicationInvariant'
  <2>1. Quiet(r) /\ Runs'
    BY <1>7 DEF Dump
  <2> QED
    BY <1>1, <2>1
<1>8. ASSUME NEW r \in Run, Dumped(r) PROVE PublicationInvariant'
  <2>1. Quiet(r)
    BY <1>8 DEF Dumped
  <2>2. Runs'
    BY <1>8 DEF Dumped
  <2> QED
    BY <1>1, <2>1, <2>2
<1>9. ASSUME NEW r \in Run, OpenArchive(r) \/ Compressed(r) PROVE PublicationInvariant'
  <2>1. Quiet(r)
    BY <1>9 DEF OpenArchive, Compressed
  <2>2. Runs'
    BY <1>9 DEF OpenArchive, Compressed, Kind
  <2> QED
    BY <1>1, <2>1, <2>2
<1>10. ASSUME NEW r \in Run, Replace(r) \/ Link(r) PROVE PublicationInvariant'
  BY <1>0, <1>10, PlacementStep DEF Replace, Link
<1>11. ASSUME NEW r \in Run, LinkRefused(r) PROVE PublicationInvariant'
  <2>1. Quiet(r)
    BY <1>11 DEF LinkRefused
  <2>2. Sequenced(output[r], sequence[r]).archive = archive[r]
    <3>1. output[r] \in Name /\ sequence[r] \in Nat
      BY MaxSequenceAssumption
    <3>2. output[r].archive = archive[r]
      BY <1>11 DEF LinkRefused
    <3> QED
      BY ONLY <3>1, <3>2, SequencedKeepsSuffix
  <2>3. Runs'
    BY <1>11, <2>2 DEF LinkRefused
  <2> QED
    BY <1>1, <2>1, <2>3
<1>12. ASSUME NEW r \in Run, Unlink(r) \/ Succeed(r) \/ Fail(r) \/ Kill(r) PROVE PublicationInvariant'
  <2>1. Quiet(r)
    BY <1>12 DEF Unlink, Succeed, Fail, Kill
  <2>2. Runs'
    BY <1>12 DEF Unlink, Succeed, Fail, Kill
  <2> QED
    BY <1>1, <2>1, <2>2
<1>13. CASE UNCHANGED vars
  BY <1>0, <1>2, <1>13 DEF vars
<1> QED
  BY <1>3, <1>4, <1>5, <1>6, <1>7, <1>8, <1>9, <1>10, <1>11, <1>12, <1>13 DEF Next, Step

LEMMA PublicationInit == Init => PublicationInvariant
<1> SUFFICES ASSUME Init PROVE PublicationInvariant
  OBVIOUS
<1>1. TypeInvariant
  BY TypeInit
<1> QED
  BY <1>1 DEF Init, PublicationInvariant

LEMMA PublicationInvariantHolds == Spec => []PublicationInvariant
  BY PublicationInit, PublicationStep, PTL DEF Spec

-----------------------------------------------------------------------------
(* Refinement.                                                             *)

visibleNow == [n \in Name |-> Visible(n)]

(* What a whole dump looks like.                                           *)
LEMMA WholeDumps ==
  ASSUME NEW b \in Run, NEW k \in Kind, NEW a \in BOOLEAN, k = IF a THEN "gzip" ELSE "sql"
  PROVE  IsWholeDump([by |-> b, kind |-> k, whole |-> TRUE, archive |-> a])
<1> DEFINE f == [by |-> b, kind |-> k, whole |-> TRUE, archive |-> a]
<1>1. f \in [by : Run, kind : Kind, whole : BOOLEAN, archive : BOOLEAN]
  OBVIOUS
<1>2. f.whole /\ f.kind = k /\ f.archive = a
  OBVIOUS
<1> HIDE DEF f
<1>3. IsWholeDump(f)
  BY <1>1, <1>2 DEF IsWholeDump
<1> QED
  BY <1>3 DEF f

(* Every step puts one whole dump under one name or changes nothing that   *)
(* a reader sees.                                                          *)
LEMMA StepPublishes ==
  ASSUME PublicationInvariant, PublicationInvariant', [Next]_vars
  PROVE  [Artifacts!Next]_visibleNow
<1>1. ASSUME NEW n \in Name, names'[n] = names[n] PROVE Visible(n)' = Visible(n)
  <2>1. CASE names[n] = NoFile
    BY <1>1, <2>1 DEF Visible
  <2>2. CASE names[n] # NoFile
    <3>1. (names[n].kind \in whole[names[n].by]) = TRUE
      BY <2>2 DEF PublicationInvariant
    <3>2. (names'[n].kind \in whole'[names'[n].by]) = TRUE
      BY <1>1, <2>2 DEF PublicationInvariant
    <3> QED
      BY <1>1, <2>2, <3>1, <3>2 DEF Visible
  <2> QED
    BY <2>1, <2>2
<1>2. CASE UNCHANGED names
  BY <1>1, <1>2 DEF visibleNow
<1>3. ASSUME NEW m \in Name, NEW f \in File, names' = [names EXCEPT ![m] = f] PROVE Artifacts!Next
  <2>1. names'[m] = f /\ f # NoFile
    BY <1>3, NoFileAssumption DEF PublicationInvariant, TypeInvariant, TypeOK
  <2>2. \A n \in Name : n = m => IsWholeDump(Visible(n)')
    <3> SUFFICES ASSUME NEW n \in Name, n = m PROVE IsWholeDump(Visible(n)')
      OBVIOUS
    <3>1. f.by \in Run /\ f.kind \in Kind /\ n.archive \in BOOLEAN
      BY DEF File, Name
    <3>2. /\ f.kind = IF n.archive THEN "gzip" ELSE "sql"
          /\ (f.kind \in whole'[f.by]) = TRUE
      BY <2>1 DEF PublicationInvariant
    <3>3. Visible(n)' = [by |-> f.by, kind |-> f.kind, whole |-> TRUE, archive |-> n.archive]
      BY <2>1, <3>2 DEF Visible
    <3> QED
      BY <3>1, <3>2, <3>3, WholeDumps
  <2>3. \A n \in Name : n # m => Visible(n)' = Visible(n)
    BY <1>1, <1>3
  <2>4. visibleNow' = [visibleNow EXCEPT ![m] = visibleNow'[m]]
    BY <2>3 DEF visibleNow
  <2>5. IsWholeDump(visibleNow'[m])
    BY <2>2 DEF visibleNow
  <2> QED
    BY <2>4, <2>5 DEF Artifacts!Next, Artifacts!Publish, visibleNow
<1>4. ASSUME NEW r \in Run, Replace(r) \/ Link(r) PROVE Artifacts!Next
  <2>1. [by |-> r, kind |-> Source(r)] \in File
    BY DEF File, Kind, Source
  <2>2. output[r] \in Name /\ candidate[r] \in Name
    BY DEF PublicationInvariant, TypeInvariant, TypeOK
  <2>3. \/ names' = [names EXCEPT ![output[r]] = [by |-> r, kind |-> Source(r)]]
        \/ names' = [names EXCEPT ![candidate[r]] = [by |-> r, kind |-> Source(r)]]
    BY <1>4 DEF Replace, Link
  <2> QED
    BY <1>3, <2>1, <2>2, <2>3
<1>5. (\E r \in Run : Replace(r) \/ Link(r)) \/ UNCHANGED names
  BY DEF Next, Step, vars, StartAutomatic, StartExplicit, NameTaken, NameFree, Dump, Dumped,
    OpenArchive, Compressed, LinkRefused, Unlink, Succeed, Fail, Kill
<1> QED
  BY <1>2, <1>4, <1>5

(* dump.py as a whole implements AtomicArtifacts: whatever is dumped,      *)
(* refused, failed or killed, a reader of the directory only ever sees one *)
(* whole dump take the place of another or of nothing.                     *)
THEOREM ImplementsArtifacts == Spec => ImplementsAtomicArtifacts
<1>1. Init => Artifacts!Init
  BY DEF Init, Artifacts!Init, Visible
<1>2. ASSUME PublicationInvariant, PublicationInvariant', [Next]_vars
      PROVE  [Artifacts!Next]_([n \in Name |-> Visible(n)])
  BY <1>2, StepPublishes DEF visibleNow
<1> QED
  BY <1>1, <1>2, PublicationInvariantHolds, PTL
     DEF ImplementsAtomicArtifacts, Artifacts!Spec, Spec

-----------------------------------------------------------------------------
(* A successful run names its own dump.                                    *)

(* From the moment a run has published, its name leads to its own dump or  *)
(* to that of a run whose user asked for the name.                         *)
OwnOrReplaced(r) ==
  \/ names[candidate[r]] = [by |-> r, kind |-> Source(r)]
  \/ \E q \in Run : q # r /\ ~automatic[q] /\ output[q] = candidate[r]
                      /\ names[candidate[r]] = [by |-> q, kind |-> Source(q)]

PublishedNamesOwn == \A r \in Run : stage[r] \in {"linked", "published", "done"} => OwnOrReplaced(r)

(* The author of a file keeps its options.                                 *)
LEMMA AuthorKeepsOptions ==
  ASSUME PublicationInvariant, Next, NEW r \in Run, stage[r] \in PastPublishing
  PROVE  /\ automatic'[r] = automatic[r] /\ archive'[r] = archive[r]
         /\ output'[r] = output[r] /\ candidate'[r] = candidate[r]
         /\ stage'[r] \in {"linked", "published", "done"} => stage[r] \in {"linked", "published", "done"}
<1> USE DEF PublicationInvariant, TypeInvariant, TypeOK, PastPublishing, Goto
<1> PICK q \in Run : \/ \E a \in Archives : StartAutomatic(q, a)
                     \/ \E n \in ExplicitOutput : StartExplicit(q, n)
                     \/ Step(q) \/ Kill(q)
  BY DEF Next
<1>1. CASE q = r
  BY <1>1 DEF Step, StartAutomatic, StartExplicit, NameTaken, NameFree, Dump, Dumped, OpenArchive,
    Compressed, Replace, Link, LinkRefused, Unlink, Succeed, Fail, Kill
<1>2. CASE q # r
  BY <1>2 DEF Step, StartAutomatic, StartExplicit, NameTaken, NameFree, Dump, Dumped, OpenArchive,
    Compressed, Replace, Link, LinkRefused, Unlink, Succeed, Fail, Kill
<1> QED
  BY <1>1, <1>2

(* A name that keeps its file keeps its story.                             *)
LEMMA StoryKept ==
  ASSUME PublicationInvariant, Next, NEW r \in Run, stage[r] \in PastPublishing, OwnOrReplaced(r),
         names'[candidate[r]] = names[candidate[r]]
  PROVE  OwnOrReplaced(r)'
<1>1. candidate'[r] = candidate[r] /\ archive'[r] = archive[r]
  BY AuthorKeepsOptions
<1>2. CASE names[candidate[r]] = [by |-> r, kind |-> Source(r)]
  BY <1>1, <1>2 DEF OwnOrReplaced, Source
<1>3. ASSUME NEW q \in Run, q # r, ~automatic[q], output[q] = candidate[r],
             names[candidate[r]] = [by |-> q, kind |-> Source(q)]
      PROVE  OwnOrReplaced(r)'
  <2>1. candidate[r] \in Name /\ [by |-> q, kind |-> Source(q)] \in File
    BY DEF PublicationInvariant, TypeInvariant, TypeOK, File, Kind, Source
  <2>2. names[candidate[r]] # NoFile /\ names[candidate[r]].by = q
    BY <1>3, <2>1, NoFileAssumption
  <2>3. stage[q] \in PastPublishing
    BY <2>1, <2>2 DEF PublicationInvariant
  <2>4. automatic'[q] = automatic[q] /\ archive'[q] = archive[q] /\ output'[q] = output[q]
    BY <2>3, AuthorKeepsOptions
  <2> QED
    BY <1>1, <1>3, <2>4 DEF OwnOrReplaced, Source
<1> QED
  BY <1>2, <1>3 DEF OwnOrReplaced

LEMMA OwnStep == PublicationInvariant /\ PublishedNamesOwn /\ [Next]_vars => PublishedNamesOwn'
<1>0. PublishedNamesOwn /\ UNCHANGED vars => PublishedNamesOwn'
  <2> SUFFICES ASSUME PublishedNamesOwn, UNCHANGED vars,
                      NEW r \in Run, stage'[r] \in {"linked", "published", "done"}
               PROVE  OwnOrReplaced(r)'
    BY DEF PublishedNamesOwn
  <2>1. OwnOrReplaced(r) /\ names' = names /\ candidate' = candidate /\ archive' = archive
        /\ automatic' = automatic /\ output' = output
    BY DEF PublishedNamesOwn, vars
  <2> QED
    BY <2>1 DEF OwnOrReplaced, Source
<1> SUFFICES ASSUME PublicationInvariant, PublishedNamesOwn, Next PROVE PublishedNamesOwn'
  BY <1>0
<1> SUFFICES ASSUME NEW r \in Run, stage'[r] \in {"linked", "published", "done"}
             PROVE  OwnOrReplaced(r)'
  BY DEF PublishedNamesOwn
<1>1. ASSUME stage[r] \in PastPublishing, names'[candidate[r]] = names[candidate[r]]
      PROVE  OwnOrReplaced(r)'
  <2>1. stage[r] \in {"linked", "published", "done"}
    BY <1>1, AuthorKeepsOptions
  <2> QED
    BY <1>1, <2>1, StoryKept DEF PublishedNamesOwn
<1>2. ASSUME stage[r] \in PastPublishing PROVE names[candidate[r]] # NoFile
  <2>1. OwnOrReplaced(r)
    BY <1>2, AuthorKeepsOptions DEF PublishedNamesOwn
  <2>2. \A q \in Run : [by |-> q, kind |-> Source(q)] \in File
    BY DEF File, Kind, Source
  <2> QED
    BY <2>1, <2>2, NoFileAssumption DEF OwnOrReplaced
<1>3. ASSUME NEW p \in Run, Replace(p) \/ Link(p), p = r PROVE OwnOrReplaced(r)'
  <2>1. /\ output[r] \in Name /\ candidate[r] \in Name
        /\ stage[r] = "publishing" /\ ~automatic[r] => candidate[r] = output[r]
    BY DEF PublicationInvariant, TypeInvariant, TypeOK, ExplicitKeepsName
  <2>2. names'[candidate[r]] = [by |-> r, kind |-> Source(r)]
    BY <1>3, <2>1 DEF Replace, Link, PublicationInvariant, TypeInvariant, TypeOK
  <2>3. candidate' = candidate /\ archive' = archive
    BY <1>3 DEF Replace, Link
  <2> QED
    BY <2>2, <2>3 DEF OwnOrReplaced, Source
<1>4. ASSUME NEW p \in Run, Replace(p) \/ Link(p), p # r PROVE OwnOrReplaced(r)'
  <2>1. stage[r] \in PastPublishing
    <3>1. stage'[r] = stage[r]
      BY <1>4 DEF Replace, Link, Goto, PublicationInvariant, TypeInvariant, TypeOK
    <3> QED
      BY <3>1 DEF PastPublishing
  <2>2. CASE names'[candidate[r]] = names[candidate[r]]
    BY <1>1, <2>1, <2>2
  <2>3. CASE names'[candidate[r]] # names[candidate[r]]
    <3>1. candidate[r] \in Name
      BY DEF PublicationInvariant, TypeInvariant, TypeOK
    <3>2. Replace(p) /\ output[p] = candidate[r]
      BY <1>2, <1>4, <2>1, <2>3, <3>1 DEF Replace, Link, PublicationInvariant, TypeInvariant, TypeOK
    <3>3. /\ names'[candidate[r]] = [by |-> p, kind |-> Source(p)] /\ ~automatic'[p]
          /\ output'[p] = candidate'[r] /\ candidate' = candidate /\ archive' = archive
      BY <3>1, <3>2 DEF Replace, PublicationInvariant, TypeInvariant, TypeOK
    <3> QED
      BY <1>4, <3>3 DEF OwnOrReplaced, Source
  <2> QED
    BY <2>2, <2>3
<1>5. ASSUME \A p \in Run : ~Replace(p) /\ ~Link(p) PROVE OwnOrReplaced(r)'
  <2>1. PICK q \in Run : \/ \E a \in Archives : StartAutomatic(q, a)
                         \/ \E n \in ExplicitOutput : StartExplicit(q, n)
                         \/ Step(q) \/ Kill(q)
    BY DEF Next
  <2>2. names' = names
    BY <1>5, <2>1 DEF Step, StartAutomatic, StartExplicit, NameTaken, NameFree, Dump, Dumped,
      OpenArchive, Compressed, LinkRefused, Unlink, Succeed, Fail, Kill
  <2>3. stage[r] \in PastPublishing
    BY <1>5, <2>1 DEF Step, StartAutomatic, StartExplicit, NameTaken, NameFree, Dump, Dumped,
      OpenArchive, Compressed, LinkRefused, Unlink, Succeed, Fail, Kill, Goto, PastPublishing,
      PublicationInvariant, TypeInvariant, TypeOK
  <2> QED
    BY <1>1, <2>2, <2>3
<1> QED
  BY <1>3, <1>4, <1>5

(* dump.py:234-244 (the result that is reported): the name a successful    *)
(* run reports holds its own dump, unless another user asked for the name. *)
THEOREM SuccessIsNamedTruly == Spec => []SuccessNamesItsOwnDump
<1>1. Init => PublishedNamesOwn
  BY DEF Init, PublishedNamesOwn
<1>2. PublishedNamesOwn => SuccessNamesItsOwnDump
  BY DEF PublishedNamesOwn, OwnOrReplaced, SuccessNamesItsOwnDump
<1> QED
  BY <1>1, <1>2, OwnStep, PublicationInvariantHolds, PTL DEF Spec
=============================================================================
