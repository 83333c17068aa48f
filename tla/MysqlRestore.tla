---------------------------- MODULE MysqlRestore ----------------------------
(***************************************************************************)
(* restore_database of dbtalk/mysql/restore.py: the input is unpacked if   *)
(* it is a gzip file, scanned for database lifecycle statements and        *)
(* redirected to the target by rebase_dump_input, the target is looked for *)
(* by a client of its own, and the text is then streamed to a native       *)
(* client (StreamedInput) that runs in the database's container, locally   *)
(* or in a container of its own.                                           *)
(*                                                                         *)
(* The text is never held: scanner and MySQL (LifecycleScan) and the       *)
(* pattern of a USE line read it symbol by symbol, as far as it goes, and  *)
(* what the properties need of it is kept in a few flags.                  *)
(***************************************************************************)
EXTENDS LifecycleScan, Naturals

CONSTANTS
  Chunks, Capacity, MaxOutput,  \* those of StreamedInput
  MaxEdition    \* times the input file is replaced while the restore runs

ASSUME SizesAssumption == Chunks \in Nat /\ Capacity \in Nat \ {0} /\ MaxOutput \in Nat
ASSUME EditionAssumption == MaxEdition \in Nat

VARIABLES
  stage, outcome,
  gzip,       \* the input is not a gzip file, a good one or a broken one
  via,        \* where the client runs
  files,      \* the temporaries that exist
  kept,       \* those whose removal failed
  line,       \* how far the line matches the pattern of a USE line
  replaced,   \* a line was replaced
  edition, checked,  \* editions of the input: now, and as scanned
  fed         \* what is streamed: the file and its edition

VARIABLES main, feeder, total, failed, stdin, reader, piped, captured,
          client, consumed, wrote, owes

streamVars ==
  <<main, feeder, total, failed, stdin, reader, piped, captured, client, consumed, wrote, owes>>

Stream == INSTANCE StreamedInput

text == <<scan, line, replaced>>
work == <<gzip, via, files, kept, text, checked, fed>>
vars == <<stage, outcome, work, edition, streamVars>>

Temporaries == {"extracted", "rebased", "container"}

Init ==
  /\ stage = "prepare" /\ outcome = "none"
  /\ gzip \in {"no", "good", "broken"} /\ via = "unknown"
  /\ files = {} /\ kept = {}
  /\ ScanInit /\ line = "start" /\ replaced = FALSE
  /\ edition = 0 /\ checked = 0
  /\ fed = [file |-> "none", edition |-> 0]
  /\ Stream!Init

End(result) == stage' = "cleanup" /\ outcome' = result

(* unlink under suppress(OSError).                                         *)
Remove(file) ==
  \/ files' = files \ {file} /\ kept' = kept
  \/ files' = files /\ kept' = kept \cup {file}

-----------------------------------------------------------------------------
(* Preparation.                                                            *)

(* No such file, no target database, or a gzip file of something else.     *)
Refuse ==
  /\ stage = "prepare" /\ End("refused")
  /\ UNCHANGED <<work, edition, streamVars>>

(* unpack_gzip_input, up to its yield.  An OSError before its try block,   *)
(* of mkstemp, passes as it is, and so does the zlib.error of a broken     *)
(* file; inside of it every OSError is taken for one of the gzip file,     *)
(* also that of the temporary.                                             *)
Unpack ==
  /\ stage = "prepare"
  /\ checked' = edition
  /\ \/ /\ gzip # "broken" /\ stage' = "preflight" /\ outcome' = outcome
        /\ files' = IF gzip = "no" THEN files ELSE {"extracted"}
     \/ gzip # "no" /\ End("failed") /\ files' = files
     \/ gzip # "no" /\ End("bad_gzip") /\ files' = {"extracted"}
     \/ gzip = "broken" /\ End("failed") /\ files' = {"extracted"}
  /\ UNCHANGED <<gzip, via, kept, text, fed, edition, streamVars>>

(* An OSError that rebase_dump_input lets pass reaches the try block of    *)
(* unpack_gzip_input, if the input is unpacked.                            *)
EndByOSError == End(IF gzip = "no" THEN "failed" ELSE "bad_gzip")

(* rebase_dump_input opens its temporary and the text.                     *)
OpenText ==
  /\ stage = "preflight"
  /\ \/ stage' = "scan" /\ outcome' = outcome /\ files' = files \cup {"rebased"}
     \/ EndByOSError /\ files' = files
  /\ checked' = IF gzip = "no" THEN edition ELSE checked
  /\ UNCHANGED <<gzip, via, kept, text, fed, edition, streamVars>>

-----------------------------------------------------------------------------
(* The scan.                                                               *)

Space == {"blank", "return"}

(* MYSQL_USE_STATEMENT: USE, a plain or quoted name and a semicolon, alone *)
(* on their line.                                                          *)
Matched(shape, b) ==
  CASE shape = "start" /\ b \in Space -> "start"
    [] shape = "start" /\ b = "use" -> "use"
    [] shape \in {"use", "gap"} /\ b \in Space -> "gap"
    [] shape \in {"gap", "name"} /\ b \in Words -> "name"
    [] shape = "gap" /\ b = "backtick" -> "opened"
    [] shape = "opened" /\ b = "backtick" -> "empty"
    [] shape \in {"empty", "closed"} /\ b = "backtick" -> "quoted"
    [] shape \in {"opened", "quoted"} /\ b # "backtick" -> "quoted"
    [] shape = "quoted" /\ b = "backtick" -> "closed"
    [] shape \in {"name", "closed", "named"} /\ b \in Space -> "named"
    [] shape \in {"name", "closed", "named"} /\ b = "semicolon" -> "ended"
    [] shape = "ended" /\ b \in Space -> "ended"
    [] OTHER -> "other"

Shapes == {"start", "use", "gap", "name", "opened", "empty", "quoted", "closed", "named", "ended", "other"}

Read(b) ==
  /\ stage = "scan"
  /\ ScanSymbol(b)
  /\ line' = Matched(line, b)
  /\ UNCHANGED <<stage, outcome, gzip, via, files, kept, replaced, edition, checked, fed, streamVars>>

(* A line that matches is replaced, wherever the text is, and no other is: *)
(* it may be a line of a string, a comment or another statement, and USE   *)
(* statements that are no lines of their own are left as they are.         *)
ReplaceLine ==
  /\ replaced' = (replaced \/ line = "ended")
  /\ line' = "start"

(* Mutant: the temporary is left to restore_database, which has no name    *)
(* for it yet.                                                             *)
RejectKeeping ==
  /\ scanner'.found
  /\ End("rejected") /\ UNCHANGED <<files, kept>>

(* The temporary is removed before the error is raised.                    *)
Reject ==
  /\ scanner'.found
  /\ Remove("rebased") /\ End("rejected")

(* The found_database_ddl check at the end of every line.                  *)
CheckLine ==
  \/ Reject
  \/ ~scanner'.found /\ UNCHANGED <<stage, outcome, files, kept>>

EndLine ==
  /\ stage = "scan"
  /\ ScanSymbol("newline") /\ CheckLine /\ ReplaceLine
  /\ UNCHANGED <<gzip, via, edition, checked, fed, streamVars>>

(* OSError of the text or of the temporary.                                *)
ScanFails ==
  /\ stage = "scan"
  /\ Remove("rebased") /\ End("unreadable")
  /\ UNCHANGED <<gzip, via, text, edition, checked, fed, streamVars>>

(* Without a USE line the temporary is not needed.  This unlink is not     *)
(* suppressed: its error ends the restore, and unpack_gzip_input takes it  *)
(* for an error of the gzip file.                                          *)
DropRebased ==
  \/ files' = files \ {"rebased"} /\ kept' = kept /\ stage' = "verify" /\ outcome' = outcome
  \/ files' = files /\ kept' = kept \cup {"rebased"} /\ EndByOSError

(* The last line may lack its newline.                                     *)
EndOfText ==
  /\ stage = "scan"
  /\ FinishScan /\ ReplaceLine
  /\ \/ Reject
     \/ ~scanner'.found /\ replaced' /\ stage' = "verify" /\ UNCHANGED <<outcome, files, kept>>
     \/ ~scanner'.found /\ ~replaced' /\ DropRebased
  /\ UNCHANGED <<gzip, via, edition, checked, fed, streamVars>>

-----------------------------------------------------------------------------
(* The clients.                                                            *)

(* The sole container that publishes the port, the client on the path, or  *)
(* an image, if there is one.                                              *)
ChooseClient ==
  /\ stage = "verify" /\ via = "unknown"
  /\ \/ via' \in {"container", "local", "image"} /\ UNCHANGED <<stage, outcome>>
     \/ via' = via /\ End("no_client")
  /\ UNCHANGED <<gzip, files, kept, text, edition, checked, fed, streamVars>>

(* verify_target_database_with_...: SELECT 1 in the target.                *)
VerifyTarget ==
  /\ stage = "verify" /\ via # "unknown"
  /\ \/ stage' = "restore" /\ outcome' = outcome
     \/ \E result \in {"no_target", "failed"} : End(result)
  /\ UNCHANGED <<work, edition, streamVars>>

(* Mutant: the text that was unpacked is streamed, not the rebased one.    *)
RestoreInputUnpacked ==
  IF gzip # "no" THEN [file |-> "extracted", edition |-> checked]
  ELSE [file |-> "input", edition |-> edition]

(* restore_input, opened when the feeder starts.                           *)
RestoreInput ==
  IF replaced THEN [file |-> "rebased", edition |-> checked]
  ELSE IF gzip # "no" THEN [file |-> "extracted", edition |-> checked]
  ELSE [file |-> "input", edition |-> edition]

(* restore_with_...: a step of the streaming; docker run names a container *)
(* that it leaves behind.                                                  *)
Streaming(step) ==
  /\ stage = "restore" /\ step
  /\ IF client = "none" /\ client' # "none"
     THEN /\ fed' = RestoreInput
          /\ files' = IF via = "image" THEN files \cup {"container"} ELSE files
     ELSE UNCHANGED <<fed, files>>
  /\ UNCHANGED <<stage, outcome, gzip, via, kept, text, edition, checked>>

(* ensure_command_succeeded, and the finally of restore_with_docker.       *)
FinishStream ==
  /\ stage = "restore" /\ main \in {"succeeded", "failed"}
  /\ End(IF main = "succeeded" THEN "restored" ELSE "failed")
  /\ Remove("container")
  /\ UNCHANGED <<gzip, via, text, edition, checked, fed, streamVars>>

(* rebase_dump_input has returned its temporary.                           *)
Rebased == replaced /\ outcome \notin {"rejected", "unreadable"}

(* The two finally clauses, of unpack_gzip_input first.                    *)
CleanUp ==
  /\ stage = "cleanup"
  /\ IF "extracted" \in files \ kept THEN Remove("extracted") /\ stage' = stage
     ELSE IF Rebased /\ "rebased" \in files \ kept THEN Remove("rebased") /\ stage' = stage
     ELSE stage' = "done" /\ UNCHANGED <<files, kept>>
  /\ UNCHANGED <<outcome, gzip, via, text, edition, checked, fed, streamVars>>

(* Somebody puts another dump in the place of the input.                   *)
ReplaceInput ==
  /\ stage \notin {"cleanup", "done"} /\ edition < MaxEdition
  /\ edition' = edition + 1
  /\ UNCHANGED <<stage, outcome, work, streamVars>>

-----------------------------------------------------------------------------
Scan == EndLine \/ ScanFails \/ (\E b \in Alphabet \ {"newline"} : Read(b))

RestoreStep ==
  Refuse \/ Unpack \/ OpenText \/ EndOfText \/ ChooseClient \/ VerifyTarget \/ FinishStream \/ CleanUp

Next ==
  \/ RestoreStep \/ Scan \/ ReplaceInput
  \/ Streaming(Stream!Next)

(* The text is finite and the process goes on; the threads and the client  *)
(* as in StreamedInput.                                                    *)
Spec ==
  /\ Init /\ [][Next]_vars
  /\ WF_vars(RestoreStep)
  /\ WF_vars(Streaming(Stream!MainThread)) /\ WF_vars(Streaming(Stream!FeederThread))
  /\ \A s \in Stream!Streams : WF_vars(Streaming(Stream!Reader(s)))
  /\ WF_vars(Streaming(Stream!ClientStep))

-----------------------------------------------------------------------------
(* Properties.                                                             *)

(* Types of the variables.                                                 *)
TypeOK ==
  /\ stage \in {"prepare", "preflight", "scan", "verify", "restore", "cleanup", "done"}
  /\ outcome \in {"none", "refused", "bad_gzip", "unreadable", "rejected", "no_client",
                  "no_target", "failed", "restored"}
  /\ gzip \in {"no", "good", "broken"} /\ via \in {"unknown", "container", "local", "image"}
  /\ files \subseteq Temporaries /\ kept \subseteq Temporaries
  /\ ScanTypeOK /\ line \in Shapes /\ replaced \in BOOLEAN
  /\ edition \in 0 .. MaxEdition /\ checked \in 0 .. MaxEdition
  /\ fed \in [file : {"none", "input"} \cup Temporaries, edition : 0 .. MaxEdition]
  /\ Stream!TypeOK

(* What a client is given was scanned to its end without a finding, is not *)
(* what is left of a broken gzip file, and is the rewritten text if a line *)
(* was rewritten, for each of the three ways a client runs.  In a text     *)
(* that both read alike no lifecycle statement is left.  Only a plain file *)
(* without a USE line is streamed from the path itself, and may then not   *)
(* be the one that was scanned.                                            *)
ServerGetsCheckedText ==
  client # "none" =>
    /\ ~scanner.found /\ (alike => ~lexer.lifecycle)
    /\ gzip # "broken"
    /\ replaced => fed.file = "rebased"
    /\ fed.edition = checked \/ (fed.file = "input" /\ gzip = "no" /\ ~replaced)

(* A restore that reports success has streamed the whole text to a client  *)
(* that said it succeeded.                                                 *)
SuccessMeansRestored ==
  /\ Stream!SuccessMeansAllFed
  /\ outcome = "restored" => main = "succeeded" /\ client = "exited_0" /\ ~failed

(* However the restore ends, no unpacked text, rebased text or container   *)
(* of its own stays behind, unless removing it was tried and failed.       *)
NoTemporariesLeft == stage = "done" => files \subseteq kept

(* A restore that says the gzip file cannot be read has run nothing and    *)
(* rejected nothing: unpack_gzip_input wraps all of the restore, but of    *)
(* its errors only those of the temporaries pass there as an OSError, and  *)
(* they come before any client.                                            *)
GzipErrorsComeFirst ==
  outcome = "bad_gzip" => gzip # "no" /\ client = "none" /\ ~scanner.found

(* When the streaming returns, nothing the client said is lost and all of  *)
(* it has ended, before the container is removed.                          *)
OutputIsComplete == Stream!OutputIsComplete

(* What the stages of a restore know: when it has an outcome and a client, *)
(* what the scan has shown of the text, which text is streamed, and which  *)
(* temporaries may still lie about.                                        *)
RestoreInvariant ==
  /\ TypeOK
  /\ ScanInvariant
  /\ Stream!StreamInvariant
  /\ stage \notin {"cleanup", "done"} => outcome = "none"
  /\ stage \notin {"restore", "cleanup", "done"} => client = "none"
  /\ stage \in {"verify", "restore"} \/ client # "none" => ~scanner.found
  /\ stage \in {"prepare", "preflight"} => ~scanner.found
  /\ stage \notin {"prepare", "cleanup", "done"} \/ client # "none" => gzip # "broken"
  /\ outcome = "restored" => main = "succeeded"
  /\ GzipErrorsComeFirst
  /\ client # "none" =>
       /\ replaced => fed.file = "rebased"
       /\ fed.edition = checked \/ (fed.file = "input" /\ gzip = "no" /\ ~replaced)
  /\ "container" \in files \ kept => stage = "restore"
  /\ "rebased" \in files \ kept =>
       \/ stage = "scan"
       \/ stage \in {"verify", "restore", "cleanup"} /\ Rebased
  /\ stage = "done" => files \subseteq kept

(* The restore ends: with pipes of any size, and whatever the client does. *)
RestoreEnds == <>(stage = "done")

(* What a restore tells its user is true, of the success, the output and   *)
(* what a failure has left undone, in states that are well formed.         *)
ReportIsTrue == TypeOK /\ SuccessMeansRestored /\ OutputIsComplete /\ GzipErrorsComeFirst
=============================================================================
