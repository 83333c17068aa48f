--------------------------- MODULE StreamedInput ---------------------------
(***************************************************************************)
(* _run_with_streamed_input of dbtalk/mysql/client.py: the main thread     *)
(* starts a native client with three pipes, a feeder thread that copies    *)
(* the input file into its stdin and a reader thread for each of stdout    *)
(* and stderr, and waits for the process and then for the threads.         *)
(*                                                                         *)
(* Data is counted in chunks: a pipe holds a few of them, a write to a     *)
(* full pipe blocks, a write to the stdin of a client that has gone is an  *)
(* error, and a read returns once something has come or every writer has   *)
(* closed.  The client is external: it answers what it reads, and it may   *)
(* fail or quit before the end of its input.                               *)
(***************************************************************************)
EXTENDS Naturals

CONSTANTS
  Chunks,    \* chunks of the input file
  Capacity,  \* chunks a pipe holds
  MaxOutput  \* bound on what the client writes to each output stream


Streams == {"stdout", "stderr"}

VARIABLES
  main,      \* the main thread
  feeder,    \* the feeder thread
  total,     \* chunks it has written
  failed,    \* feeder_error
  stdin,     \* chunks in the client's stdin
  reader,    \* the reader thread of each output stream
  piped,     \* chunks in each output stream
  captured,  \* chunks each reader has taken
  client,    \* the client process; its return code once it has ended
  consumed,  \* chunks it has read
  wrote,     \* chunks it has written to each output stream
  owes       \* the stream its answer to the last chunk has yet to go to

vars == <<main, feeder, total, failed, stdin, reader, piped, captured,
          client, consumed, wrote, owes>>
threads == <<main, feeder, total, failed, reader>>
process == <<client, consumed, wrote, owes>>

Init ==
  /\ main = "starting" /\ feeder = "unstarted"
  /\ total = 0 /\ failed = FALSE /\ stdin = 0
  /\ reader = [s \in Streams |-> "unstarted"]
  /\ piped = [s \in Streams |-> 0]
  /\ captured = [s \in Streams |-> 0]
  /\ client = "none" /\ consumed = 0
  /\ wrote = [s \in Streams |-> 0] /\ owes = "none"

-----------------------------------------------------------------------------
(* The main thread.                                                        *)

(* Mutant: nobody reads stderr while the client runs.                      *)
StartWithoutStderrReader ==
  /\ main = "starting"
  /\ main' = "waiting"
  /\ feeder' = "reading"
  /\ reader' = [s \in Streams |-> IF s = "stdout" THEN "reading" ELSE "ended"]
  /\ client' = "running"
  /\ UNCHANGED <<total, failed, stdin, piped, captured, consumed, wrote, owes>>

(* Popen and the three thread starts.                                      *)
Start ==
  /\ main = "starting"
  /\ main' = "waiting"
  /\ feeder' = "reading"
  /\ reader' = [s \in Streams |-> "reading"]
  /\ client' = "running"
  /\ UNCHANGED <<total, failed, stdin, piped, captured, consumed, wrote, owes>>

CannotStart ==
  /\ main = "starting" /\ main' = "failed"
  /\ UNCHANGED <<feeder, total, failed, stdin, reader, piped, captured, process>>

(* process.wait() and the three joins.                                     *)
Ended == client \in {"exited_0", "exited_1"}

Wait ==
  /\ main = "waiting" /\ Ended /\ main' = "joining"
  /\ UNCHANGED <<feeder, total, failed, stdin, reader, piped, captured, process>>

(* A feeder error counts only when the client reports success; another     *)
(* return code is the caller's to refuse.                                  *)
Return ==
  /\ main = "joining"
  /\ feeder = "ended" /\ \A s \in Streams : reader[s] = "ended"
  /\ main' = IF client = "exited_0" /\ ~failed THEN "succeeded" ELSE "failed"
  /\ UNCHANGED <<feeder, total, failed, stdin, reader, piped, captured, process>>

-----------------------------------------------------------------------------
(* The feeder thread.                                                      *)

ReadInput ==
  /\ feeder = "reading"
  /\ feeder' = IF total < Chunks THEN "writing" ELSE "closing"
  /\ UNCHANGED <<main, total, failed, stdin, reader, piped, captured, process>>

(* input_path cannot be opened or read.                                    *)
InputFails ==
  /\ feeder = "reading"
  /\ feeder' = "closing" /\ failed' = TRUE
  /\ UNCHANGED <<main, total, stdin, reader, piped, captured, process>>

WriteChunk ==
  /\ feeder = "writing" /\ ~Ended /\ stdin < Capacity
  /\ stdin' = stdin + 1 /\ total' = total + 1
  /\ feeder' = "reading"
  /\ UNCHANGED <<main, failed, reader, piped, captured, process>>

(* Mutant: a broken pipe is taken for the end of the work.                 *)
PipeBrokenIgnored ==
  /\ feeder = "writing" /\ Ended
  /\ feeder' = "closing"
  /\ UNCHANGED <<main, total, failed, stdin, reader, piped, captured, process>>

(* Nobody reads stdin any more: BrokenPipeError.                           *)
PipeBroken ==
  /\ feeder = "writing" /\ Ended
  /\ feeder' = "closing" /\ failed' = TRUE
  /\ UNCHANGED <<main, total, stdin, reader, piped, captured, process>>

(* The finally clause.                                                     *)
CloseInput ==
  /\ feeder = "closing" /\ feeder' = "ended"
  /\ UNCHANGED <<main, total, failed, stdin, reader, piped, captured, process>>

(* collect: stream.read() takes what comes and ends when the client, the   *)
(* only writer, has gone.                                                  *)
Collect(s) ==
  /\ reader[s] = "reading" /\ piped[s] > 0
  /\ piped' = [piped EXCEPT ![s] = @ - 1]
  /\ captured' = [captured EXCEPT ![s] = @ + 1]
  /\ UNCHANGED <<threads, stdin, process>>

EndOfStream(s) ==
  /\ reader[s] = "reading" /\ piped[s] = 0 /\ Ended
  /\ reader' = [reader EXCEPT ![s] = "ended"]
  /\ UNCHANGED <<main, feeder, total, failed, stdin, piped, captured, process>>

-----------------------------------------------------------------------------
(* The client.                                                             *)

(* It reads a chunk, and may have something to say about it.               *)
Consume ==
  /\ client = "running" /\ owes = "none" /\ stdin > 0
  /\ stdin' = stdin - 1 /\ consumed' = consumed + 1
  /\ owes' \in {"none"} \cup {s \in Streams : wrote[s] < MaxOutput}
  /\ UNCHANGED <<threads, piped, captured, client, wrote>>

Answer ==
  /\ client = "running" /\ owes # "none" /\ piped[owes] < Capacity
  /\ piped' = [piped EXCEPT ![owes] = @ + 1]
  /\ wrote' = [wrote EXCEPT ![owes] = @ + 1]
  /\ owes' \in {"none"} \cup {s \in Streams : wrote'[s] < MaxOutput}
  /\ UNCHANGED <<threads, stdin, captured, client, consumed>>

(* The end of its input.                                                   *)
Complete ==
  /\ client = "running" /\ owes = "none" /\ stdin = 0 /\ feeder = "ended"
  /\ client' \in {"exited_0", "exited_1"}
  /\ UNCHANGED <<threads, stdin, piped, captured, consumed, wrote, owes>>

(* It fails, is killed, or quits of its own accord, with input left.       *)
Quit ==
  /\ client = "running"
  /\ client' \in {"exited_0", "exited_1"}
  /\ UNCHANGED <<threads, stdin, piped, captured, consumed, wrote, owes>>

-----------------------------------------------------------------------------
MainThread == Start \/ CannotStart \/ Wait \/ Return
FeederThread == ReadInput \/ InputFails \/ WriteChunk \/ PipeBroken \/ CloseInput
Reader(s) == Collect(s) \/ EndOfStream(s)
ClientStep == Consume \/ Answer \/ Complete

Next ==
  \/ MainThread \/ FeederThread \/ (\E s \in Streams : Reader(s))
  \/ ClientStep \/ Quit

(* Every thread is scheduled, and the client goes on unless it waits for a *)
(* pipe; that it quits is never promised.                                  *)
Spec ==
  /\ Init /\ [][Next]_vars
  /\ WF_vars(MainThread) /\ WF_vars(FeederThread)
  /\ \A s \in Streams : WF_vars(Reader(s))
  /\ WF_vars(ClientStep)

-----------------------------------------------------------------------------
(* Properties.                                                             *)

(* Types of the variables; a pipe never holds more than it can.            *)
TypeOK ==
  /\ main \in {"starting", "waiting", "joining", "succeeded", "failed"}
  /\ feeder \in {"unstarted", "reading", "writing", "closing", "ended"}
  /\ total \in 0 .. Chunks /\ failed \in BOOLEAN
  /\ stdin \in 0 .. Capacity
  /\ reader \in [Streams -> {"unstarted", "reading", "ended"}]
  /\ piped \in [Streams -> 0 .. Capacity]
  /\ captured \in [Streams -> 0 .. MaxOutput]
  /\ client \in {"none", "running", "exited_0", "exited_1"}
  /\ consumed \in 0 .. Chunks
  /\ wrote \in [Streams -> 0 .. MaxOutput]
  /\ owes \in Streams \cup {"none"}

(* What the threads know of each other: every chunk is in one place, who   *)
(* has ended had reason to, and a client that runs has all its threads.    *)
StreamInvariant ==
  /\ TypeOK
  /\ consumed + stdin = total
  /\ \A s \in Streams : wrote[s] = piped[s] + captured[s]
  /\ owes # "none" => wrote[owes] < MaxOutput
  /\ feeder = "writing" => total < Chunks
  /\ feeder \in {"closing", "ended"} /\ ~failed => total = Chunks
  /\ \A s \in Streams : reader[s] = "ended" => Ended /\ piped[s] = 0
  /\ client = "none" <=> (feeder = "unstarted")
  /\ client = "none" => main \in {"starting", "failed"} /\ \A s \in Streams : reader[s] = "unstarted"
  /\ main = "starting" => client = "none"
  /\ main = "joining" => Ended
  /\ main = "succeeded" => client = "exited_0" /\ ~failed
  /\ main \in {"succeeded", "failed"} /\ client # "none" =>
       Ended /\ feeder = "ended" /\ \A s \in Streams : reader[s] = "ended"

(* A reported success means the client was given the whole input file:     *)
(* neither an unreadable input nor a broken pipe is lost.                  *)
SuccessMeansAllFed == main = "succeeded" => total = Chunks

(* When the main thread returns, nothing the client said is lost, and the  *)
(* client and all threads have ended.                                      *)
OutputIsComplete ==
  main \in {"succeeded", "failed"} /\ client # "none" =>
    Ended /\ feeder = "ended" /\ \A s \in Streams : captured[s] = wrote[s]
=============================================================================
