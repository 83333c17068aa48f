----------------------------- MODULE InstallRun -----------------------------
(***************************************************************************)
(* What every run of scripts/install.py has, whether it manages the plugin *)
(* or a standalone skill: the command line, the clients it selects, the    *)
(* work it still has at them, and an outcome for each.                     *)
(***************************************************************************)
EXTENDS Naturals, Sequences

CONSTANTS
  Runs,
  CommandLines,   \* the options that runs are given
  Setups,         \* the assets the runs may manage, with the clients that are installed
  MaxFaults

VARIABLES
  asset,     \* plugin or skill
  line,      \* the options of each run
  available, \* the clients whose command is installed
  targets,   \* the clients of the run, in the order of CLIENTS
  stage,     \* of each run
  todo,      \* clients still to be planned for, then to be worked at
  outcome,   \* per run and client
  alone,     \* ghost: nobody else has changed the client since the run began
  faults     \* how many operations may still fail for no reason

options == <<asset, line, available>>
runVars == <<options, targets, stage, todo, outcome, alone, faults>>

Clients == {"claude", "codex", "grok"}
Commands == {"check", "list", "apply", "remove"}
Outcomes == {"none", "skipped", "ready", "planned", "installed", "absent", "applied",
             "removed", "failed"}
Stages == {"idle", "planning", "working", "copy", "look", "move", "place", "undo", "restore",
           "clean", "tidy", "rmtree", "refused", "ok", "failed", "crashed"}

(* What build_parser and main accept: the command, --dry-run for those     *)
(* that change something, the clients named, or --strict and none.         *)
IsCommandLine(l) ==
  /\ l \in [command : Commands, dry : BOOLEAN, asked : SUBSET Clients, strict : BOOLEAN]
  /\ l.strict => l.asked = {}
  /\ l.dry => l.command \in {"apply", "remove"}

ASSUME CommandLinesAssumption == \A l \in CommandLines : IsCommandLine(l)
ASSUME SetupsAssumption == Setups \subseteq [asset : {"plugin", "skill"}, available : SUBSET Clients]
ASSUME MaxFaultsAssumption == MaxFaults \in Nat

Options ==
  /\ \E s \in Setups : asset = s.asset /\ available = s.available
  /\ line \in [Runs -> CommandLines]

RunInit ==
  /\ Options
  /\ targets = [r \in Runs |-> <<>>]
  /\ stage = [r \in Runs |-> "idle"]
  /\ todo = [r \in Runs |-> <<>>]
  /\ outcome = [r \in Runs |-> [c \in Clients |-> "none"]]
  /\ alone = [r \in Runs |-> [c \in Clients |-> TRUE]]
  /\ faults = MaxFaults

Goto(r, s) == stage' = [stage EXCEPT ![r] = s]
Fault == faults > 0 /\ faults' = faults - 1
Changes(r) == line[r].command \in {"apply", "remove"} /\ ~line[r].dry
Ended(r) == stage[r] \in {"refused", "ok", "failed", "crashed"}
TargetSet(r) == {targets[r][i] : i \in DOMAIN targets[r]}

(* The first client to be worked at, its end, and that a change there is   *)
(* one the other runs did not make.                                        *)
Client(r) == Head(todo[r])
At(r, s) == stage[r] = s /\ todo[r] # <<>>
NextClient(r, result) ==
  /\ outcome' = [outcome EXCEPT ![r][Client(r)] = result]
  /\ todo' = [todo EXCEPT ![r] = Tail(@)]
  /\ Goto(r, "working")
Touch(r, c) ==
  alone' = [q \in Runs |-> IF q = r THEN alone[q] ELSE [alone[q] EXCEPT ![c] = FALSE]]

(* requested_clients.                                                      *)
Requested(r) == IF line[r].asked = {} THEN Clients ELSE line[r].asked

(* Clients in the order of CLIENTS.                                        *)
InOrder(S) ==
  LET Only(c) == IF c \in S THEN <<c>> ELSE <<>>
  IN  Only("claude") \o Only("codex") \o Only("grok")

(* select_targets: a client that is not installed is skipped, or refuses   *)
(* the run when it was asked for; so does a run that is left with none.    *)
SelectTargets(r) ==
  LET missing == Requested(r) \ available
      ready == InOrder(Requested(r) \ missing)
  IN  /\ stage[r] = "idle"
      /\ IF (missing # {} /\ (line[r].asked # {} \/ line[r].strict)) \/ ready = <<>>
         THEN Goto(r, "refused") /\ UNCHANGED <<targets, todo, outcome>>
         ELSE /\ Goto(r, "planning")
              /\ targets' = [targets EXCEPT ![r] = ready]
              /\ todo' = [todo EXCEPT ![r] = ready]
              /\ outcome' = [outcome EXCEPT ![r] =
                               [c \in Clients |-> IF c \in missing THEN "skipped" ELSE "none"]]
      /\ alone' = [alone EXCEPT ![r] = [c \in Clients |-> TRUE]]
      /\ UNCHANGED <<options, faults>>

(* The exit code of manage_plugin and manage_skill.                        *)
Finish(r) ==
  /\ stage[r] = "working" /\ todo[r] = <<>>
  /\ Goto(r, IF \E c \in Clients : outcome[r][c] = "failed" THEN "failed" ELSE "ok")
  /\ UNCHANGED <<options, targets, todo, outcome, alone, faults>>

(* The user gives a command that did not end well again.                   *)
Again(r) ==
  /\ stage[r] \in {"refused", "failed", "crashed"} /\ Changes(r)
  /\ Goto(r, "idle")
  /\ UNCHANGED <<options, targets, todo, outcome, alone, faults>>

RunTypeOK ==
  /\ Options
  /\ stage \in [Runs -> Stages]
  /\ targets \in [Runs -> Seq(Clients)] /\ todo \in [Runs -> Seq(Clients)]
  /\ \A r \in Runs :
       /\ TargetSet(r) \subseteq available \cap Requested(r)
       /\ \E n \in 0 .. Len(targets[r]) : todo[r] = SubSeq(targets[r], n + 1, Len(targets[r]))
  /\ outcome \in [Runs -> [Clients -> Outcomes]]
  /\ alone \in [Runs -> [Clients -> BOOLEAN]]
  /\ faults \in 0 .. MaxFaults
=============================================================================
