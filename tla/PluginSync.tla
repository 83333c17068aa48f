----------------------------- MODULE PluginSync -----------------------------
(***************************************************************************)
(* manage_plugin of scripts/install.py: the plugin is installed in the     *)
(* clients, or removed, by commands of the clients themselves.  A run      *)
(* first asks every client what it has and plans; only then does it change *)
(* anything, client by client, and a failure at one does not keep it from  *)
(* the others.  Other runs may work at the same clients meanwhile.         *)
(*                                                                         *)
(* A marketplace and a plugin are "ours" when they come from this checkout *)
(* and "other" when another one has the same names, and "unsaid" when they *)
(* do without the client's record of them saying so: it has no root        *)
(* (Codex) or no source (Grok).                                            *)
(***************************************************************************)
EXTENDS InstallRun

VARIABLES
  plan,     \* per run and client, the commands to give
  sent,     \* how many of them the client at hand was given
  market,   \* the marketplace each client knows under our name (Grok has none)
  plugin,   \* the plugin each client has
  had       \* ghost: the plugins when the run began

pluginVars == <<plan, sent, market, plugin, had>>

Origins == {"none", "ours", "other", "unsaid"}
Unplanned == [c \in Clients |-> <<>>]

PluginInit ==
  /\ plan = [r \in Runs |-> Unplanned]
  /\ sent = [r \in Runs |-> 0]
  /\ market \in [Clients -> Origins] /\ market["grok"] = "none" /\ market["claude"] # "unsaid"
  /\ plugin \in [Clients -> Origins]
  /\ \A c \in {"claude", "codex"} : plugin[c] \in {"none", market[c]}
  /\ had = [r \in Runs |-> plugin]

(* What a run starts with.                                                 *)
BeginPlugin(r) ==
  /\ SelectTargets(r)
  /\ plan' = [plan EXCEPT ![r] = Unplanned]
  /\ sent' = [sent EXCEPT ![r] = 0]
  /\ had' = [had EXCEPT ![r] = plugin]
  /\ UNCHANGED <<market, plugin>>

(* validate_plugin_sources: for check and apply, the package, its manifest *)
(* and the marketplaces of this checkout are read, and may not be in order.*)
RefuseSources(r) ==
  /\ stage[r] = "planning" /\ line[r].command \in {"check", "apply"} /\ todo[r] = targets[r]
  /\ Fault /\ Goto(r, "refused")
  /\ UNCHANGED <<options, targets, todo, outcome, alone, pluginVars>>

(* Mutant: the marketplace is registered each time.                        *)
PlanOfRegistering(r, c) ==
  IF line[r].command = "remove" THEN IF plugin[c] = "none" THEN <<>> ELSE <<"uninstall">>
  ELSE IF c = "grok" THEN IF plugin[c] = "none" THEN <<"install">> ELSE <<"update">>
  ELSE <<"register", "install">>

(* plan_plugin_removal, plan_claude, plan_codex and plan_grok.             *)
PlanOf(r, c) ==
  CASE line[r].command = "remove" -> IF plugin[c] = "none" THEN <<>> ELSE <<"uninstall">>
    [] line[r].command # "remove" /\ c = "grok" ->
         IF plugin[c] = "none" THEN <<"install">>
         ELSE IF plugin[c] = "ours" THEN <<"update">> ELSE <<"uninstall", "install">>
    [] OTHER ->
         LET last == IF c = "claude" /\ plugin[c] # "none" THEN "update" ELSE "install"
         IN  IF market[c] = "none" THEN <<"register", last>> ELSE <<last>>

(* Codex is asked where its marketplace comes from and need not say; Grok  *)
(* has to say where its plugin comes from; Claude is not asked.            *)
Plannable(r, c) ==
  /\ line[r].command # "list"
  /\ line[r].command # "remove" =>
       /\ c = "codex" => market[c] # "other"
       /\ c = "grok" => plugin[c] # "unsaid"

(* One client is asked and planned for; any SyncError ends the run.        *)
PlanClient(r) ==
  /\ At(r, "planning") /\ line[r].command # "list"
  /\ \/ /\ Plannable(r, Client(r))
        /\ plan' = [plan EXCEPT ![r][Client(r)] = PlanOf(r, Client(r))]
        /\ todo' = [todo EXCEPT ![r] = Tail(@)]
        /\ UNCHANGED <<stage, faults>>
     \/ /\ ~Plannable(r, Client(r)) /\ UNCHANGED faults
        /\ Goto(r, "refused") /\ UNCHANGED <<plan, todo>>
     \/ Fault /\ Goto(r, "refused") /\ UNCHANGED <<plan, todo>>
  /\ UNCHANGED <<options, targets, outcome, alone, sent, market, plugin, had>>

(* All plans are made: the clients are gone through once more.             *)
Planned(r) ==
  /\ stage[r] = "planning" /\ (todo[r] = <<>> \/ line[r].command = "list")
  /\ Goto(r, "working")
  /\ todo' = [todo EXCEPT ![r] = targets[r]]
  /\ UNCHANGED <<options, targets, outcome, alone, faults, pluginVars>>

(* check and --dry-run report the plan; list_plugin asks the client, and   *)
(* an error of one client ends the whole list.                             *)
Report(r) ==
  /\ At(r, "working") /\ ~Changes(r)
  /\ \/ /\ NextClient(r, CASE line[r].command = "check" -> "ready"
                           [] line[r].command = "list" ->
                                IF plugin[Client(r)] = "none" THEN "absent" ELSE "installed"
                           [] OTHER -> "planned")
        /\ UNCHANGED faults
     \/ /\ line[r].command = "list" /\ Fault
        /\ Goto(r, "refused") /\ UNCHANGED <<outcome, todo>>
  /\ UNCHANGED <<options, targets, alone, pluginVars>>

-----------------------------------------------------------------------------
(* What a client does with a command.  A marketplace installs what it      *)
(* offers; registering a second one of the name may be refused.            *)
Accepted(c, verb) ==
  /\ verb = "install" /\ c # "grok" => market[c] # "none"
  /\ verb \in {"update", "uninstall"} => plugin[c] # "none"

Effect(c, verb) ==
  /\ market' = IF verb = "register" /\ market[c] = "none" THEN [market EXCEPT ![c] = "ours"]
               ELSE market
  /\ plugin' = CASE verb = "register" -> plugin
                 [] verb = "uninstall" -> [plugin EXCEPT ![c] = "none"]
                 [] verb = "update" -> plugin
                 [] OTHER -> [plugin EXCEPT ![c] = IF c = "grok" THEN "ours" ELSE market[c]]

HasCommand(r) ==
  At(r, "working") /\ Changes(r) /\ sent[r] < Len(plan[r][Client(r)])
Verb(r) == plan[r][Client(r)][sent[r] + 1]

(* The client reports that the next command is done; it may be wrong.      *)
Change(r) ==
  /\ HasCommand(r)
  /\ \/ /\ Accepted(Client(r), Verb(r)) /\ Effect(Client(r), Verb(r)) /\ Touch(r, Client(r))
        /\ UNCHANGED faults
     \/ Fault /\ UNCHANGED <<market, plugin, alone>>
  /\ sent' = [sent EXCEPT ![r] = @ + 1]
  /\ UNCHANGED <<options, targets, stage, todo, outcome, plan, had>>

(* It is refused, or it breaks or times out, when it may have done its     *)
(* work: the client has failed, and the run goes on with the next one.     *)
ChangeFails(r) ==
  /\ HasCommand(r)
  /\ \/ /\ ~Accepted(Client(r), Verb(r)) \/ (Verb(r) = "register" /\ market[Client(r)] # "none")
        /\ UNCHANGED <<market, plugin, alone, faults>>
     \/ Fault /\ UNCHANGED <<market, plugin, alone>>
     \/ /\ Fault /\ Accepted(Client(r), Verb(r))
        /\ Effect(Client(r), Verb(r)) /\ Touch(r, Client(r))
  /\ NextClient(r, "failed")
  /\ sent' = [sent EXCEPT ![r] = 0]
  /\ UNCHANGED <<options, targets, plan, had>>

(* Mutant: the client is not asked again after its commands.               *)
VerifyNothing(r) ==
  /\ At(r, "working") /\ Changes(r) /\ sent[r] = Len(plan[r][Client(r)])
  /\ NextClient(r, IF line[r].command = "apply" THEN "applied" ELSE "removed")
  /\ sent' = [sent EXCEPT ![r] = 0]
  /\ UNCHANGED <<options, targets, alone, faults, plan, market, plugin, had>>

(* verify_plugin, which asks for the plugin by its name.  A removal that   *)
(* had no commands asks nothing.                                           *)
Verify(r) ==
  /\ At(r, "working") /\ Changes(r) /\ sent[r] = Len(plan[r][Client(r)])
  /\ LET found == plugin[Client(r)] # "none"
         empty == plan[r][Client(r)] = <<>>
     IN  \/ empty /\ NextClient(r, "absent") /\ UNCHANGED faults
         \/ /\ ~empty /\ UNCHANGED faults
            /\ NextClient(r, IF found # (line[r].command = "apply") THEN "failed"
                             ELSE IF found THEN "applied" ELSE "removed")
         \/ ~empty /\ Fault /\ NextClient(r, "failed")
  /\ sent' = [sent EXCEPT ![r] = 0]
  /\ UNCHANGED <<options, targets, alone, plan, market, plugin, had>>

PluginStep(r) ==
  \/ BeginPlugin(r) \/ RefuseSources(r) \/ PlanClient(r) \/ Planned(r) \/ Report(r)
  \/ Change(r) \/ ChangeFails(r) \/ Verify(r)

PluginTypeOK ==
  /\ plan \in [Runs -> [Clients -> Seq({"register", "install", "update", "uninstall"})]]
  /\ sent \in [Runs -> 0 .. 2]
  /\ had \in [Runs -> [Clients -> Origins]]
  /\ market \in [Clients -> Origins] /\ plugin \in [Clients -> Origins]
=============================================================================
