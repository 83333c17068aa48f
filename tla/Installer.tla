------------------------------ MODULE Installer ------------------------------
(***************************************************************************)
(* scripts/install.py as a whole: runs of main, at the same time, at the   *)
(* same clients.  They all manage the plugin or all manage the skill.      *)
(***************************************************************************)
EXTENDS PluginSync, SkillPublish

installVars == <<runVars, pluginVars, skillVars>>

(* Nothing is said of the plugin when the runs manage the skill, of the    *)
(* skill when they manage the plugin, and of clients that are not there.   *)
InstallInit ==
  /\ RunInit /\ PluginInit /\ SkillInit
  /\ \A c \in Clients :
       /\ (asset = "skill" \/ c \notin available) => market[c] = "none" /\ plugin[c] = "none"
       /\ (asset = "plugin" \/ c \notin available) => dest[c] = Nothing

(* main: one of the two assets.                                            *)
Manage(r) ==
  \/ asset = "plugin" /\ PluginStep(r) /\ UNCHANGED skillVars
  \/ asset = "skill" /\ SkillStep(r) /\ UNCHANGED pluginVars
  \/ Finish(r) /\ UNCHANGED <<pluginVars, skillVars>>

Repeat(r) == Again(r) /\ UNCHANGED <<pluginVars, skillVars>>

InstallNext == \E r \in Runs : Manage(r) \/ Repeat(r)

(* A run goes on as long as it is not killed, and a user who is told of an *)
(* error repeats the command.                                              *)
InstallSpec ==
  /\ InstallInit /\ [][InstallNext]_installVars
  /\ \A r \in Runs : WF_installVars(Manage(r)) /\ WF_installVars(Repeat(r))

-----------------------------------------------------------------------------
(* The variables have their types; staging and backup directories belong   *)
(* to a run that is replacing a skill.                                     *)
InstallTypeOK ==
  /\ RunTypeOK /\ PluginTypeOK /\ SkillTypeOK
  /\ \A r \in Runs :
       /\ Exists(staging[r]) => stage[r] \in {"look", "move", "place", "undo", "restore", "clean"}
       /\ Exists(backup[r]) => stage[r] \in {"place", "undo", "restore", "clean", "tidy"}

Has(c) == IF asset = "plugin" THEN plugin[c] # "none" ELSE dest[c].is = "dir"
HadSame(r, c) ==
  IF asset = "plugin" THEN plugin[c] = had[r][c] ELSE dest[c] = found[r][c]

(* A run that only looks, and one that is refused, for whatever client,    *)
(* has changed nothing at any client: clients are selected, sources read   *)
(* and plans made for all of them before the first change.                 *)
RefusedChangesNothing ==
  \A r \in Runs, c \in Clients :
    stage[r] = "refused" \/ ~Changes(r) \/ (stage[r] \notin {"idle", "crashed"} /\ c \notin TargetSet(r))
      => (alone[r][c] => HadSame(r, c))

(* A run that comes to its end has an outcome for every client it was to   *)
(* work at, whatever happened at the others, and the outcome is what the   *)
(* client has, as long as no other run works there.  That the plugin is of *)
(* another checkout, a run sees for Codex where the record of the          *)
(* marketplace has a root: Claude installs from what has the name, and     *)
(* Grok is asked for the name only.  A skill that could not be replaced is *)
(* what it was.                                                            *)
OutcomeIsTrue ==
  \A r \in Runs, c \in Clients :
    /\ stage[r] \in {"ok", "failed"} => (outcome[r][c] = "none" => c \notin Requested(r))
    /\ alone[r][c] =>
         /\ outcome[r][c] \in {"applied", "installed"} => Has(c)
         /\ outcome[r][c] = "applied" /\ asset = "plugin" /\ c = "codex" => plugin[c] # "other"
         /\ outcome[r][c] = "applied" /\ asset = "skill" => dest[c] = Dir(r, TRUE)
         /\ outcome[r][c] \in {"removed", "absent"} => ~Has(c)
         /\ outcome[r][c] = "failed" /\ asset = "skill" /\ line[r].command = "apply" => HadSame(r, c)

KeptSkills(c) ==
  {dest[c]} \cup {backup[r] : r \in {q \in Runs : todo[q] # <<>> /\ Client(q) = c}}
             \cup {l.entry : l \in {k \in left : k.client = c /\ k.is = "backup"}}

(* What a client had before runs that only apply is never lost.  The       *)
(* plugin is there all along, except at Grok when a run has not found ours *)
(* there: it uninstalls one of another source, and a run that was repeated *)
(* meanwhile finds none.  Of the skill a whole directory is there or kept  *)
(* beside, however the runs fail, are killed or overtake each other.       *)
ApplyLosesNothing ==
  (\A r \in Runs : line[r].command # "remove") =>
    \A r \in Runs, c \in Clients :
      IF asset = "plugin"
      THEN had[r][c] # "none" /\ plugin[c] = "none" => c = "grok" /\ \E q \in Runs : had[q][c] # "ours"
      ELSE found[r][c].is = "dir" => \E e \in KeptSkills(c) : e.is = "dir" /\ e.whole

(* Where only applies run, the client reads a skill that is whole, or none *)
(* while a run is between its two renames or after one was broken off.     *)
SkillIsWhole ==
  (\A r \in Runs : line[r].command # "remove") => \A c \in Clients : dest[c].is = "dir" => dest[c].whole

(* A run that nothing disturbs leaves no staging or backup directory.  One *)
(* that another run overtakes leaves its backup, and so does one that      *)
(* replaced a file.                                                        *)
ResidueIsExplained ==
  \A l \in left :
    \/ faults < MaxFaults
    \/ l.is = "backup" /\ (l.entry.is = "file" \/ ~l.alone)

(* A user who repeats an apply until it ends well has the asset at all the *)
(* clients it is for, whatever the failures before and the other runs have *)
(* left, unless Codex knows the marketplace from elsewhere, Grok does not  *)
(* say where its plugin is from, the skill's name is a symlink, or a       *)
(* client asked for is not installed.                                      *)
MayApply(r) ==
  /\ line[r].command = "apply" /\ ~line[r].dry
  /\ Requested(r) \subseteq available \/ (line[r].asked = {} /\ ~line[r].strict)

ApplyConverges ==
  /\ \A r \in Runs : line[r].command # "remove"
  /\ market["codex"] # "other" /\ plugin["grok"] # "unsaid" /\ \A c \in Clients : dest[c] # Symlink
  ~> \A r \in Runs : MayApply(r) => \A c \in Requested(r) \cap available : Has(c)

(* What a run tells its user is true, a refusal included, in states that   *)
(* are well formed.                                                        *)
OutcomesAreTrue == InstallTypeOK /\ OutcomeIsTrue /\ RefusedChangesNothing

(* What was installed is never lost, and never only a part of it there.    *)
NothingIsLost == ApplyLosesNothing /\ SkillIsWhole
=============================================================================
