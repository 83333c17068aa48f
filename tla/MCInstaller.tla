---------------------------- MODULE MCInstaller ----------------------------
(***************************************************************************)
(* Two runs with the commands that change something, or one of them        *)
(* looking only; for all clients or for two of them, of which one or two   *)
(* are installed.                                                          *)
(***************************************************************************)
EXTENDS Installer

Line(command, dry, asked, strict) ==
  [command |-> command, dry |-> dry, asked |-> asked, strict |-> strict]

MCCommandLines ==
  {Line(c, FALSE, {}, FALSE) : c \in {"list", "apply", "remove"}}
    \cup {Line("check", FALSE, {}, TRUE), Line("remove", TRUE, {}, FALSE),
          Line("apply", FALSE, {"codex", "grok"}, FALSE)}

Setup(what, clients) == [asset |-> what, available |-> clients]
MCSetups ==
  {Setup("plugin", {"claude", "grok"}), Setup("plugin", {"codex"}), Setup("skill", {"codex"})}
=============================================================================
