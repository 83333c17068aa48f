-------------------------- MODULE MCAdministration --------------------------
(***************************************************************************)
(* Two administrators, one application account, one table and a second     *)
(* database.                                                               *)
(***************************************************************************)
EXTENDS Administration

CONSTANTS root, dba, app, t1

Command(op, who, spelled, on, profile, mays, yes) ==
  [op |-> op, who |-> who, spelled |-> spelled, on |-> on, profile |-> profile, mays |-> mays,
   yes |-> yes, valid |-> TRUE]

AccountCommand(op, who) == Command(op, who, "as_stored", "none", "none", {}, TRUE)

MCCommands ==
  {AccountCommand("disable", a) : a \in {root, dba}}
    \cup {AccountCommand("drop", a) : a \in {dba, app}}
    \cup {AccountCommand(op, app) : op \in {"create", "enable"}}
    \cup {AccountCommand("rotate", dba),
          Command("disable", dba, "otherwise", "none", "none", {}, TRUE),
          Command("drop", app, "as_stored", "none", "none", {}, FALSE),
          [AccountCommand("disable", app) EXCEPT !.valid = FALSE]}
    \cup {Command(op, "none", "as_stored", on, "none", {}, TRUE) :
            op \in {"create_database", "drop_database"}, on \in {"orders"}}
    \cup {Command("drop_database", "none", "as_stored", "main", "none", {}, TRUE)}
    \cup {Command("grant", app, "as_stored", "main", "readonly", {}, TRUE)}
    \cup {Command(op, app, "as_stored", on, "migrator", {}, TRUE) :
            op \in {"grant", "revoke"}, on \in {"main", "public"}}
    \cup {Command("revoke", app, "as_stored", "main", "none", {"write", "define"}, TRUE)}

(* Nothing granted, or the migrator profile to the application account.    *)
MCFirstFacts ==
  {{}, [who : {app}, on : {"main"}, may : {"read", "write", "define"}]
         \cup {[who |-> app, on |-> "server", may |-> "define"]}}
=============================================================================
