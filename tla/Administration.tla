--------------------------- MODULE Administration ---------------------------
(***************************************************************************)
(* Administrators at one MySQL or PostgreSQL server: dbtalk mysql user,    *)
(* dbtalk postgres role and the schema commands of both.                   *)
(*                                                                         *)
(* A session opens one connection, may ask the server who it is, sends the *)
(* statements of its command one by one, each committed by itself, and     *)
(* reports success, a failure or a refusal.  The connection may break at   *)
(* any time, with the statement that was under way carried out or not.     *)
(* Other administrators work at the same server, and tables come to be.    *)
(*                                                                         *)
(* Passwords and the listing commands are left out.                        *)
(***************************************************************************)
EXTENDS PostgresRoles, Integers

CONSTANTS
  Admins,        \* accounts of administrators
  Applications,  \* other accounts
  Commands,      \* what administrators may ask for
  Databases, Tables,
  FirstFacts,    \* privileges that may have been granted at the start
  MaxCommands    \* bound on the commands that are given

VARIABLES server,   \* which of the two servers it is
          host,     \* accounts, locked, facts, databases and tables there
          phase,    \* of every administrator's session
          command,  \* the command of the session
          todo,     \* its statements not yet sent
          before,   \* the server when the session began
          alone,    \* no other session has changed it since then
          exposed,  \* two sessions overlapped, or an own account was respelled
          left      \* commands still to come

vars == <<server, host, phase, command, todo, before, alone, exposed, left>>

Accounts == Admins \cup Applications
Targets == Databases \cup Tables \cup {Schema, "all_sequences", "server"}
Busy == {"connected", "running"}
Privileges == {"use", "read", "write", "define"}
Facts == [who : Accounts, on : Targets, may : Privileges]
Hosts == [accounts : SUBSET Accounts, locked : SUBSET Accounts, facts : SUBSET Facts,
          databases : SUBSET Databases, tables : SUBSET Tables]

ASSUME AdminsAssumption == Admins # {} /\ Admins \cap Applications = {}
ASSUME TargetsAssumption ==
  /\ DsnDatabase \in Databases /\ Schema \notin Databases \cup Tables
  /\ Databases \cap Tables = {}
  /\ {"all_tables", "all_sequences", "server"} \cap (Databases \cup Tables \cup {Schema}) = {}
ASSUME FirstFactsAssumption == \A facts \in FirstFacts : facts \subseteq Facts
ASSUME MaxCommandsAssumption == MaxCommands \in Nat

(* A command is about a database, or about an account, and then perhaps    *)
(* its privileges on a database or a schema; the account may be spelled    *)
(* otherwise than the server stores it.                                    *)
AccountOps == {"create", "enable", "disable", "rotate", "drop", "grant", "revoke"}
DatabaseOps == {"create_database", "drop_database"}
ASSUME CommandsAssumption ==
  /\ Commands # {}
  /\ \A c \in Commands :
       /\ c.op \in AccountOps \cup DatabaseOps
       /\ c.op \in AccountOps => c.who \in Accounts
       /\ c.op \in DatabaseOps => c.on \in Databases
       /\ c.op \in {"grant", "revoke"} => c.on \in Databases \cup {Schema} /\ c.mays \subseteq Privileges
       /\ c.profile \in {"none", "readonly", "readwrite", "migrator"}
       /\ c.spelled \in {"as_stored", "otherwise"}

-----------------------------------------------------------------------------
(* What the servers do with a statement.                                   *)

Given(s, tables) == [who : {s.who}, on : IF s.on = "all_tables" THEN tables ELSE {s.on}, may : s.mays]
FactsOf(h, s) == Given(s, h.tables)

Held(h, s) == {f \in h.facts : f.who = s.who}

(* MySQL refuses a revocation on a database where the account holds no     *)
(* privilege at all; PostgreSQL refuses to drop a role that still holds    *)
(* one, and knows only the objects that are there.                         *)
Accepts(h, s) ==
  \/ s.do = "create" /\ s.who \notin h.accounts
  \/ s.do \in {"enable", "disable", "rotate"} /\ s.who \in h.accounts
  \/ /\ s.do = "drop" /\ s.who \in h.accounts
     /\ server = "postgresql" => \A f \in Held(h, s) : f.on = "server"
  \/ /\ s.do \in {"grant", "revoke"} /\ s.who \in h.accounts
     /\ server = "postgresql" => s.on \in h.databases \/ s.on \notin Databases
     /\ server = "mysql" /\ s.do = "revoke" =>
          s.on = "server" \/ \E f \in Held(h, s) : f.on = s.on
  \/ s.do = "create_database" /\ s.on \notin h.databases
  \/ s.do = "drop_database" /\ s.on \in h.databases

(* MySQL keeps the privileges on a database that is dropped.               *)
After(h, s) ==
  CASE s.do = "create" -> [h EXCEPT !.accounts = @ \cup {s.who}]
    [] s.do = "enable" -> [h EXCEPT !.locked = @ \ {s.who}]
    [] s.do = "disable" -> [h EXCEPT !.locked = @ \cup {s.who}]
    [] s.do = "rotate" -> h
    [] s.do = "drop" -> [h EXCEPT !.accounts = @ \ {s.who}, !.locked = @ \ {s.who},
                                  !.facts = @ \ Held(h, s)]
    [] s.do = "grant" -> [h EXCEPT !.facts = @ \cup FactsOf(h, s)]
    [] s.do = "revoke" -> [h EXCEPT !.facts = @ \ FactsOf(h, s)]
    [] s.do = "create_database" -> [h EXCEPT !.databases = @ \cup {s.on}]
    [] s.do = "drop_database" ->
         [h EXCEPT !.databases = @ \ {s.on},
                   !.facts = {f \in @ : server = "postgresql" => f.on # s.on}]

(* All statements of a command in one go, up to the first that is refused. *)
Attempt(done, s) ==
  IF done.ok /\ Accepts(done.host, s) THEN [ok |-> TRUE, host |-> After(done.host, s)]
  ELSE [ok |-> FALSE, host |-> done.host]

RunAll(h, statements) ==
  LET done[n \in 0 .. Len(statements)] ==
        IF n = 0 THEN [ok |-> TRUE, host |-> h] ELSE Attempt(done[n - 1], statements[n])
  IN  done[Len(statements)].host

-----------------------------------------------------------------------------
(* The command of the server at hand.                                      *)

Statements(c) == IF server = "mysql" THEN MysqlStatements(c) ELSE PostgresStatements(c)

Guards(c) == IF server = "mysql" THEN MysqlGuards(c) ELSE PostgresGuards(c)

IsCurrent(c, a) == IF server = "mysql" THEN MysqlIsCurrent(c, a) ELSE PostgresIsCurrent(c, a)

(* Everything but the two ways to create is confirmed with --yes.          *)
NeedsYes(c) == c.op \notin {"create", "create_database"}

(* Refused before there is a connection: not confirmed, or an invalid      *)
(* name, host, privilege, target or password variable.                     *)
RefusedAtOnce(c) ==
  \/ NeedsYes(c) /\ ~c.yes
  \/ ~c.valid
  \/ server = "postgresql" /\ PostgresRefuses(c)

-----------------------------------------------------------------------------
Init ==
  /\ server \in {"mysql", "postgresql"}
  /\ host \in [accounts : {Accounts}, locked : {{}, Applications}, facts : FirstFacts,
               databases : {{DsnDatabase}}, tables : {{}}]
  /\ phase = [a \in Admins |-> "idle"]
  /\ command = [a \in Admins |-> CHOOSE c \in Commands : TRUE]
  /\ todo = [a \in Admins |-> <<>>]
  /\ before = [a \in Admins |-> host]
  /\ alone = [a \in Admins |-> TRUE]
  /\ exposed = FALSE
  /\ left = MaxCommands

Others(a) == Admins \ {a}

(* One command is given: refused at once, without a connection because the *)
(* account is locked or gone, or connected.                                *)
Begin(a, c) ==
  /\ phase[a] \notin Busy /\ left > 0
  /\ left' = left - 1
  /\ command' = [command EXCEPT ![a] = c]
  /\ todo' = [todo EXCEPT ![a] = Statements(c)]
  /\ phase' = [phase EXCEPT ![a] = IF RefusedAtOnce(c) THEN "refused"
                                   ELSE IF a \in host.accounts \ host.locked THEN "connected"
                                   ELSE "failed"]
  /\ before' = [before EXCEPT ![a] = host]
  /\ alone' = [alone EXCEPT ![a] = TRUE]
  /\ exposed' = (exposed \/ (\E b \in Others(a) : phase[b] \in Busy) \/ c.spelled = "otherwise")
  /\ UNCHANGED <<server, host>>

(* The guard, on the connection of the command itself.                     *)
Check(a) ==
  /\ phase[a] = "connected"
  /\ phase' = [phase EXCEPT ![a] = IF Guards(command[a]) /\ IsCurrent(command[a], a)
                                   THEN "refused" ELSE "running"]
  /\ UNCHANGED <<server, host, command, todo, before, alone, exposed, left>>

Send(a, h) ==
  /\ host' = h
  /\ alone' = IF h = host THEN alone ELSE [b \in Admins |-> alone[b] /\ b = a]
  /\ UNCHANGED <<server, command, before, exposed, left>>

(* The next statement, carried out or refused by the server.               *)
Execute(a) ==
  /\ phase[a] = "running" /\ todo[a] # <<>>
  /\ \/ /\ Accepts(host, Head(todo[a]))
        /\ Send(a, After(host, Head(todo[a])))
        /\ todo' = [todo EXCEPT ![a] = Tail(@)]
        /\ UNCHANGED phase
     \/ /\ ~Accepts(host, Head(todo[a]))
        /\ Send(a, host)
        /\ phase' = [phase EXCEPT ![a] = "failed"]
        /\ UNCHANGED todo

(* The connection is lost; the statement under way may have got through.   *)
Lose(a) ==
  /\ phase[a] \in Busy
  /\ phase' = [phase EXCEPT ![a] = "failed"]
  /\ \/ Send(a, host)
     \/ /\ phase[a] = "running" /\ todo[a] # <<>>
        /\ Accepts(host, Head(todo[a]))
        /\ Send(a, After(host, Head(todo[a])))
  /\ UNCHANGED todo

(* The command reports success.                                            *)
Return(a) ==
  /\ phase[a] = "running" /\ todo[a] = <<>>
  /\ phase' = [phase EXCEPT ![a] = "ok"]
  /\ UNCHANGED <<server, host, command, todo, before, alone, exposed, left>>

(* Somebody creates a table in the schema.                                 *)
CreateTable ==
  /\ \E t \in Tables \ host.tables : host' = [host EXCEPT !.tables = @ \cup {t}]
  /\ UNCHANGED <<server, phase, command, todo, before, alone, exposed, left>>

Done ==
  /\ left = 0 /\ (\A a \in Admins : phase[a] \notin Busy) /\ host.tables = Tables
  /\ UNCHANGED vars

Next ==
  \/ \E a \in Admins : \/ \E c \in Commands : Begin(a, c)
                       \/ Check(a) \/ Execute(a) \/ Lose(a) \/ Return(a)
  \/ CreateTable
  \/ Done

Spec == Init /\ [][Next]_vars

-----------------------------------------------------------------------------
IsHost(h) == h \in Hosts /\ h.locked \subseteq h.accounts /\ \A f \in h.facts : f.who \in h.accounts

(* What remains of statements when the first ones have been sent.          *)
Remains(rest, all) == \E n \in 0 .. Len(all) : rest = SubSeq(all, n + 1, Len(all))

(* The variables have their types, nobody is locked or holds a privilege   *)
(* without an account, and a session that is refused has sent nothing.     *)
TypeOK ==
  /\ server \in {"mysql", "postgresql"}
  /\ IsHost(host)
  /\ phase \in [Admins -> Busy \cup {"idle", "ok", "failed", "refused"}]
  /\ command \in [Admins -> Commands]
  /\ alone \in [Admins -> BOOLEAN]
  /\ DOMAIN todo = Admins /\ DOMAIN before = Admins
  /\ \A a \in Admins :
       /\ phase[a] \in {"connected", "refused"} => todo[a] = Statements(command[a])
       /\ phase[a] # "idle" => Remains(todo[a], Statements(command[a]))
       /\ phase[a] = "ok" => todo[a] = <<>>
       /\ IsHost(before[a])
  /\ exposed \in BOOLEAN
  /\ left \in 0 .. MaxCommands

Promise(c, tables) ==
  IF c.profile = "none" THEN [who : {c.who}, on : {c.on}, may : c.mays]
  ELSE IF server = "mysql" THEN MysqlPromise(c) ELSE PostgresPromise(c, tables)

(* Of the tables of a schema, those that were there at first count, and    *)
(* others may.                                                             *)
TablesCounted(old, new) == {tables \in SUBSET new.tables : old.tables \subseteq tables}
Changed(op, facts, by) == IF op = "grant" THEN facts \cup by ELSE facts \ by

(* What a command must have made of the server: exactly what a profile     *)
(* promises is added or gone, a new account has no privileges and is open, *)
(* and so on.                                                              *)
TookEffect(c, old, new) ==
  CASE c.op \in {"grant", "revoke"} ->
         /\ \E tables \in TablesCounted(old, new) :
              new.facts = Changed(c.op, old.facts, Promise(c, tables))
         /\ new.accounts = old.accounts
    [] c.op = "create" -> c.who \in new.accounts \ new.locked /\ \A f \in new.facts : f.who # c.who
    [] c.op = "drop" -> c.who \notin new.accounts /\ \A f \in new.facts : f.who # c.who
    [] c.op = "enable" -> c.who \in new.accounts \ new.locked
    [] c.op = "disable" -> c.who \in new.locked
    [] c.op = "rotate" -> c.who \in new.accounts
    [] c.op = "create_database" -> c.on \in new.databases
    [] c.op = "drop_database" -> c.on \notin new.databases

(* Success is reported only for a command that took effect in all its      *)
(* parts, unless another administrator came in between: a profile is       *)
(* granted or revoked with its last statement, the global one, and nothing *)
(* besides has changed.                                                    *)
ReportedSuccessHolds ==
  \A a \in Admins : phase[a] = "ok" /\ alone[a] => TookEffect(command[a], before[a], host)

(* The one command that cannot simply be given again: revoking the         *)
(* migrator profile from a MySQL account when its first statement took the *)
(* account's last privilege on the database.  MySQL refuses that statement *)
(* the second time, and the global CREATE is never reached.                *)
StuckRevocation(c) ==
  /\ server = "mysql" /\ c.op = "revoke" /\ c.profile = "migrator"
  /\ [who |-> c.who, on |-> "server", may |-> "define"] \in host.facts
  /\ \A f \in host.facts : f.who = c.who => f.on # c.on

(* After a failure, whichever statements it left undone, the same command  *)
(* ends with the same accounts, privileges and databases as one that had   *)
(* not failed, except for the stuck revocation.                            *)
FailedChangeCanBeRepeated ==
  \A a \in Admins : phase[a] = "failed" /\ alone[a] =>
    LET whole == [before[a] EXCEPT !.tables = host.tables]
    IN  \/ RunAll(host, Statements(command[a])) = RunAll(whole, Statements(command[a]))
        \/ StuckRevocation(command[a])

(* Administrators who work one after the other, and spell their accounts   *)
(* as the server does, never lock themselves out together: somebody can    *)
(* still connect.                                                          *)
AnAdministratorRemains == exposed \/ \E a \in Admins : a \in host.accounts \ host.locked

(* The same in states that are well formed.                                *)
SuccessHolds == TypeOK /\ ReportedSuccessHolds

(* What a session has reached that nobody disturbs: the privileges of the  *)
(* statements that it has sent, or, when it has sent its only one, the     *)
(* effect of its command.                                                  *)
Sent(c, rest, tables) ==
  UNION {Given(Statements(c)[i], tables) : i \in 1 .. Len(Statements(c)) - Len(rest)}

SoFar(c, old, new, rest) ==
  /\ old.tables \subseteq new.tables
  /\ IF c.op \in {"grant", "revoke"}
     THEN /\ \E tables \in TablesCounted(old, new) :
               new.facts = Changed(c.op, old.facts, Sent(c, rest, tables))
          /\ new.accounts = old.accounts
     ELSE rest = <<>> => TookEffect(c, old, new)

(* Unless sessions overlapped or an account was respelled, the one session *)
(* there is belongs to an account that is open and will stay so.           *)
Unexposed ==
  /\ \A a, b \in Admins : phase[a] \in Busy /\ phase[b] \in Busy => a = b
  /\ \A a \in Admins : phase[a] \in Busy =>
       /\ a \in host.accounts \ host.locked /\ command[a].spelled = "as_stored"
       /\ phase[a] = "running" => command[a].op \notin {"disable", "drop"} \/ command[a].who # a

AdministrationInvariant ==
  /\ TypeOK
  /\ \A a \in Admins : phase[a] \in Busy \cup {"ok"} /\ alone[a] =>
       SoFar(command[a], before[a], host, todo[a])
  /\ exposed \/ Unexposed
  /\ AnAdministratorRemains

(* What a session has done to a server that nobody else changes, but for   *)
(* the tables that come to be: nothing yet, or at least the first          *)
(* statement of its command and of the others some.                        *)
AllGiven(S, tables) == UNION {Given(S[i], tables) : i \in 1 .. Len(S)}

Untouched(old, new) == new = [old EXCEPT !.tables = new.tables]

Begun(c, old, new) ==
  LET first == Statements(c)[1]
      whole == [old EXCEPT !.tables = new.tables]
  IN  /\ Accepts(old, first)
      /\ IF c.op \in {"grant", "revoke"}
         THEN \E given \in SUBSET AllGiven(Statements(c), new.tables) :
                /\ Given(first, new.tables) \subseteq given
                /\ new = [whole EXCEPT !.facts = Changed(c.op, @, given)]
         ELSE new = After(whole, first)

ReachedBy(a) ==
  \/ /\ Untouched(before[a], host)
     /\ phase[a] \in Busy => todo[a] = Statements(command[a])
  \/ /\ Begun(command[a], before[a], host)
     /\ phase[a] \in Busy => todo[a] # Statements(command[a])

RepetitionInvariant == \A a \in Admins : alone[a] => ReachedBy(a)
=============================================================================
