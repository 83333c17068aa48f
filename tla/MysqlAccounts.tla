--------------------------- MODULE MysqlAccounts ---------------------------
(***************************************************************************)
(* The statements of dbtalk/mysql/user.py and dbtalk/mysql/database.py:    *)
(* what each command sends to a MySQL server, in order.  Every statement   *)
(* commits by itself (isolation level AUTOCOMMIT).                         *)
(*                                                                         *)
(* Privileges are told apart by what the profiles tell apart: "read" for   *)
(* SELECT and SHOW VIEW, "write" for INSERT, UPDATE and DELETE, "define"   *)
(* for CREATE and the other data definition.  The target of the global     *)
(* CREATE ON *.* is "server".                                              *)
(***************************************************************************)
EXTENDS Sequences

Statement(do, who, on, mays) == [do |-> do, who |-> who, on |-> on, mays |-> mays]

(* _profile_privileges.                                                    *)
MysqlProfile ==
  [readonly |-> {"read"}, readwrite |-> {"read", "write"}, migrator |-> {"read", "write", "define"}]

(* enable_user and disable_user through _alter_user, drop_user and the     *)
(* rest of the account's life.                                             *)
MysqlAccountStatements(c) == <<Statement(c.op, c.who, c.on, {})>>

(* Mutant: the global privilege is left out of a revocation.               *)
MysqlProfileStatementsLeavingGlobal(c) ==
  <<Statement(c.op, c.who, c.on, MysqlProfile[c.profile])>>
    \o IF c.profile = "migrator" /\ c.op = "grant"
       THEN <<Statement(c.op, c.who, "server", {"define"})>> ELSE <<>>

(* _change_profile.                                                        *)
MysqlProfileStatements(c) ==
  <<Statement(c.op, c.who, c.on, MysqlProfile[c.profile])>>
    \o IF c.profile = "migrator" THEN <<Statement(c.op, c.who, "server", {"define"})>> ELSE <<>>

(* _change_privileges: one statement for all of them.                      *)
MysqlPrivilegeStatements(c) == <<Statement(c.op, c.who, c.on, c.mays)>>

(* create_database and drop_database.                                      *)
MysqlDatabaseStatements(c) == <<Statement(c.op, c.who, c.on, {})>>

MysqlStatements(c) ==
  IF c.op \notin {"grant", "revoke"}
  THEN IF c.op \in {"create_database", "drop_database"} THEN MysqlDatabaseStatements(c)
       ELSE MysqlAccountStatements(c)
  ELSE IF c.profile = "none" THEN MysqlPrivilegeStatements(c) ELSE MysqlProfileStatements(c)

(* Mutant: disabling is not guarded.                                       *)
MysqlGuardsButDisable(c) == c.op \in {"enable", "drop", "grant", "revoke"}

(* The commands that call _reject_current_account before their statements. *)
(* rotate_user_password does not.                                          *)
MysqlGuards(c) == c.op \in {"enable", "disable", "drop", "grant", "revoke"}

(* The comparison of _reject_current_account: CURRENT_USER() is what the   *)
(* server stores, while the name and host given may be spelled otherwise   *)
(* (MySQL folds the case of a host name).                                  *)
MysqlIsCurrent(c, current) == c.who = current /\ c.spelled = "as_stored"

(* The privileges a profile promises on its database.                      *)
MysqlPromise(c) ==
  [who : {c.who}, on : {c.on}, may : MysqlProfile[c.profile]]
    \cup IF c.profile = "migrator" THEN [who : {c.who}, on : {"server"}, may : {"define"}] ELSE {}
=============================================================================
