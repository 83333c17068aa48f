--------------------------- MODULE PostgresRoles ---------------------------
(***************************************************************************)
(* The statements of dbtalk/postgres/role.py and                           *)
(* dbtalk/postgres/database.py: what each command sends to a PostgreSQL    *)
(* server, in order, each statement committed by itself.                   *)
(*                                                                         *)
(* The targets are a database, a schema, "all_tables" and "all_sequences"  *)
(* of the schema, and "server" for the role's own attribute CREATEDB.      *)
(* "use" stands for CONNECT or USAGE, "define" for CREATE, and reading and *)
(* writing as in MysqlAccounts.                                            *)
(***************************************************************************)
EXTENDS MysqlAccounts

CONSTANTS Schema, DsnDatabase

(* Mutant: a new role may connect to a database, by a second statement.    *)
PostgresRoleStatementsGrantingToo(c) ==
  <<Statement(c.op, c.who, c.on, {})>>
    \o IF c.op = "create" THEN <<Statement("grant", c.who, DsnDatabase, {"use"})>> ELSE <<>>

(* enable_role and disable_role through _alter_role, drop_role and the     *)
(* rest of the role's life.                                                *)
PostgresRoleStatements(c) == <<Statement(c.op, c.who, c.on, {})>>

(* _profile_statements for a database.                                     *)
PostgresDatabaseProfile(c) ==
  <<Statement(c.op, c.who, c.on, IF c.profile = "migrator" THEN {"use", "define"} ELSE {"use"})>>

(* _profile_statements for a schema: of its tables and sequences only      *)
(* those that exist.                                                       *)
PostgresSchemaProfile(c) ==
  <<Statement(c.op, c.who, c.on, {"use"})>>
    \o (IF c.profile = "migrator" THEN <<Statement(c.op, c.who, c.on, {"define"})>> ELSE <<>>)
    \o IF c.profile = "readonly"
       THEN <<Statement(c.op, c.who, "all_tables", {"read"})>>
       ELSE <<Statement(c.op, c.who, "all_tables", {"read", "write"}),
              Statement(c.op, c.who, "all_sequences", {"use", "read", "write"})>>

(* _change_profile: CREATEDB or NOCREATEDB comes last.                     *)
PostgresProfileStatements(c) ==
  (IF c.on = Schema THEN PostgresSchemaProfile(c) ELSE PostgresDatabaseProfile(c))
    \o IF c.profile = "migrator" THEN <<Statement(c.op, c.who, "server", {"define"})>> ELSE <<>>

(* _change_privileges.                                                     *)
PostgresPrivilegeStatements(c) == <<Statement(c.op, c.who, c.on, c.mays)>>

(* create_database and drop_database.                                      *)
PostgresDatabaseStatements(c) == <<Statement(c.op, c.who, c.on, {})>>

PostgresStatements(c) ==
  IF c.op \notin {"grant", "revoke"}
  THEN IF c.op \in {"create_database", "drop_database"} THEN PostgresDatabaseStatements(c)
       ELSE PostgresRoleStatements(c)
  ELSE IF c.profile = "none" THEN PostgresPrivilegeStatements(c) ELSE PostgresProfileStatements(c)

(* The commands that call _reject_current_role before their statements.    *)
PostgresGuards(c) == c.op \in {"enable", "disable", "rotate", "drop", "grant", "revoke"}

(* _reject_current_role: a quoted role name has one spelling.              *)
PostgresIsCurrent(c, current) == c.who = current

(* drop_database does not drop what the connection itself needs.           *)
PostgresRefuses(c) == c.op = "drop_database" /\ c.on = DsnDatabase

(* The privileges a profile promises, over the tables there are.           *)
PostgresPromise(c, tables) ==
  LET On(targets, mays) == [who : {c.who}, on : targets, may : mays]
      define == IF c.profile = "migrator" THEN {"define"} ELSE {}
      data == IF c.profile = "readonly" THEN {"read"} ELSE {"read", "write"}
  IN  On({c.on}, {"use"} \cup define) \cup On({"server"}, define)
        \cup IF c.on # Schema THEN {}
             ELSE On(tables, data)
                    \cup IF c.profile = "readonly" THEN {}
                         ELSE On({"all_sequences"}, {"use", "read", "write"})
=============================================================================
