------------------------ MODULE Administration_proofs ------------------------
(***************************************************************************)
(* Proofs about administrators at one server, for any accounts, databases, *)
(* tables and commands.                                                    *)
(***************************************************************************)
EXTENDS Administration, WellFoundedInduction, TLAPS

-----------------------------------------------------------------------------
(* The statements of a command.                                            *)

Special == {"all_tables", "all_sequences", "server"}
StatementsFor(c) ==
  [do : {c.op}, who : {c.who}, on : {c.on} \cup (IF c.op \in DatabaseOps THEN {} ELSE Special),
   mays : SUBSET Privileges]

(* All of them do what the command is called, to the account it names.     *)
LEMMA StatementsTyped ==
  ASSUME NEW c \in Commands
  PROVE  Statements(c) \in Seq(StatementsFor(c))
<1> DEFINE S == StatementsFor(c)
<1>0. /\ c.op \in AccountOps \cup DatabaseOps
      /\ c.op \in {"grant", "revoke"} => c.mays \subseteq Privileges
      /\ c.profile \in {"none", "readonly", "readwrite", "migrator"}
  BY CommandsAssumption
<1>1. ASSUME NEW on, on = c.on \/ (on \in Special /\ c.op \notin DatabaseOps), NEW mays \in SUBSET Privileges
      PROVE  Statement(c.op, c.who, on, mays) \in S
  <2>1. on \in {c.on} \cup (IF c.op \in DatabaseOps THEN {} ELSE Special)
    BY <1>1
  <2>2. QED
    BY <2>1 DEF Statement, StatementsFor
<1>2. ASSUME NEW p \in {"readonly", "readwrite", "migrator"}
      PROVE  MysqlProfile[p] \in SUBSET Privileges
  BY DEF MysqlProfile, Privileges
<1>3. {} \in SUBSET Privileges
  OBVIOUS
<1>4. {"use", "read", "write", "define"} = Privileges
  BY DEF Privileges
<1>5. \A s, t \in Seq(S) : s \o t \in Seq(S)
  OBVIOUS
<1>6. \A s \in S : <<s>> \in Seq(S)
  OBVIOUS
<1>7. <<>> \in Seq(S)
  OBVIOUS
<1>8. \A s, t \in S : <<s, t>> \in Seq(S)
  OBVIOUS
<1> HIDE DEF S
<1>8a. \A mays \in SUBSET Privileges : <<Statement(c.op, c.who, c.on, mays)>> \in Seq(S)
  BY <1>1, <1>6
<1>9. ASSUME c.op \in {"grant", "revoke"}
      PROVE  \A on \in {c.on} \cup Special, mays \in SUBSET Privileges :
               /\ Statement(c.op, c.who, on, mays) \in S
               /\ <<Statement(c.op, c.who, on, mays)>> \in Seq(S)
  <2>1. c.op \notin DatabaseOps
    BY <1>9 DEF DatabaseOps
  <2>2. QED
    BY <1>1, <1>6, <2>1
<1>10. MysqlAccountStatements(c) \in Seq(S) /\ MysqlDatabaseStatements(c) \in Seq(S)
       /\ PostgresRoleStatements(c) \in Seq(S) /\ PostgresDatabaseStatements(c) \in Seq(S)
  BY <1>3, <1>8a DEF MysqlAccountStatements, MysqlDatabaseStatements, PostgresRoleStatements,
                     PostgresDatabaseStatements
<1>11. ASSUME c.op \in {"grant", "revoke"}
       PROVE  MysqlPrivilegeStatements(c) \in Seq(S) /\ PostgresPrivilegeStatements(c) \in Seq(S)
  BY <1>0, <1>8a, <1>11 DEF MysqlPrivilegeStatements, PostgresPrivilegeStatements
<1>12. ASSUME c.op \in {"grant", "revoke"}
       PROVE  <<Statement(c.op, c.who, "server", {"define"})>> \in Seq(S)
  BY <1>4, <1>9, <1>12 DEF Special
<1>13. ASSUME c.profile # "none", c.op \in {"grant", "revoke"}
       PROVE  MysqlProfileStatements(c) \in Seq(S)
  <2>1. <<Statement(c.op, c.who, c.on, MysqlProfile[c.profile])>> \in Seq(S)
    BY <1>0, <1>2, <1>8a, <1>13
  <2>2. QED
    BY <1>5, <1>7, <1>12, <1>13, <2>1 DEF MysqlProfileStatements
<1>14. ASSUME c.op \in {"grant", "revoke"} PROVE PostgresProfileStatements(c) \in Seq(S)
  <2>1. PostgresDatabaseProfile(c) \in Seq(S)
    BY <1>4, <1>8a DEF PostgresDatabaseProfile
  <2>2. /\ <<Statement(c.op, c.who, c.on, {"use"})>> \in Seq(S)
        /\ <<Statement(c.op, c.who, c.on, {"define"})>> \in Seq(S)
        /\ <<Statement(c.op, c.who, "all_tables", {"read"})>> \in Seq(S)
    BY <1>4, <1>9, <1>14 DEF Special
  <2>3. <<Statement(c.op, c.who, "all_tables", {"read", "write"}),
          Statement(c.op, c.who, "all_sequences", {"use", "read", "write"})>> \in Seq(S)
    BY <1>4, <1>8, <1>9, <1>14 DEF Special
  <2>4. PostgresSchemaProfile(c) \in Seq(S)
    BY <1>5, <1>7, <2>2, <2>3 DEF PostgresSchemaProfile
  <2>5. QED
    BY <1>5, <1>7, <1>12, <1>14, <2>1, <2>4 DEF PostgresProfileStatements
<1>15. Statements(c) \in Seq(S)
  BY <1>0, <1>10, <1>11, <1>13, <1>14 DEF Statements, MysqlStatements, PostgresStatements,
                                          AccountOps, DatabaseOps
<1>16. QED
  BY <1>15 DEF S

(* What remains when the next statement has been sent.                     *)
LEMMA RestRemains ==
  ASSUME NEW S, NEW all \in Seq(S), NEW rest, Remains(rest, all)
  PROVE  /\ rest \in Seq(S) /\ Len(rest) \in 0 .. Len(all)
         /\ rest # <<>> => /\ Head(rest) = all[Len(all) - Len(rest) + 1]
                           /\ Len(rest) > 0 /\ Remains(Tail(rest), all)
                           /\ Len(Tail(rest)) = Len(rest) - 1
<1>1. PICK n \in 0 .. Len(all) : rest = SubSeq(all, n + 1, Len(all))
  BY DEF Remains
<1>2. Len(all) \in Nat /\ n \in Nat /\ n <= Len(all)
  BY <1>1
<1>3. rest \in Seq(S) /\ Len(rest) = Len(all) - n
  BY <1>1, <1>2
<1>4. ASSUME rest # <<>>
      PROVE  /\ Head(rest) = all[Len(all) - Len(rest) + 1]
             /\ Len(rest) > 0 /\ Remains(Tail(rest), all) /\ Len(Tail(rest)) = Len(rest) - 1
  <2>1. Len(rest) > 0 /\ n + 1 <= Len(all)
    BY <1>2, <1>3, <1>4
  <2>2. Head(rest) = all[n + 1]
    BY <1>1, <1>2, <1>3, <2>1
  <2>3. Tail(rest) = SubSeq(all, (n + 1) + 1, Len(all))
    BY <1>1, <1>2, <1>3, <2>1
  <2>4. n + 1 \in 0 .. Len(all)
    BY <1>2, <2>1
  <2>5. Remains(Tail(rest), all)
    BY <2>3, <2>4 DEF Remains
  <2>6. QED
    BY <1>2, <1>3, <2>1, <2>2, <2>5
<1>5. QED
  BY <1>2, <1>3, <1>4

LEMMA AllRemain == ASSUME NEW S, NEW all \in Seq(S) PROVE Remains(all, all)
<1>1. all = SubSeq(all, 1, Len(all)) /\ 0 \in 0 .. Len(all)
  OBVIOUS
<1>2. all = SubSeq(all, 0 + 1, Len(all))
  BY <1>1
<1>3. QED
  BY <1>1, <1>2 DEF Remains

-----------------------------------------------------------------------------
(* What the statements of a profile give together.                         *)

(* Statements on all the tables: none, or one at most.                     *)
TableFree(S) == \A i \in 1 .. Len(S) : S[i].on # "all_tables"
TablesOnce(S) == \A i, j \in 1 .. Len(S) : S[i].on = "all_tables" /\ S[j].on = "all_tables" => i = j

LEMMA OneStatement ==
  ASSUME NEW s, NEW tables
  PROVE  /\ AllGiven(<<s>>, tables) = Given(s, tables) /\ TablesOnce(<<s>>)
         /\ s.on # "all_tables" => TableFree(<<s>>)
<1>1. Len(<<s>>) = 1 /\ <<s>>[1] = s /\ 1 .. 1 = {1}
  OBVIOUS
<1>2. {Given(<<s>>[i], tables) : i \in 1 .. Len(<<s>>)} = {Given(s, tables)}
  BY <1>1
<1>3. QED
  BY <1>1, <1>2 DEF AllGiven, TablesOnce, TableFree

LEMMA NoStatement == ASSUME NEW tables PROVE AllGiven(<<>>, tables) = {} /\ TableFree(<<>>)
<1>1. 1 .. Len(<<>>) = {}
  OBVIOUS
<1>2. QED
  BY <1>1 DEF AllGiven, TableFree

LEMMA StatementsTogether ==
  ASSUME NEW X, NEW S \in Seq(X), NEW T \in Seq(X), NEW tables
  PROVE  /\ AllGiven(S \o T, tables) = AllGiven(S, tables) \cup AllGiven(T, tables)
         /\ TableFree(S) /\ TableFree(T) => TableFree(S \o T)
         /\ TableFree(S) /\ TablesOnce(T) => TablesOnce(S \o T)
         /\ TablesOnce(S) /\ TableFree(T) => TablesOnce(S \o T)
<1> DEFINE U == S \o T
<1>1. /\ Len(S) \in Nat /\ Len(T) \in Nat /\ Len(U) = Len(S) + Len(T)
      /\ \A i \in 1 .. Len(S) : U[i] = S[i]
      /\ \A i \in 1 .. Len(T) : U[Len(S) + i] = T[i]
  OBVIOUS
<1> HIDE DEF U
<1>2. \A i \in 1 .. Len(U) : \/ i \in 1 .. Len(S) /\ U[i] = S[i]
                             \/ /\ i - Len(S) \in 1 .. Len(T) /\ U[i] = T[i - Len(S)]
                                /\ i > Len(S)
  <2>1. ASSUME NEW i \in 1 .. Len(U), i > Len(S)
        PROVE  i - Len(S) \in 1 .. Len(T) /\ U[i] = T[i - Len(S)]
    <3>1. i - Len(S) \in 1 .. Len(T) /\ Len(S) + (i - Len(S)) = i
      BY <1>1, <2>1
    <3>2. QED
      BY <1>1, <3>1
  <2>2. QED
    BY <1>1, <2>1
<1>3. AllGiven(U, tables) = AllGiven(S, tables) \cup AllGiven(T, tables)
  <2>1. ASSUME NEW f, f \in AllGiven(U, tables) PROVE f \in AllGiven(S, tables) \cup AllGiven(T, tables)
    <3>1. PICK i \in 1 .. Len(U) : f \in Given(U[i], tables)
      BY <2>1 DEF AllGiven
    <3>2. QED
      BY <1>2, <3>1 DEF AllGiven
  <2>2. ASSUME NEW f, f \in AllGiven(S, tables) PROVE f \in AllGiven(U, tables)
    <3>1. PICK i \in 1 .. Len(S) : f \in Given(S[i], tables)
      BY <2>2 DEF AllGiven
    <3>2. i \in 1 .. Len(U) /\ U[i] = S[i]
      BY <1>1
    <3>3. QED
      BY <3>1, <3>2 DEF AllGiven
  <2>3. ASSUME NEW f, f \in AllGiven(T, tables) PROVE f \in AllGiven(U, tables)
    <3>1. PICK i \in 1 .. Len(T) : f \in Given(T[i], tables)
      BY <2>3 DEF AllGiven
    <3>2. Len(S) + i \in 1 .. Len(U) /\ U[Len(S) + i] = T[i]
      BY <1>1
    <3>3. QED
      BY <3>1, <3>2 DEF AllGiven
  <2>4. QED
    BY <2>1, <2>2, <2>3
<1>4. TableFree(S) /\ TableFree(T) => TableFree(U)
  BY <1>2 DEF TableFree
<1>5. TableFree(S) /\ TablesOnce(T) => TablesOnce(U)
  <2>1. SUFFICES ASSUME TableFree(S), TablesOnce(T), NEW i \in 1 .. Len(U), NEW j \in 1 .. Len(U),
                        U[i].on = "all_tables", U[j].on = "all_tables"
                 PROVE  i = j
    BY DEF TablesOnce
  <2>2. i - Len(S) \in 1 .. Len(T) /\ j - Len(S) \in 1 .. Len(T) /\ i - Len(S) = j - Len(S)
    BY <1>2, <2>1 DEF TableFree, TablesOnce
  <2>3. QED
    BY <1>1, <2>2
<1>6. TablesOnce(S) /\ TableFree(T) => TablesOnce(U)
  BY <1>2 DEF TableFree, TablesOnce
<1>7. QED
  BY <1>3, <1>4, <1>5, <1>6 DEF U

(* The privileges that the profile and the privilege commands promise are  *)
(* exactly those that their statements give.                               *)
LEMMA PromiseIsGiven ==
  ASSUME NEW c \in Commands, c.op \in {"grant", "revoke"}, NEW tables \in SUBSET Tables,
         server \in {"mysql", "postgresql"}
  PROVE  /\ AllGiven(Statements(c), tables) = Promise(c, tables)
         /\ TablesOnce(Statements(c))
<1> DEFINE X == StatementsFor(c)
           On(on, mays) == [who : {c.who}, on : {on}, may : mays]
           At(on, mays) == <<Statement(c.op, c.who, on, mays)>>
<1>0. /\ c.profile \in {"none", "readonly", "readwrite", "migrator"}
      /\ c.on # "all_tables" /\ c.mays \subseteq Privileges
  BY CommandsAssumption, TargetsAssumption
<1>a. c.op \notin DatabaseOps
  BY DEF DatabaseOps
<1>1. ASSUME NEW on \in {c.on, "all_sequences", "server"}, NEW mays \in SUBSET Privileges
      PROVE  /\ At(on, mays) \in Seq(X) /\ AllGiven(At(on, mays), tables) = On(on, mays)
             /\ TableFree(At(on, mays)) /\ TablesOnce(At(on, mays))
  <2>1. PICK s : s = Statement(c.op, c.who, on, mays)
    OBVIOUS
  <2>2. s \in X /\ s.on # "all_tables" /\ Given(s, tables) = On(on, mays)
    BY <1>0, <1>a, <2>1 DEF Statement, StatementsFor, Given, Special
  <2>3. <<s>> \in Seq(X)
    BY <2>2
  <2>4. QED
    BY <2>1, <2>2, <2>3, OneStatement
<1>2. ASSUME NEW mays \in SUBSET Privileges
      PROVE  /\ At("all_tables", mays) \in Seq(X)
             /\ AllGiven(At("all_tables", mays), tables) = [who : {c.who}, on : tables, may : mays]
             /\ TablesOnce(At("all_tables", mays))
  <2>1. PICK s : s = Statement(c.op, c.who, "all_tables", mays)
    OBVIOUS
  <2>2. s \in X /\ Given(s, tables) = [who : {c.who}, on : tables, may : mays]
    BY <1>a, <2>1 DEF Statement, StatementsFor, Given, Special
  <2>3. <<s>> \in Seq(X)
    BY <2>2
  <2>4. QED
    BY <2>1, <2>2, <2>3, OneStatement
<1>3. <<>> \in Seq(X) /\ AllGiven(<<>>, tables) = {} /\ TableFree(<<>>)
  BY NoStatement
<1>4. \A a, b \in Seq(X) :
        /\ a \o b \in Seq(X)
        /\ AllGiven(a \o b, tables) = AllGiven(a, tables) \cup AllGiven(b, tables)
        /\ TableFree(a) /\ TableFree(b) => TableFree(a \o b)
        /\ TableFree(a) /\ TablesOnce(b) => TablesOnce(a \o b)
        /\ TablesOnce(a) /\ TableFree(b) => TablesOnce(a \o b)
  BY StatementsTogether
<1>5. {{}, {"read"}, {"read", "write"}, {"use", "read", "write"}, {"read", "write", "define"},
       {"use"}, {"define"}, {"use", "define"}, c.mays} \subseteq SUBSET Privileges
  BY <1>0 DEF Privileges
<1>8. \A on, a, b : On(on, a) \cup On(on, b) = On(on, a \cup b)
  OBVIOUS
<1> HIDE DEF X, On, At
<1>9. CASE c.profile = "none"
  <2>1. Statements(c) = At(c.on, c.mays)
    BY <1>9 DEF At, Statements, MysqlStatements, PostgresStatements, MysqlPrivilegeStatements,
                PostgresPrivilegeStatements
  <2>2. Promise(c, tables) = On(c.on, c.mays)
    BY <1>9 DEF Promise, On
  <2>3. QED
    BY <1>1, <1>5, <2>1, <2>2
<1>10. CASE c.profile # "none" /\ server = "mysql"
  <2>1. MysqlProfile[c.profile] \in SUBSET Privileges
    BY <1>0, <1>10 DEF MysqlProfile, Privileges
  <2>2. Statements(c) = At(c.on, MysqlProfile[c.profile])
                          \o IF c.profile = "migrator" THEN At("server", {"define"}) ELSE <<>>
    BY <1>10 DEF At, Statements, MysqlStatements, MysqlProfileStatements
  <2>3. Promise(c, tables) = On(c.on, MysqlProfile[c.profile])
                               \cup IF c.profile = "migrator" THEN On("server", {"define"}) ELSE {}
    BY <1>10 DEF Promise, MysqlPromise, On
  <2>4. /\ At(c.on, MysqlProfile[c.profile]) \in Seq(X)
        /\ AllGiven(At(c.on, MysqlProfile[c.profile]), tables) = On(c.on, MysqlProfile[c.profile])
        /\ TablesOnce(At(c.on, MysqlProfile[c.profile]))
    BY <1>1, <2>1
  <2>5. At("server", {"define"}) \in Seq(X) /\ TableFree(At("server", {"define"}))
        /\ AllGiven(At("server", {"define"}), tables) = On("server", {"define"})
    BY <1>1, <1>5
  <2>6. CASE c.profile = "migrator"
    BY <1>4, <2>2, <2>3, <2>4, <2>5, <2>6
  <2>7. CASE c.profile # "migrator"
    BY <1>3, <1>4, <2>2, <2>3, <2>4, <2>7
  <2>8. QED
    BY <2>6, <2>7
<1>11. CASE c.profile # "none" /\ server = "postgresql"
  <2> DEFINE define == IF c.profile = "migrator" THEN {"define"} ELSE {}
             data == IF c.profile = "readonly" THEN {"read"} ELSE {"read", "write"}
             last == IF c.profile = "migrator" THEN At("server", {"define"}) ELSE <<>>
  <2>1. define \in SUBSET Privileges /\ data \in SUBSET Privileges
    BY <1>5
  <2>2. last \in Seq(X) /\ AllGiven(last, tables) = On("server", define) /\ TableFree(last)
    <3>1. On("server", {}) = {}
      BY DEF On
    <3>2. QED
      BY <1>1, <1>3, <1>5, <3>1
  <2>a. /\ {"use"} \cup define = IF c.profile = "migrator" THEN {"use", "define"} ELSE {"use"}
        /\ data = IF c.profile = "readonly" THEN {"read"} ELSE {"read", "write"}
        /\ {"use"} \cup define \in SUBSET Privileges
    BY <1>5
  <2> HIDE DEF data, last
  <2>3. CASE c.on # Schema
    <3>1. Statements(c) = At(c.on, {"use"} \cup define) \o last
      <4>1. QED
        BY <1>11, <2>3, <2>a DEF last, At, Statements, PostgresStatements, PostgresProfileStatements,
                                 PostgresDatabaseProfile
    <3>2. Promise(c, tables) = On(c.on, {"use"} \cup define) \cup On("server", define)
      BY <1>11, <2>3 DEF Promise, PostgresPromise, On
    <3>3. /\ At(c.on, {"use"} \cup define) \in Seq(X) /\ TablesOnce(At(c.on, {"use"} \cup define))
          /\ AllGiven(At(c.on, {"use"} \cup define), tables) = On(c.on, {"use"} \cup define)
      BY <1>1, <2>a
    <3> HIDE DEF define
    <3>4. QED
      BY <1>4, <2>2, <3>1, <3>2, <3>3
  <2>4. CASE c.on = Schema
    <3> DEFINE more == IF c.profile = "migrator" THEN At(c.on, {"define"}) ELSE <<>>
               objects == IF c.profile = "readonly" THEN At("all_tables", data)
                          ELSE At("all_tables", data) \o At("all_sequences", {"use", "read", "write"})
               sequences == IF c.profile = "readonly" THEN {} ELSE On("all_sequences", {"use", "read", "write"})
    <3>1. Statements(c) = ((At(c.on, {"use"}) \o more) \o objects) \o last
      <4>1. ASSUME NEW s, NEW t PROVE <<s>> \o <<t>> = <<s, t>>
        <5>1. <<s>> \in Seq({s, t}) /\ <<t>> \in Seq({s, t}) /\ <<s, t>> \in Seq({s, t})
          OBVIOUS
        <5>2. Len(<<s>> \o <<t>>) = 2 /\ (<<s>> \o <<t>>)[1] = s /\ (<<s>> \o <<t>>)[2] = t
          BY <5>1
        <5>3. <<s>> \o <<t>> \in Seq({s, t})
          BY <5>1
        <5>4. \A u \in Seq({s, t}) : Len(u) = 2 => u = [i \in 1 .. 2 |-> u[i]]
          OBVIOUS
        <5>5. <<s, t>>[1] = s /\ <<s, t>>[2] = t /\ Len(<<s, t>>) = 2
          OBVIOUS
        <5>6. [i \in 1 .. 2 |-> (<<s>> \o <<t>>)[i]] = [i \in 1 .. 2 |-> <<s, t>>[i]]
          BY <5>2, <5>5
        <5>7. QED
          BY <5>1, <5>2, <5>3, <5>4, <5>5, <5>6
      <4>2. objects = IF c.profile = "readonly"
                      THEN <<Statement(c.op, c.who, "all_tables", {"read"})>>
                      ELSE <<Statement(c.op, c.who, "all_tables", {"read", "write"}),
                             Statement(c.op, c.who, "all_sequences", {"use", "read", "write"})>>
        BY <2>a, <4>1 DEF At
      <4>3. PostgresSchemaProfile(c) = (At(c.on, {"use"}) \o more) \o objects
        <5> HIDE DEF objects
        <5>1. /\ At(c.on, {"use"}) \in Seq(X) /\ more \in Seq(X)
          BY <1>1, <1>3, <1>5
        <5>2. QED
          BY <4>2, <5>1 DEF At, PostgresSchemaProfile
      <4>4. QED
        BY <1>11, <2>4, <4>3 DEF last, At, Statements, PostgresStatements, PostgresProfileStatements
    <3>2. Promise(c, tables) = ((On(c.on, {"use"}) \cup On(c.on, define))
                                  \cup ([who : {c.who}, on : tables, may : data] \cup sequences))
                                 \cup On("server", define)
      <4>2. On(c.on, {"use"} \cup define) = On(c.on, {"use"}) \cup On(c.on, define)
        BY <1>8
      <4>3. Promise(c, tables) = On(c.on, {"use"} \cup define) \cup On("server", define)
                                   \cup ([who : {c.who}, on : tables, may : data] \cup sequences)
        BY <1>11, <2>4 DEF Promise, PostgresPromise, On, data
      <4> HIDE DEF define, sequences
      <4>4. ASSUME NEW A, NEW B, NEW C, NEW D, NEW E
            PROVE  (A \cup B) \cup C \cup (D \cup E) = ((A \cup B) \cup (D \cup E)) \cup C
        OBVIOUS
      <4>5. QED
        BY <4>2, <4>3, <4>4, Zenon
    <3>3. more \in Seq(X) /\ AllGiven(more, tables) = On(c.on, define) /\ TableFree(more)
      <4>1. On(c.on, {}) = {}
        BY DEF On
      <4>2. QED
        BY <1>1, <1>3, <1>5, <4>1
    <3>4. /\ objects \in Seq(X) /\ TablesOnce(objects)
          /\ AllGiven(objects, tables) = [who : {c.who}, on : tables, may : data] \cup sequences
      <4>1. /\ At("all_tables", data) \in Seq(X) /\ TablesOnce(At("all_tables", data))
            /\ AllGiven(At("all_tables", data), tables) = [who : {c.who}, on : tables, may : data]
        BY <1>2, <2>1
      <4>2. /\ At("all_sequences", {"use", "read", "write"}) \in Seq(X)
            /\ TableFree(At("all_sequences", {"use", "read", "write"}))
            /\ AllGiven(At("all_sequences", {"use", "read", "write"}), tables)
                 = On("all_sequences", {"use", "read", "write"})
        BY <1>1, <1>5
      <4>3. CASE c.profile = "readonly"
        BY <4>1, <4>3
      <4>4. CASE c.profile # "readonly"
        BY <1>4, <4>1, <4>2, <4>4
      <4>5. QED
        BY <4>3, <4>4
    <3> HIDE DEF define, more, objects, sequences
    <3>5. /\ At(c.on, {"use"}) \o more \in Seq(X) /\ TableFree(At(c.on, {"use"}) \o more)
          /\ AllGiven(At(c.on, {"use"}) \o more, tables) = On(c.on, {"use"}) \cup On(c.on, define)
      BY <1>1, <1>4, <1>5, <3>3
    <3>6. PICK first \in Seq(X) :
            /\ first = (At(c.on, {"use"}) \o more) \o objects /\ TablesOnce(first)
            /\ AllGiven(first, tables) = (On(c.on, {"use"}) \cup On(c.on, define))
                                           \cup ([who : {c.who}, on : tables, may : data] \cup sequences)
      BY <1>4, <3>4, <3>5
    <3>7. QED
      BY <1>4, <2>2, <3>1, <3>2, <3>6
  <2>5. QED
    BY <2>3, <2>4
<1>12. QED
  BY <1>9, <1>10, <1>11

-----------------------------------------------------------------------------
(* What a statement makes of a server.                                     *)

LEMMA GrantedFacts ==
  ASSUME NEW h, IsHost(h), NEW c \in Commands, c.op \in {"grant", "revoke"}, NEW s \in StatementsFor(c)
  PROVE  FactsOf(h, s) = Given(s, h.tables) /\ FactsOf(h, s) \subseteq Facts
<1>1. /\ c.who \in Accounts /\ c.on \in Databases \cup {Schema} /\ s.who = c.who
      /\ s.on \in {c.on} \cup Special /\ s.mays \subseteq Privileges /\ h.tables \subseteq Tables
  BY CommandsAssumption DEF AccountOps, StatementsFor, IsHost, Hosts
<1>2. (IF s.on = "all_tables" THEN h.tables ELSE {s.on}) \subseteq Targets
  BY <1>1 DEF Targets, Special
<1>3. QED
  BY <1>1, <1>2 DEF FactsOf, Given, Facts

LEMMA AfterHost ==
  ASSUME NEW h, IsHost(h), NEW c \in Commands, NEW s \in StatementsFor(c), Accepts(h, s)
  PROVE  IsHost(After(h, s)) /\ After(h, s).tables = h.tables
<1>1. /\ s.do = c.op /\ s.who = c.who /\ c.op \in AccountOps \cup DatabaseOps
      /\ c.op \in AccountOps => s.who \in Accounts
  BY CommandsAssumption DEF StatementsFor
<1>2. h \in Hosts /\ h.locked \subseteq h.accounts /\ \A f \in h.facts : f.who \in h.accounts
  BY DEF IsHost
<1> USE DEF Hosts
<1>3. CASE s.do = "create"
  <2>1. After(h, s) = [h EXCEPT !.accounts = @ \cup {s.who}] /\ s.who \in Accounts
    BY <1>1, <1>3 DEF After, AccountOps
  <2>2. QED
    BY <1>2, <2>1 DEF IsHost
<1>4. CASE s.do = "enable"
  <2>1. After(h, s) = [h EXCEPT !.locked = @ \ {s.who}]
    BY <1>4 DEF After
  <2>2. QED
    BY <1>2, <2>1 DEF IsHost
<1>5. CASE s.do = "disable"
  <2>1. After(h, s) = [h EXCEPT !.locked = @ \cup {s.who}] /\ s.who \in h.accounts
    BY <1>5 DEF After, Accepts
  <2>2. QED
    BY <1>2, <2>1 DEF IsHost
<1>6. CASE s.do = "rotate"
  <2>1. After(h, s) = h
    BY <1>6 DEF After
  <2>2. QED
    BY <2>1
<1>7. CASE s.do = "drop"
  <2>1. After(h, s) = [h EXCEPT !.accounts = @ \ {s.who}, !.locked = @ \ {s.who}, !.facts = @ \ Held(h, s)]
    BY <1>7 DEF After
  <2>2. \A f \in h.facts \ Held(h, s) : f.who # s.who
    BY DEF Held
  <2>3. QED
    BY <1>2, <2>1, <2>2 DEF IsHost
<1>8. CASE s.do = "grant"
  <2>1. After(h, s) = [h EXCEPT !.facts = @ \cup FactsOf(h, s)] /\ s.who \in h.accounts
    BY <1>8 DEF After, Accepts
  <2>2. FactsOf(h, s) \subseteq Facts
    BY <1>1, <1>8, GrantedFacts
  <2>3. \A f \in FactsOf(h, s) : f.who = s.who
    BY DEF FactsOf, Given
  <2>4. QED
    BY <1>2, <2>1, <2>2, <2>3 DEF IsHost
<1>9. CASE s.do = "revoke"
  <2>1. After(h, s) = [h EXCEPT !.facts = @ \ FactsOf(h, s)]
    BY <1>9 DEF After
  <2>2. QED
    BY <1>2, <2>1 DEF IsHost
<1>10. CASE s.do = "create_database"
  <2>1. After(h, s) = [h EXCEPT !.databases = @ \cup {s.on}]
    BY <1>10 DEF After
  <2>2. s.on \in Databases
    BY <1>1, <1>10, CommandsAssumption DEF StatementsFor, DatabaseOps
  <2>3. QED
    BY <1>2, <2>1, <2>2 DEF IsHost
<1>11. CASE s.do = "drop_database"
  <2>1. After(h, s) = [h EXCEPT !.databases = @ \ {s.on},
                               !.facts = {f \in @ : server = "postgresql" => f.on # s.on}]
    BY <1>11 DEF After
  <2>2. QED
    BY <1>2, <2>1 DEF IsHost
<1>12. QED
  BY <1>1, <1>3, <1>4, <1>5, <1>6, <1>7, <1>8, <1>9, <1>10, <1>11 DEF AccountOps, DatabaseOps

(* An account that no statement disables or drops stays open.              *)
LEMMA StaysOpen ==
  ASSUME NEW h, IsHost(h), NEW c \in Commands, NEW s \in StatementsFor(c), Accepts(h, s),
         NEW a \in h.accounts \ h.locked, c.op \notin {"disable", "drop"} \/ c.who # a
  PROVE  a \in After(h, s).accounts \ After(h, s).locked
<1>1. s.do = c.op /\ s.who = c.who /\ c.op \in AccountOps \cup DatabaseOps
  BY CommandsAssumption DEF StatementsFor
<1>2. h \in Hosts
  BY DEF IsHost
<1> USE DEF Hosts
<1>3. CASE s.do = "create"
  <2>1. After(h, s) = [h EXCEPT !.accounts = @ \cup {s.who}]
    BY <1>3 DEF After
  <2>2. QED
    BY <1>2, <2>1
<1>4. CASE s.do = "enable"
  <2>1. After(h, s) = [h EXCEPT !.locked = @ \ {s.who}]
    BY <1>4 DEF After
  <2>2. QED
    BY <1>2, <2>1
<1>5. CASE s.do = "disable"
  <2>1. After(h, s) = [h EXCEPT !.locked = @ \cup {s.who}] /\ s.who # a
    BY <1>1, <1>5 DEF After
  <2>2. QED
    BY <1>2, <2>1
<1>6. CASE s.do = "rotate"
  <2>1. After(h, s) = h
    BY <1>6 DEF After
  <2>2. QED
    BY <2>1
<1>7. CASE s.do = "drop"
  <2>1. /\ After(h, s) = [h EXCEPT !.accounts = @ \ {s.who}, !.locked = @ \ {s.who}, !.facts = @ \ Held(h, s)]
        /\ s.who # a
    BY <1>1, <1>7 DEF After
  <2>2. QED
    BY <1>2, <2>1
<1>8. CASE s.do = "grant"
  <2>1. After(h, s) = [h EXCEPT !.facts = @ \cup FactsOf(h, s)]
    BY <1>8 DEF After
  <2>2. QED
    BY <1>2, <2>1
<1>9. CASE s.do = "revoke"
  <2>1. After(h, s) = [h EXCEPT !.facts = @ \ FactsOf(h, s)]
    BY <1>9 DEF After
  <2>2. QED
    BY <1>2, <2>1
<1>10. CASE s.do = "create_database"
  <2>1. After(h, s) = [h EXCEPT !.databases = @ \cup {s.on}]
    BY <1>10 DEF After
  <2>2. QED
    BY <1>2, <2>1
<1>11. CASE s.do = "drop_database"
  <2>1. After(h, s) = [h EXCEPT !.databases = @ \ {s.on},
                               !.facts = {f \in @ : server = "postgresql" => f.on # s.on}]
    BY <1>11 DEF After
  <2>2. QED
    BY <1>2, <2>1
<1>12. QED
  BY <1>1, <1>3, <1>4, <1>5, <1>6, <1>7, <1>8, <1>9, <1>10, <1>11 DEF AccountOps, DatabaseOps

(* A command other than a grant or a revocation takes effect with the one  *)
(* statement that it sends, whatever the server was before.                *)
LEMMA OneStatementIsEnough ==
  ASSUME NEW h, IsHost(h), NEW c \in Commands, c.op \notin {"grant", "revoke"},
         NEW s \in StatementsFor(c), s.on = c.on, Accepts(h, s), NEW old
  PROVE  TookEffect(c, old, After(h, s))
<1>1. s.do = c.op /\ s.who = c.who /\ c.op \in AccountOps \cup DatabaseOps
  BY CommandsAssumption DEF StatementsFor
<1>2. h \in Hosts /\ h.locked \subseteq h.accounts /\ \A f \in h.facts : f.who \in h.accounts
  BY DEF IsHost
<1> USE DEF Hosts
<1>3. CASE c.op = "create"
  <2>1. After(h, s) = [h EXCEPT !.accounts = @ \cup {s.who}] /\ s.who \notin h.accounts
    BY <1>1, <1>3 DEF After, Accepts
  <2>2. /\ c.who \in After(h, s).accounts \ After(h, s).locked
        /\ \A f \in After(h, s).facts : f.who # c.who
    BY <1>1, <1>2, <2>1
  <2>3. QED
    BY <1>3, <2>2 DEF TookEffect
<1>4. CASE c.op = "enable"
  <2>1. After(h, s) = [h EXCEPT !.locked = @ \ {s.who}] /\ s.who \in h.accounts
    BY <1>1, <1>4 DEF After, Accepts
  <2>2. c.who \in After(h, s).accounts \ After(h, s).locked
    BY <1>1, <1>2, <2>1
  <2>3. QED
    BY <1>4, <2>2 DEF TookEffect
<1>5. CASE c.op = "disable"
  <2>1. After(h, s) = [h EXCEPT !.locked = @ \cup {s.who}]
    BY <1>1, <1>5 DEF After
  <2>2. c.who \in After(h, s).locked
    BY <1>1, <1>2, <2>1
  <2>3. QED
    BY <1>5, <2>2 DEF TookEffect
<1>6. CASE c.op = "rotate"
  <2>1. After(h, s) = h /\ s.who \in h.accounts
    BY <1>1, <1>6 DEF After, Accepts
  <2>2. c.who \in After(h, s).accounts
    BY <1>1, <2>1
  <2>3. QED
    BY <1>6, <2>2 DEF TookEffect
<1>7. CASE c.op = "drop"
  <2>1. After(h, s) = [h EXCEPT !.accounts = @ \ {s.who}, !.locked = @ \ {s.who}, !.facts = @ \ Held(h, s)]
    BY <1>1, <1>7 DEF After
  <2>2. \A f \in h.facts \ Held(h, s) : f.who # s.who
    BY DEF Held
  <2>3. c.who \notin After(h, s).accounts /\ \A f \in After(h, s).facts : f.who # c.who
    BY <1>1, <1>2, <2>1, <2>2
  <2>4. QED
    BY <1>7, <2>3 DEF TookEffect
<1>8. CASE c.op = "create_database"
  <2>1. After(h, s) = [h EXCEPT !.databases = @ \cup {s.on}]
    BY <1>1, <1>8 DEF After
  <2>2. c.on \in After(h, s).databases
    BY <1>2, <2>1
  <2>3. QED
    BY <1>8, <2>2 DEF TookEffect
<1>9. CASE c.op = "drop_database"
  <2>1. After(h, s) = [h EXCEPT !.databases = @ \ {s.on},
                               !.facts = {f \in @ : server = "postgresql" => f.on # s.on}]
    BY <1>1, <1>9 DEF After
  <2>2. c.on \notin After(h, s).databases
    BY <1>2, <2>1
  <2>3. QED
    BY <1>9, <2>2 DEF TookEffect
<1>10. QED
  BY <1>1, <1>3, <1>4, <1>5, <1>6, <1>7, <1>8, <1>9 DEF AccountOps, DatabaseOps

LEMMA GrantChanges ==
  ASSUME NEW h, IsHost(h), NEW c \in Commands, c.op \in {"grant", "revoke"}, NEW s \in StatementsFor(c)
  PROVE  /\ After(h, s).facts = Changed(c.op, h.facts, Given(s, h.tables))
         /\ After(h, s).accounts = h.accounts
<1>1. s.do = c.op /\ FactsOf(h, s) = Given(s, h.tables)
  BY GrantedFacts DEF StatementsFor
<1>2. h \in Hosts
  BY DEF IsHost
<1>3. CASE c.op = "grant"
  <2>1. After(h, s) = [h EXCEPT !.facts = @ \cup FactsOf(h, s)]
    BY <1>1, <1>3 DEF After
  <2>2. QED
    BY <1>1, <1>2, <1>3, <2>1 DEF Hosts, Changed
<1>4. CASE c.op = "revoke"
  <2>1. After(h, s) = [h EXCEPT !.facts = @ \ FactsOf(h, s)]
    BY <1>1, <1>4 DEF After
  <2>2. QED
    BY <1>1, <1>2, <1>4, <2>1 DEF Hosts, Changed
<1>5. QED
  BY <1>3, <1>4

(* What the first n of some statements give; one more gives what it gives, *)
(* and for the tables that are counted an earlier choice can be kept, or,  *)
(* with the statement on all the tables, made again.                       *)
FirstGive(S, n, tables) == UNION {Given(S[i], tables) : i \in 1 .. n}

LEMMA OneMore ==
  ASSUME NEW X, NEW S \in Seq(X), NEW n \in Nat, NEW tables
  PROVE  /\ FirstGive(S, 0, tables) = {}
         /\ FirstGive(S, n + 1, tables) = FirstGive(S, n, tables) \cup Given(S[n + 1], tables)
<1>1. 1 .. (n + 1) = (1 .. n) \cup {n + 1} /\ 1 .. 0 = {}
  OBVIOUS
<1>2. ASSUME NEW f
      PROVE  f \in FirstGive(S, n + 1, tables)
               <=> f \in FirstGive(S, n, tables) \cup Given(S[n + 1], tables)
  BY <1>1 DEF FirstGive
<1>3. FirstGive(S, 0, tables) = {}
  BY <1>1 DEF FirstGive
<1>4. QED
  BY <1>2, <1>3

LEMMA TablesAreChosen ==
  ASSUME NEW X, NEW S \in Seq(X), NEW n \in Nat, NEW now, NEW counted, TablesOnce(S), n < Len(S)
  PROVE  \/ FirstGive(S, n, counted) \cup Given(S[n + 1], now) = FirstGive(S, n + 1, now)
         \/ FirstGive(S, n, counted) \cup Given(S[n + 1], now) = FirstGive(S, n + 1, counted)
<1>1. n + 1 \in 1 .. Len(S) /\ \A i \in 1 .. n : i \in 1 .. Len(S) /\ i # n + 1
  OBVIOUS
<1>2. CASE S[n + 1].on = "all_tables"
  <2>1. \A i \in 1 .. n : S[i].on # "all_tables"
    BY <1>1, <1>2 DEF TablesOnce
  <2>2. \A i \in 1 .. n : Given(S[i], counted) = Given(S[i], now)
    BY <2>1 DEF Given
  <2>3. FirstGive(S, n, counted) = FirstGive(S, n, now)
    BY <2>2 DEF FirstGive
  <2>4. QED
    BY <1>2, <2>3, OneMore
<1>3. CASE S[n + 1].on # "all_tables"
  <2>1. Given(S[n + 1], now) = Given(S[n + 1], counted)
    BY <1>3 DEF Given
  <2>2. QED
    BY <1>3, <2>1, OneMore
<1>4. QED
  BY <1>2, <1>3

LEMMA ChangedTwice ==
  ASSUME NEW op, NEW facts, NEW by, NEW more
  PROVE  /\ Changed(op, Changed(op, facts, by), more) = Changed(op, facts, by \cup more)
         /\ Changed(op, facts, {}) = facts
BY DEF Changed

(* A command other than a grant or a revocation is one statement.          *)
LEMMA OneOfThem ==
  ASSUME NEW c \in Commands, c.op \notin {"grant", "revoke"}
  PROVE  Statements(c) = <<Statement(c.op, c.who, c.on, {})>>
BY DEF Statements, MysqlStatements, PostgresStatements, MysqlAccountStatements, MysqlDatabaseStatements,
       PostgresRoleStatements, PostgresDatabaseStatements

-----------------------------------------------------------------------------
(* The steps.                                                              *)

(* The statement that a session sends next.                                *)
LEMMA TheNext ==
  ASSUME TypeOK, NEW a \in Admins, phase[a] # "idle", todo[a] # <<>>
  PROVE  /\ command[a] \in Commands
         /\ Head(todo[a]) \in StatementsFor(command[a])
         /\ Remains(Tail(todo[a]), Statements(command[a]))
<1>1. command[a] \in Commands /\ Remains(todo[a], Statements(command[a]))
  BY DEF TypeOK
<1>2. PICK S : S = StatementsFor(command[a])
  OBVIOUS
<1>3. Statements(command[a]) \in Seq(S)
  BY <1>1, <1>2, StatementsTyped
<1>4. PICK all \in Seq(S) : all = Statements(command[a])
  BY <1>3
<1>5. PICK rest : rest = todo[a]
  OBVIOUS
<1>6. /\ rest \in Seq(S) /\ Len(rest) \in 0 .. Len(all)
      /\ rest # <<>> => Remains(Tail(rest), all)
  BY <1>1, <1>4, <1>5, RestRemains
<1>7. Head(rest) \in S
  BY <1>5, <1>6
<1>8. QED
  BY <1>1, <1>2, <1>4, <1>5, <1>6, <1>7

(* What a session has reached, carried on by its next statement.           *)
LEMMA Onward ==
  ASSUME server \in {"mysql", "postgresql"},
         NEW c \in Commands, NEW h, IsHost(h), NEW old, IsHost(old), NEW rest,
         Remains(rest, Statements(c)), rest # <<>>, Accepts(h, Head(rest)), SoFar(c, old, h, rest)
  PROVE  SoFar(c, old, After(h, Head(rest)), Tail(rest))
<1> DEFINE X == StatementsFor(c)
<1>1. PICK all \in Seq(X) : all = Statements(c)
  BY StatementsTyped
<1>2. PICK n \in Nat : n = Len(all) - Len(rest) /\ n < Len(all) /\ Len(all) - Len(Tail(rest)) = n + 1
                       /\ Head(rest) = all[n + 1] /\ Remains(Tail(rest), all)
  <2>1. /\ rest \in Seq(X) /\ Len(rest) \in 0 .. Len(all)
        /\ Head(rest) = all[Len(all) - Len(rest) + 1]
        /\ Len(rest) > 0 /\ Remains(Tail(rest), all)
        /\ Len(Tail(rest)) = Len(rest) - 1
    BY <1>1, RestRemains
  <2>2. Len(all) \in Nat
    BY <1>1
  <2>3. /\ Len(all) - Len(rest) \in Nat /\ Len(all) - Len(rest) < Len(all)
        /\ Len(all) - Len(Tail(rest)) = (Len(all) - Len(rest)) + 1
    BY <2>1, <2>2
  <2>4. QED
    BY <2>1, <2>3
<1>3. PICK s : s = Head(rest)
  OBVIOUS
<1>4. s \in X
  <2>1. n + 1 \in 1 .. Len(all)
    BY <1>1, <1>2
  <2>2. QED
    BY <1>1, <1>2, <1>3, <2>1
<1> HIDE DEF X
<1>5. IsHost(After(h, s)) /\ After(h, s).tables = h.tables
  BY <1>3, <1>4, AfterHost DEF X
<1>6. old.tables \subseteq h.tables
  BY DEF SoFar
<1>7. CASE c.op \in {"grant", "revoke"}
  <2>1. PICK counted \in TablesCounted(old, h) :
          h.facts = Changed(c.op, old.facts, FirstGive(all, n, counted)) /\ h.accounts = old.accounts
    BY <1>1, <1>2, <1>7 DEF SoFar, Sent, FirstGive
  <2>2. After(h, s).facts = Changed(c.op, h.facts, Given(s, h.tables)) /\ After(h, s).accounts = h.accounts
    BY <1>4, <1>7, GrantChanges DEF X
  <2>3. TablesOnce(all)
    BY <1>1, <1>7, PromiseIsGiven
  <2>4. PICK tables \in SUBSET h.tables :
          /\ old.tables \subseteq tables
          /\ FirstGive(all, n, counted) \cup Given(all[n + 1], h.tables) = FirstGive(all, n + 1, tables)
    <3>1. counted \in SUBSET h.tables /\ old.tables \subseteq counted
      BY <2>1 DEF TablesCounted
    <3>2. PICK now : now = h.tables
      OBVIOUS
    <3>3. \/ FirstGive(all, n, counted) \cup Given(all[n + 1], now) = FirstGive(all, n + 1, now)
          \/ FirstGive(all, n, counted) \cup Given(all[n + 1], now) = FirstGive(all, n + 1, counted)
      <4>1. n < Len(all) /\ TablesOnce(all)
        BY <1>2, <2>3
      <4>2. QED
        BY <1>1, <4>1, TablesAreChosen
    <3>4. QED
      BY <1>6, <3>1, <3>2, <3>3
  <2>5. After(h, s).facts = Changed(c.op, old.facts, FirstGive(all, n + 1, tables))
    BY <1>2, <1>3, <2>1, <2>2, <2>4, ChangedTwice
  <2>6. After(h, s).facts = Changed(c.op, old.facts, Sent(c, Tail(rest), tables))
    BY <1>1, <1>2, <2>5 DEF Sent, FirstGive
  <2>7. tables \in TablesCounted(old, After(h, s))
    BY <1>5, <2>4 DEF TablesCounted
  <2>8. QED
    BY <1>3, <1>5, <1>6, <1>7, <2>1, <2>2, <2>6, <2>7 DEF SoFar
<1>8. CASE c.op \notin {"grant", "revoke"}
  <2>1. all = <<Statement(c.op, c.who, c.on, {})>>
    BY <1>1, <1>8, OneOfThem
  <2>2. Len(all) = 1 /\ all[1] = Statement(c.op, c.who, c.on, {})
    BY <2>1
  <2>3. s = Statement(c.op, c.who, c.on, {})
    BY <1>2, <1>3, <2>2
  <2>4. s.on = c.on
    BY <2>3 DEF Statement
  <2>5. TookEffect(c, old, After(h, s))
    BY <1>3, <1>4, <1>8, <2>4, OneStatementIsEnough DEF X
  <2>6. QED
    BY <1>3, <1>5, <1>6, <1>8, <2>5 DEF SoFar
<1>9. QED
  BY <1>7, <1>8

(* Tables that come to be take nothing back.                               *)
LEMMA MoreTables ==
  ASSUME NEW c \in Commands, NEW h \in Hosts, NEW old, NEW rest, NEW t, SoFar(c, old, h, rest)
  PROVE  SoFar(c, old, [h EXCEPT !.tables = @ \cup {t}], rest)
<1>1. PICK new : new = [h EXCEPT !.tables = @ \cup {t}]
  OBVIOUS
<1>2. /\ new.accounts = h.accounts /\ new.locked = h.locked /\ new.facts = h.facts
      /\ new.databases = h.databases /\ new.tables = h.tables \cup {t}
  BY <1>1 DEF Hosts
<1>3. \A tables \in TablesCounted(old, h) : tables \in TablesCounted(old, new)
  BY <1>2 DEF TablesCounted
<1>4. CASE c.op \in {"grant", "revoke"}
  BY <1>1, <1>2, <1>3, <1>4 DEF SoFar
<1>5. CASE c.op \notin {"grant", "revoke"}
  <2>1. TookEffect(c, old, h) => TookEffect(c, old, new)
    BY <1>2, <1>5, CommandsAssumption DEF TookEffect, AccountOps, DatabaseOps
  <2>2. QED
    BY <1>1, <1>2, <1>5, <2>1 DEF SoFar
<1>6. QED
  BY <1>4, <1>5

(* At the start of a command nothing is changed.                           *)
LEMMA AtFirst ==
  ASSUME NEW c \in Commands, NEW h
  PROVE  SoFar(c, h, h, Statements(c))
<1>1. Len(Statements(c)) \in Nat
  BY StatementsTyped
<1>2. \A tables : Sent(c, Statements(c), tables) = {}
  <2>1. 1 .. Len(Statements(c)) - Len(Statements(c)) = {}
    BY <1>1
  <2>2. QED
    BY <2>1 DEF Sent
<1>3. CASE c.op \in {"grant", "revoke"}
  <2>1. h.tables \in TablesCounted(h, h)
    BY DEF TablesCounted
  <2>2. h.facts = Changed(c.op, h.facts, Sent(c, Statements(c), h.tables))
    BY <1>2, ChangedTwice
  <2>3. QED
    BY <1>3, <2>1, <2>2 DEF SoFar
<1>4. CASE c.op \notin {"grant", "revoke"}
  <2>1. Statements(c) = <<Statement(c.op, c.who, c.on, {})>>
    BY <1>4, OneOfThem
  <2>2. Statements(c) # <<>>
    BY <2>1
  <2>3. QED
    BY <1>4, <2>2 DEF SoFar
<1>5. QED
  BY <1>3, <1>4

(* What a step of one session leaves of the others: their part of the      *)
(* invariant, unless it has changed the server.                            *)
LEMMA Kept ==
  ASSUME server' = server, NEW c \in Commands, NEW old, NEW new, NEW rest, SoFar(c, old, new, rest),
         NEW a \in Admins, command'[a] = c, before'[a] = old, host' = new, todo'[a] = rest
  PROVE  SoFar(command[a], before[a], host, todo[a])'
<1>1. Statements(command[a])' = Statements(c)
  BY DEF Statements
<1>2. PICK all : all = Statements(c)
  OBVIOUS
<1>3. \A tables : Sent(c, rest, tables) = UNION {Given(all[i], tables) : i \in 1 .. Len(all) - Len(rest)}
  BY <1>2 DEF Sent
<1>4. ASSUME NEW tables
      PROVE  Sent(command[a], todo[a], tables)'
               = UNION {Given(all[i], tables) : i \in 1 .. Len(all) - Len(rest)}
  BY <1>1, <1>2, Zenon DEF Sent
<1>5. \A tables : Sent(command[a], todo[a], tables)' = Sent(c, rest, tables)
  BY <1>3, <1>4
<1>6. CASE c.op \in {"grant", "revoke"}
  BY <1>5, <1>6 DEF SoFar
<1>7. CASE c.op \notin {"grant", "revoke"}
  <2>1. c.op \in AccountOps \cup DatabaseOps
    BY CommandsAssumption
  <2>2. TookEffect(c, old, new) => TookEffect(command[a], before[a], host)'
    BY <1>7, <2>1 DEF TookEffect, AccountOps, DatabaseOps
  <2>3. QED
    BY <1>7, <2>2 DEF SoFar
<1>8. QED
  BY <1>6, <1>7

LEMMA InitInvariant == ASSUME Init PROVE AdministrationInvariant
<1>1. IsHost(host) /\ host.accounts = Accounts /\ host.locked \subseteq Applications
  BY FirstFactsAssumption, TargetsAssumption DEF Init, IsHost, Hosts, Facts, Accounts
<1>2. \A a \in Admins : phase[a] = "idle" /\ before[a] = host
  BY DEF Init
<1>3. (CHOOSE c \in Commands : TRUE) \in Commands
  BY CommandsAssumption
<1>4. 0 <= MaxCommands /\ MaxCommands \in Nat
  BY MaxCommandsAssumption
<1>5. /\ phase \in [Admins -> Busy \cup {"idle", "ok", "failed", "refused"}]
      /\ command \in [Admins -> Commands] /\ alone \in [Admins -> BOOLEAN]
      /\ DOMAIN todo = Admins /\ DOMAIN before = Admins
      /\ server \in {"mysql", "postgresql"} /\ exposed \in BOOLEAN /\ left \in 0 .. MaxCommands
  <2>1. PICK d \in Commands : d = CHOOSE c \in Commands : TRUE
    BY <1>3
  <2>2. command = [a \in Admins |-> d]
    BY <2>1 DEF Init
  <2>3. command \in [Admins -> Commands]
    BY <2>1, <2>2
  <2>4. phase \in [Admins -> Busy \cup {"idle", "ok", "failed", "refused"}] /\ alone \in [Admins -> BOOLEAN]
    BY DEF Init
  <2>5. DOMAIN todo = Admins /\ DOMAIN before = Admins
    BY DEF Init
  <2>6. server \in {"mysql", "postgresql"} /\ exposed \in BOOLEAN /\ left \in 0 .. MaxCommands
    <3>1. left = MaxCommands /\ exposed = FALSE /\ server \in {"mysql", "postgresql"}
      BY Zenon DEF Init
    <3>2. left \in 0 .. MaxCommands
      BY <1>4, <3>1
    <3>3. exposed \in BOOLEAN
      BY <3>1, Zenon
    <3>4. QED
      BY <3>1, <3>2, <3>3, Zenon
  <2>7. QED
    BY <2>3, <2>4, <2>5, <2>6
<1>6. TypeOK
  BY <1>1, <1>2, <1>5 DEF TypeOK
<1>7. Unexposed /\ \A a \in Admins : phase[a] \notin Busy \cup {"ok"}
  BY <1>2 DEF Unexposed, Busy
<1>8. AnAdministratorRemains
  <2>1. PICK a \in Admins : a \notin Applications
    BY AdminsAssumption
  <2>2. QED
    BY <1>1, <2>1 DEF AnAdministratorRemains, Accounts
<1>9. QED
  BY <1>6, <1>7, <1>8 DEF AdministrationInvariant

(* A command is given.                                                     *)
LEMMA BeginKeeps ==
  ASSUME AdministrationInvariant, NEW a \in Admins, NEW c \in Commands, Begin(a, c)
  PROVE  AdministrationInvariant'
<1>1. /\ TypeOK /\ (exposed \/ Unexposed) /\ AnAdministratorRemains
      /\ \A b \in Admins : phase[b] \in Busy \cup {"ok"} /\ alone[b] =>
           SoFar(command[b], before[b], host, todo[b])
  BY DEF AdministrationInvariant
<1>2. /\ phase \in [Admins -> Busy \cup {"idle", "ok", "failed", "refused"}]
      /\ command \in [Admins -> Commands] /\ alone \in [Admins -> BOOLEAN]
      /\ DOMAIN todo = Admins /\ DOMAIN before = Admins /\ exposed \in BOOLEAN /\ left \in 0 .. MaxCommands
  BY <1>1 DEF TypeOK
<1>3. /\ server' = server /\ host' = host
      /\ \A b \in Admins : b # a => /\ phase'[b] = phase[b] /\ command'[b] = command[b]
                                    /\ todo'[b] = todo[b] /\ before'[b] = before[b] /\ alone'[b] = alone[b]
  BY <1>2 DEF Begin
<1>4. /\ command'[a] = c /\ todo'[a] = Statements(c) /\ before'[a] = host
      /\ phase'[a] \in {"refused", "connected", "failed"}
      /\ phase'[a] = "connected" => a \in host.accounts \ host.locked
  BY <1>2 DEF Begin
<1>5. TypeOK'
  <2>1. /\ phase' \in [Admins -> Busy \cup {"idle", "ok", "failed", "refused"}]
        /\ command' \in [Admins -> Commands] /\ alone' \in [Admins -> BOOLEAN]
        /\ DOMAIN todo' = Admins /\ DOMAIN before' = Admins
    BY <1>2 DEF Begin, Busy
  <2>2. exposed' \in BOOLEAN /\ left' \in 0 .. MaxCommands
    BY <1>2, MaxCommandsAssumption DEF Begin
  <2>3. server \in {"mysql", "postgresql"} /\ IsHost(host)
    BY <1>1 DEF TypeOK
  <2>4. Remains(Statements(c), Statements(c))
    BY StatementsTyped, AllRemain
  <2>5. ASSUME NEW b \in Admins
        PROVE  /\ phase'[b] \in {"connected", "refused"} => todo'[b] = Statements(command[b])'
               /\ phase'[b] # "idle" => Remains(todo'[b], Statements(command[b])')
               /\ phase'[b] = "ok" => todo'[b] = <<>>
               /\ IsHost(before'[b])
    <3>1. Statements(command[b])' = Statements(IF b = a THEN c ELSE command[b])
      BY <1>3, <1>4 DEF Statements
    <3>2. CASE b = a
      BY <1>3, <1>4, <2>3, <2>4, <3>1, <3>2
    <3>3. CASE b # a
      BY <1>1, <1>3, <3>1, <3>3 DEF TypeOK
    <3>4. QED
      BY <3>2, <3>3
  <2>6. IsHost(host')
    BY <1>3, <2>3
  <2>7. server' \in {"mysql", "postgresql"}
    BY <1>3, <2>3
  <2>8. QED
    BY <2>1, <2>2, <2>5, <2>6, <2>7 DEF TypeOK
<1>6. ASSUME NEW b \in Admins, phase'[b] \in Busy \cup {"ok"}, alone'[b]
      PROVE  SoFar(command[b], before[b], host, todo[b])'
  <2>0. PICK d \in Commands : d = command'[b]
    BY <1>2, <1>3, <1>4
  <2>1. PICK old, new, rest : old = before'[b] /\ new = host' /\ rest = todo'[b]
    OBVIOUS
  <2>2. CASE b = a
    BY <1>3, <1>4, <2>0, <2>1, <2>2, AtFirst, Kept
  <2>3. CASE b # a
    <3>1. SoFar(d, old, new, rest)
      BY <1>1, <1>3, <1>6, <2>0, <2>1, <2>3
    <3>2. QED
      BY <1>3, <2>0, <2>1, <3>1, Kept
  <2>4. QED
    BY <2>2, <2>3
<1>7. (exposed \/ Unexposed)'
  <2>1. SUFFICES ASSUME ~exposed' PROVE Unexposed'
    OBVIOUS
  <2>2. c.spelled = "as_stored" /\ \A b \in Admins : b # a => phase[b] \notin Busy
    BY <2>1, CommandsAssumption DEF Begin, Others
  <2>3. QED
    BY <1>3, <1>4, <2>2 DEF Unexposed, Busy
<1>8. AnAdministratorRemains'
  BY <1>1, <1>3 DEF AnAdministratorRemains, Begin
<1>9. QED
  BY <1>5, <1>6, <1>7, <1>8 DEF AdministrationInvariant

(* A step of a session at work, by what it does.                           *)
LEMMA SessionStep ==
  ASSUME AdministrationInvariant, NEW a \in Admins, phase[a] \in Busy,
         UNCHANGED <<server, command, before, exposed, left>>,
         IsHost(host'), phase' \in [Admins -> Busy \cup {"idle", "ok", "failed", "refused"}],
         alone' \in [Admins -> BOOLEAN], DOMAIN todo' = Admins,
         \A b \in Admins : b # a =>
           phase'[b] = phase[b] /\ todo'[b] = todo[b] /\ (alone'[b] => host' = host /\ alone[b]),
         phase'[a] \notin {"idle", "connected"},
         phase'[a] = "refused" => todo'[a] = Statements(command[a]),
         Remains(todo'[a], Statements(command[a])),
         phase'[a] = "ok" => todo'[a] = <<>>,
         phase'[a] \in Busy \cup {"ok"} /\ alone'[a] => SoFar(command[a], before[a], host', todo'[a]),
         ~exposed => a \in host'.accounts \ host'.locked,
         ~exposed /\ phase'[a] = "running" => command[a].op \notin {"disable", "drop"} \/ command[a].who # a
  PROVE  AdministrationInvariant'
<1>1. /\ TypeOK /\ (exposed \/ Unexposed) /\ AnAdministratorRemains
      /\ \A b \in Admins : phase[b] \in Busy \cup {"ok"} /\ alone[b] =>
           SoFar(command[b], before[b], host, todo[b])
  BY DEF AdministrationInvariant
<1>2. /\ server' = server /\ command' = command /\ before' = before /\ exposed' = exposed /\ left' = left
  OBVIOUS
<1>3. TypeOK'
  <2>1. /\ server' \in {"mysql", "postgresql"} /\ command' \in [Admins -> Commands]
        /\ DOMAIN before' = Admins /\ exposed' \in BOOLEAN /\ left' \in 0 .. MaxCommands
    BY <1>1, <1>2 DEF TypeOK
  <2>2. ASSUME NEW b \in Admins
        PROVE  /\ phase'[b] \in {"connected", "refused"} => todo'[b] = Statements(command[b])'
               /\ phase'[b] # "idle" => Remains(todo'[b], Statements(command[b])')
               /\ phase'[b] = "ok" => todo'[b] = <<>>
               /\ IsHost(before'[b])
    <3>1. Statements(command[b])' = Statements(command[b])
      BY <1>2 DEF Statements
    <3>2. CASE b = a
      <4>1. IsHost(before[b])
        BY <1>1 DEF TypeOK
      <4>2. QED
        BY <1>2, <3>1, <3>2, <4>1
    <3>3. CASE b # a
      BY <1>1, <1>2, <3>1, <3>3 DEF TypeOK
    <3>4. QED
      BY <3>2, <3>3
  <2>3. QED
    BY <2>1, <2>2 DEF TypeOK
<1>4. ASSUME NEW b \in Admins, phase'[b] \in Busy \cup {"ok"}, alone'[b]
      PROVE  SoFar(command[b], before[b], host, todo[b])'
  <2>1. PICK d \in Commands : d = command[b]
    BY <1>1 DEF TypeOK
  <2>2. PICK old, new, rest : old = before[b] /\ new = host' /\ rest = todo'[b]
    OBVIOUS
  <2>3. SoFar(d, old, new, rest)
    <3>1. CASE b = a
      BY <1>4, <2>1, <2>2, <3>1
    <3>2. CASE b # a
      BY <1>1, <1>4, <2>1, <2>2, <3>2
    <3>3. QED
      BY <3>1, <3>2
  <2>4. command'[b] = d /\ before'[b] = old
    BY <1>2, <2>1, <2>2
  <2>5. QED
    BY <1>2, <2>2, <2>3, <2>4, Kept
<1>5. (exposed \/ Unexposed)'
  <2>1. SUFFICES ASSUME ~exposed PROVE Unexposed'
    BY <1>2
  <2>2. \A b \in Admins : b # a => phase'[b] \notin Busy
    BY <1>1, <2>1 DEF Unexposed
  <2>3. command[a].spelled = "as_stored"
    BY <1>1, <2>1 DEF Unexposed
  <2>4. QED
    BY <1>2, <2>1, <2>2, <2>3 DEF Unexposed
<1>6. AnAdministratorRemains'
  BY <1>2 DEF AnAdministratorRemains
<1>7. QED
  BY <1>3, <1>4, <1>5, <1>6 DEF AdministrationInvariant

(* The statement under way is carried out.                                 *)
LEMMA SendKeeps ==
  ASSUME AdministrationInvariant, NEW a \in Admins, phase[a] = "running", todo[a] # <<>>,
         Accepts(host, Head(todo[a])), Send(a, After(host, Head(todo[a])))
  PROVE  /\ IsHost(host') /\ alone' \in [Admins -> BOOLEAN]
         /\ \A b \in Admins : b # a => (alone'[b] => host' = host /\ alone[b])
         /\ alone'[a] => SoFar(command[a], before[a], host', Tail(todo[a]))
         /\ ~exposed => a \in host'.accounts \ host'.locked
<1>1. /\ TypeOK /\ (exposed \/ Unexposed)
      /\ alone[a] => SoFar(command[a], before[a], host, todo[a])
  BY DEF AdministrationInvariant, Busy
<1>2. /\ command[a] \in Commands /\ Head(todo[a]) \in StatementsFor(command[a])
      /\ IsHost(host) /\ IsHost(before[a]) /\ alone \in [Admins -> BOOLEAN]
      /\ Remains(todo[a], Statements(command[a])) /\ server \in {"mysql", "postgresql"}
  BY <1>1, TheNext DEF TypeOK
<1>3. PICK h, old, rest : h = host /\ old = before[a] /\ rest = todo[a]
  OBVIOUS
<1>a. PICK d \in Commands : d = command[a]
  BY <1>2
<1>4. PICK new : new = After(h, Head(rest))
  OBVIOUS
<1>5. host' = new /\ IsHost(new)
  BY <1>2, <1>3, <1>a, <1>4, AfterHost DEF Send
<1>6. /\ alone' \in [Admins -> BOOLEAN]
      /\ \A b \in Admins : b # a => (alone'[b] => host' = host /\ alone[b])
      /\ alone'[a] => alone[a]
  BY <1>2 DEF Send
<1>7. alone'[a] => SoFar(d, old, new, Tail(rest))
  BY <1>1, <1>2, <1>3, <1>a, <1>4, <1>6, Onward
<1>8. ASSUME ~exposed PROVE a \in new.accounts \ new.locked
  <2>1. a \in h.accounts \ h.locked /\ (d.op \notin {"disable", "drop"} \/ d.who # a)
    BY <1>1, <1>3, <1>a, <1>8 DEF Unexposed, Busy
  <2>2. PICK s \in StatementsFor(d) : s = Head(rest)
    BY <1>2, <1>3, <1>a
  <2>3. QED
    BY <1>2, <1>3, <1>a, <1>4, <2>1, <2>2, StaysOpen
<1>9. QED
  BY <1>3, <1>a, <1>5, <1>6, <1>7, <1>8

LEMMA CheckKeeps ==
  ASSUME AdministrationInvariant, NEW a \in Admins, Check(a)
  PROVE  AdministrationInvariant'
<1>1. /\ TypeOK /\ (exposed \/ Unexposed)
      /\ phase[a] \in Busy /\ alone[a] => SoFar(command[a], before[a], host, todo[a])
  BY DEF AdministrationInvariant
<1>2. /\ UNCHANGED <<server, command, before, exposed, left>>
      /\ host' = host /\ todo' = todo /\ alone' = alone /\ phase[a] = "connected" /\ phase[a] \in Busy
      /\ phase'[a] \in {"refused", "running"} /\ \A b \in Admins : b # a => phase'[b] = phase[b]
      /\ phase' \in [Admins -> Busy \cup {"idle", "ok", "failed", "refused"}]
      /\ phase'[a] = "running" => ~(Guards(command[a]) /\ IsCurrent(command[a], a))
  BY <1>1 DEF Check, TypeOK, Busy
<1>3. /\ IsHost(host) /\ alone \in [Admins -> BOOLEAN] /\ DOMAIN todo = Admins
      /\ todo[a] = Statements(command[a]) /\ Remains(todo[a], Statements(command[a]))
      /\ server \in {"mysql", "postgresql"}
  BY <1>1, <1>2 DEF TypeOK
<1>4. ~exposed => a \in host.accounts \ host.locked /\ command[a].spelled = "as_stored"
  BY <1>1, <1>2 DEF Unexposed
<1>5. ~exposed /\ phase'[a] = "running" => command[a].op \notin {"disable", "drop"} \/ command[a].who # a
  BY <1>2, <1>3, <1>4 DEF Guards, IsCurrent, MysqlGuards, PostgresGuards, MysqlIsCurrent, PostgresIsCurrent
<1>6. QED
  BY <1>1, <1>2, <1>3, <1>4, <1>5, SessionStep

LEMMA ReturnKeeps ==
  ASSUME AdministrationInvariant, NEW a \in Admins, Return(a)
  PROVE  AdministrationInvariant'
<1>1. /\ TypeOK /\ (exposed \/ Unexposed)
      /\ phase[a] \in Busy /\ alone[a] => SoFar(command[a], before[a], host, todo[a])
  BY DEF AdministrationInvariant
<1>2. /\ UNCHANGED <<server, command, before, exposed, left>>
      /\ host' = host /\ todo' = todo /\ alone' = alone /\ phase[a] \in Busy /\ todo[a] = <<>>
      /\ phase[a] = "running" /\ phase'[a] = "ok" /\ \A b \in Admins : b # a => phase'[b] = phase[b]
      /\ phase' \in [Admins -> Busy \cup {"idle", "ok", "failed", "refused"}]
  BY <1>1 DEF Return, TypeOK, Busy
<1>3. /\ IsHost(host) /\ alone \in [Admins -> BOOLEAN] /\ DOMAIN todo = Admins
      /\ Remains(todo[a], Statements(command[a]))
  BY <1>1, <1>2 DEF TypeOK
<1>4. ~exposed => a \in host.accounts \ host.locked
  BY <1>1, <1>2 DEF Unexposed
<1>5. QED
  BY <1>1, <1>2, <1>3, <1>4, SessionStep

LEMMA ExecuteKeeps ==
  ASSUME AdministrationInvariant, NEW a \in Admins, Execute(a)
  PROVE  AdministrationInvariant'
<1>1. /\ TypeOK /\ (exposed \/ Unexposed)
  BY DEF AdministrationInvariant
<1>2. /\ UNCHANGED <<server, command, before, exposed, left>>
      /\ phase[a] = "running" /\ phase[a] \in Busy /\ todo[a] # <<>>
  BY DEF Execute, Send, Busy
<1>3. /\ IsHost(host) /\ alone \in [Admins -> BOOLEAN] /\ DOMAIN todo = Admins
      /\ phase \in [Admins -> Busy \cup {"idle", "ok", "failed", "refused"}]
      /\ Remains(todo[a], Statements(command[a]))
  BY <1>1, <1>2 DEF TypeOK
<1>4. ~exposed => /\ a \in host.accounts \ host.locked
                  /\ command[a].op \notin {"disable", "drop"} \/ command[a].who # a
  BY <1>1, <1>2 DEF Unexposed
<1>5. CASE Accepts(host, Head(todo[a]))
  <2>1. /\ Send(a, After(host, Head(todo[a])))
        /\ todo' = [todo EXCEPT ![a] = Tail(@)] /\ phase' = phase
    BY <1>5 DEF Execute
  <2>2. /\ IsHost(host') /\ alone' \in [Admins -> BOOLEAN]
        /\ \A b \in Admins : b # a => (alone'[b] => host' = host /\ alone[b])
        /\ alone'[a] => SoFar(command[a], before[a], host', Tail(todo[a]))
        /\ ~exposed => a \in host'.accounts \ host'.locked
    BY <1>2, <1>5, <2>1, SendKeeps
  <2>3. /\ DOMAIN todo' = Admins /\ todo'[a] = Tail(todo[a])
        /\ \A b \in Admins : b # a => todo'[b] = todo[b] /\ phase'[b] = phase[b]
    BY <1>3, <2>1
  <2>4. Remains(todo'[a], Statements(command[a]))
    BY <1>1, <1>2, <2>3, TheNext
  <2>5. QED
    BY <1>2, <1>3, <1>4, <2>1, <2>2, <2>3, <2>4, SessionStep
<1>6. CASE ~Accepts(host, Head(todo[a]))
  <2>1. /\ host' = host /\ alone' = alone /\ todo' = todo
        /\ phase' = [phase EXCEPT ![a] = "failed"]
    BY <1>6 DEF Execute, Send
  <2>2. /\ phase'[a] = "failed" /\ \A b \in Admins : b # a => phase'[b] = phase[b]
        /\ phase' \in [Admins -> Busy \cup {"idle", "ok", "failed", "refused"}]
        /\ "failed" \notin Busy
    BY <1>3, <2>1 DEF Busy
  <2>3. QED
    BY <1>2, <1>3, <1>4, <2>1, <2>2, SessionStep
<1>7. QED
  BY <1>5, <1>6

LEMMA LoseKeeps ==
  ASSUME AdministrationInvariant, NEW a \in Admins, Lose(a)
  PROVE  AdministrationInvariant'
<1>1. /\ TypeOK /\ (exposed \/ Unexposed)
  BY DEF AdministrationInvariant
<1>2. /\ UNCHANGED <<server, command, before, exposed, left>>
      /\ phase[a] \in Busy /\ phase[a] # "idle" /\ todo' = todo
      /\ phase' = [phase EXCEPT ![a] = "failed"]
  BY DEF Lose, Send, Busy
<1>3. /\ IsHost(host) /\ alone \in [Admins -> BOOLEAN] /\ DOMAIN todo = Admins
      /\ phase \in [Admins -> Busy \cup {"idle", "ok", "failed", "refused"}]
      /\ Remains(todo[a], Statements(command[a]))
  BY <1>1, <1>2 DEF TypeOK
<1>4. /\ phase'[a] = "failed" /\ \A b \in Admins : b # a => phase'[b] = phase[b]
      /\ phase' \in [Admins -> Busy \cup {"idle", "ok", "failed", "refused"}]
      /\ "failed" \notin Busy
  BY <1>2, <1>3 DEF Busy
<1>5. ~exposed => a \in host.accounts \ host.locked
  BY <1>1, <1>2 DEF Unexposed
<1>6. /\ IsHost(host') /\ alone' \in [Admins -> BOOLEAN]
      /\ \A b \in Admins : b # a => (alone'[b] => host' = host /\ alone[b])
      /\ ~exposed => a \in host'.accounts \ host'.locked
  <2>1. CASE Send(a, host)
    BY <1>3, <1>5, <2>1 DEF Send
  <2>2. CASE /\ phase[a] = "running" /\ todo[a] # <<>>
             /\ Accepts(host, Head(todo[a]))
             /\ Send(a, After(host, Head(todo[a])))
    BY <2>2, SendKeeps
  <2>3. QED
    BY <2>1, <2>2 DEF Lose
<1>7. QED
  BY <1>2, <1>3, <1>4, <1>6, SessionStep

LEMMA CreateTableKeeps ==
  ASSUME AdministrationInvariant, CreateTable
  PROVE  AdministrationInvariant'
<1>1. /\ TypeOK /\ (exposed \/ Unexposed) /\ AnAdministratorRemains
      /\ \A b \in Admins : phase[b] \in Busy \cup {"ok"} /\ alone[b] =>
           SoFar(command[b], before[b], host, todo[b])
  BY DEF AdministrationInvariant
<1>2. UNCHANGED <<server, phase, command, todo, before, alone, exposed, left>>
  BY DEF CreateTable
<1>3. IsHost(host)
  BY <1>1 DEF TypeOK
<1>a. PICK t \in Tables \ host.tables : host' = [host EXCEPT !.tables = @ \cup {t}]
  BY DEF CreateTable
<1>b. PICK h \in Hosts : h = host
  BY <1>3 DEF IsHost
<1>4. PICK new : h = host /\ new = [h EXCEPT !.tables = @ \cup {t}] /\ host' = new
  BY <1>a, <1>b
<1>5. /\ IsHost(new) /\ new.accounts = host.accounts /\ new.locked = host.locked
  BY <1>3, <1>4 DEF IsHost, Hosts
<1>6. TypeOK'
  <2>1. /\ server' \in {"mysql", "postgresql"} /\ IsHost(host')
        /\ phase' \in [Admins -> Busy \cup {"idle", "ok", "failed", "refused"}]
        /\ command' \in [Admins -> Commands] /\ alone' \in [Admins -> BOOLEAN]
        /\ DOMAIN todo' = Admins /\ DOMAIN before' = Admins
        /\ exposed' \in BOOLEAN /\ left' \in 0 .. MaxCommands
    BY <1>1, <1>2, <1>4, <1>5 DEF TypeOK
  <2>2. ASSUME NEW b \in Admins
        PROVE  /\ phase'[b] \in {"connected", "refused"} => todo'[b] = Statements(command[b])'
               /\ phase'[b] # "idle" => Remains(todo'[b], Statements(command[b])')
               /\ phase'[b] = "ok" => todo'[b] = <<>>
               /\ IsHost(before'[b])
    <3>1. Statements(command[b])' = Statements(command[b])
      BY <1>2 DEF Statements
    <3>2. QED
      BY <1>1, <1>2, <3>1 DEF TypeOK
  <2>3. QED
    BY <2>1, <2>2 DEF TypeOK
<1>7. ASSUME NEW b \in Admins, phase'[b] \in Busy \cup {"ok"}, alone'[b]
      PROVE  SoFar(command[b], before[b], host, todo[b])'
  <2>1. PICK d \in Commands : d = command[b]
    BY <1>1 DEF TypeOK
  <2>2. PICK old, rest : old = before[b] /\ rest = todo[b]
    OBVIOUS
  <2>3. SoFar(d, old, h, rest)
    BY <1>1, <1>2, <1>4, <1>7, <2>1, <2>2
  <2>4. SoFar(d, old, new, rest)
    BY <1>4, <2>3, MoreTables
  <2>5. command'[b] = d /\ before'[b] = old /\ todo'[b] = rest /\ server' = server
    BY <1>2, <2>1, <2>2
  <2>6. QED
    BY <1>4, <2>4, <2>5, Kept
<1>8. (exposed \/ Unexposed)' /\ AnAdministratorRemains'
  BY <1>1, <1>2, <1>4, <1>5 DEF Unexposed, AnAdministratorRemains
<1>9. QED
  BY <1>6, <1>7, <1>8 DEF AdministrationInvariant

LEMMA StutterKeeps ==
  ASSUME AdministrationInvariant, UNCHANGED vars
  PROVE  AdministrationInvariant'
<1>1. /\ TypeOK /\ (exposed \/ Unexposed) /\ AnAdministratorRemains
      /\ \A b \in Admins : phase[b] \in Busy \cup {"ok"} /\ alone[b] =>
           SoFar(command[b], before[b], host, todo[b])
  BY DEF AdministrationInvariant
<1>2. UNCHANGED <<server, host, phase, command, todo, before, alone, exposed, left>>
  BY DEF vars
<1>3. TypeOK'
  BY <1>1, <1>2 DEF TypeOK, Statements
<1>4. ASSUME NEW b \in Admins, phase'[b] \in Busy \cup {"ok"}, alone'[b]
      PROVE  SoFar(command[b], before[b], host, todo[b])'
  <2>1. PICK d \in Commands : d = command[b]
    BY <1>1 DEF TypeOK
  <2>2. PICK old, new, rest : old = before[b] /\ new = host /\ rest = todo[b]
    OBVIOUS
  <2>3. SoFar(d, old, new, rest)
    BY <1>1, <1>2, <1>4, <2>1, <2>2
  <2>4. QED
    BY <1>2, <2>1, <2>2, <2>3, Kept
<1>5. (exposed \/ Unexposed)' /\ AnAdministratorRemains'
  BY <1>1, <1>2 DEF Unexposed, AnAdministratorRemains
<1>6. QED
  BY <1>3, <1>4, <1>5 DEF AdministrationInvariant

-----------------------------------------------------------------------------
(* The administration invariant holds for any accounts, databases, tables  *)
(* and commands, whatever the administrators do and wherever the           *)
(* connections break.                                                      *)
THEOREM AdministrationInvariantHolds == Spec => []AdministrationInvariant
<1>1. Init => AdministrationInvariant
  BY InitInvariant
<1>2. AdministrationInvariant /\ [Next]_vars => AdministrationInvariant'
  <2>1. SUFFICES ASSUME AdministrationInvariant, [Next]_vars PROVE AdministrationInvariant'
    OBVIOUS
  <2>2. CASE UNCHANGED vars
    BY <2>1, <2>2, StutterKeeps
  <2>3. ASSUME NEW a \in Admins, NEW c \in Commands, Begin(a, c) PROVE AdministrationInvariant'
    BY <2>1, <2>3, BeginKeeps
  <2>4. ASSUME NEW a \in Admins, Check(a) PROVE AdministrationInvariant'
    BY <2>1, <2>4, CheckKeeps
  <2>5. ASSUME NEW a \in Admins, Execute(a) PROVE AdministrationInvariant'
    BY <2>1, <2>5, ExecuteKeeps
  <2>6. ASSUME NEW a \in Admins, Lose(a) PROVE AdministrationInvariant'
    BY <2>1, <2>6, LoseKeeps
  <2>7. ASSUME NEW a \in Admins, Return(a) PROVE AdministrationInvariant'
    BY <2>1, <2>7, ReturnKeeps
  <2>8. CASE CreateTable
    BY <2>1, <2>8, CreateTableKeeps
  <2>9. CASE Done
    BY <2>1, <2>2, <2>9 DEF Done
  <2>10. QED
    BY <2>1, <2>2, <2>3, <2>4, <2>5, <2>6, <2>7, <2>8, <2>9 DEF Next
<1>3. QED
  BY <1>1, <1>2, PTL DEF Spec

(* A grant, a revocation or any other command that reports success took    *)
(* effect in all its parts, unless another administrator came in between:  *)
(* what the statements of a profile give together is what the profile      *)
(* promises (_change_profile, _profile_statements).                        *)
THEOREM SuccessAlwaysHolds == Spec => []SuccessHolds
<1>1. AdministrationInvariant => SuccessHolds
  <2>1. SUFFICES ASSUME AdministrationInvariant, NEW a \in Admins, phase[a] = "ok", alone[a]
                 PROVE  TookEffect(command[a], before[a], host)
    BY DEF AdministrationInvariant, SuccessHolds, ReportedSuccessHolds
  <2>2. SoFar(command[a], before[a], host, todo[a]) /\ TypeOK
    BY <2>1 DEF AdministrationInvariant
  <2>3. /\ command[a] \in Commands /\ todo[a] = <<>> /\ server \in {"mysql", "postgresql"}
        /\ host.tables \subseteq Tables
    BY <2>1, <2>2 DEF TypeOK, IsHost, Hosts
  <2>4. PICK c \in Commands : c = command[a]
    BY <2>3
  <2>5. CASE c.op \in {"grant", "revoke"}
    <3>1. PICK tables \in TablesCounted(before[a], host) :
            /\ host.facts = Changed(c.op, before[a].facts, Sent(c, <<>>, tables))
            /\ host.accounts = before[a].accounts
      BY <2>2, <2>3, <2>4, <2>5 DEF SoFar
    <3>2. tables \in SUBSET Tables
      BY <2>3, <3>1 DEF TablesCounted
    <3>3. AllGiven(Statements(c), tables) = Promise(c, tables)
      BY <2>3, <2>5, <3>2, PromiseIsGiven
    <3>4. PICK all : all = Statements(c)
      OBVIOUS
    <3>5. Len(all) - Len(<<>>) = Len(all)
      <4>1. Len(all) \in Nat /\ Len(<<>>) = 0
        BY <3>4, StatementsTyped
      <4>2. QED
        BY <4>1
    <3>6. Sent(c, <<>>, tables) = AllGiven(all, tables)
      BY <3>4, <3>5 DEF Sent, AllGiven
    <3>7. QED
      BY <2>4, <2>5, <3>1, <3>3, <3>4, <3>6 DEF TookEffect
  <2>6. CASE c.op \notin {"grant", "revoke"}
    BY <2>2, <2>3, <2>4, <2>6 DEF SoFar
  <2>7. QED
    BY <2>5, <2>6
<1>2. QED
  BY <1>1, AdministrationInvariantHolds, PTL

(* Administrators who work one after the other cannot lock themselves out  *)
(* together (_reject_current_account, _reject_current_role).               *)
THEOREM SomebodyCanConnect == Spec => []AnAdministratorRemains
<1>1. AdministrationInvariant => AnAdministratorRemains
  BY DEF AdministrationInvariant
<1>2. QED
  BY <1>1, AdministrationInvariantHolds, PTL

-----------------------------------------------------------------------------
(* All statements of a command in one go.                                  *)

LEMMA LessThanIsWellFounded ==
  \E R : IsWellFoundedOn(R, Nat) /\ (\A x, y \in Nat : <<x, y>> \in R <=> x < y)
<1>1. \A x, y \in Nat : <<x, y>> \in OpToRel(<, Nat) <=> x < y
  BY DEF OpToRel
<1>2. QED
  BY <1>1, NatLessThanWellFounded, Zenon

LEMMA LeastNumber ==
  ASSUME NEW N \in SUBSET Nat, N # {}
  PROVE  \E m \in N : \A n \in N : m <= n
<1>1. PICK R : IsWellFoundedOn(R, Nat) /\ (\A x, y \in Nat : <<x, y>> \in R <=> x < y)
  BY LessThanIsWellFounded, Zenon
<1>2. \E m \in N : \A n \in N : ~(<<n, m>> \in R)
  <2>1. IsWellFoundedOn(R, Nat) /\ N \subseteq Nat
    BY <1>1, Zenon
  <2>2. QED
    BY <2>1, WFMin, Zenon
<1>a. PICK m \in N : \A n \in N : ~(<<n, m>> \in R)
  BY <1>2, Zenon
<1>3. \A n \in N : ~(n < m)
  BY <1>1, <1>a, Zenon
<1>4. QED
  BY <1>3

(* What a run of statements has reached after n of them.                   *)
IsRun(f, h, S) ==
  f = [n \in 0 .. Len(S) |-> IF n = 0 THEN [ok |-> TRUE, host |-> h] ELSE Attempt(f[n - 1], S[n])]

LEMMA OneRunOnly ==
  ASSUME NEW h, NEW S, Len(S) \in Nat, NEW f, NEW g, IsRun(f, h, S), IsRun(g, h, S)
  PROVE  f = g
<1> DEFINE D == 0 .. Len(S)
<1>1. /\ f = [n \in D |-> IF n = 0 THEN [ok |-> TRUE, host |-> h] ELSE Attempt(f[n - 1], S[n])]
      /\ g = [n \in D |-> IF n = 0 THEN [ok |-> TRUE, host |-> h] ELSE Attempt(g[n - 1], S[n])]
  BY DEF IsRun
<1>2. \A n \in D : /\ f[n] = IF n = 0 THEN [ok |-> TRUE, host |-> h] ELSE Attempt(f[n - 1], S[n])
                   /\ g[n] = IF n = 0 THEN [ok |-> TRUE, host |-> h] ELSE Attempt(g[n - 1], S[n])
  BY <1>1
<1>3. ASSUME NEW n \in D, f[n] # g[n] PROVE FALSE
  <2> DEFINE N == {k \in D : f[k] # g[k]}
  <2>1. N \in SUBSET Nat /\ N # {}
    BY <1>3
  <2> HIDE DEF N
  <2>2. PICK m \in N : \A k \in N : m <= k
    BY <2>1, LeastNumber
  <2> USE DEF N
  <2>3. m \in D /\ f[m] # g[m]
    BY <2>2
  <2>4. m # 0
    BY <1>2, <2>3
  <2>5. m - 1 \in D /\ m - 1 \notin N
    BY <2>2, <2>3, <2>4
  <2>6. f[m - 1] = g[m - 1]
    BY <2>5
  <2>7. QED
    BY <1>2, <2>3, <2>4, <2>6
<1>4. f = [n \in D |-> f[n]] /\ g = [n \in D |-> g[n]]
  BY <1>1
<1> HIDE DEF D
<1>5. QED
  BY <1>3, <1>4

LEMMA RunIs ==
  ASSUME NEW h, NEW S, Len(S) \in Nat, NEW g, IsRun(g, h, S)
  PROVE  RunAll(h, S) = g[Len(S)].host
<1>1. PICK f : f = CHOOSE r : IsRun(r, h, S)
  OBVIOUS
<1>2. IsRun(f, h, S)
  BY <1>1
<1>3. f = g
  BY <1>2, OneRunOnly
<1>4. RunAll(h, S) = f[Len(S)].host
  BY <1>1, Zenon DEF RunAll, IsRun
<1>5. QED
  BY <1>3, <1>4

-----------------------------------------------------------------------------
(* The first statement of a grant or a revocation is on the target of the  *)
(* command; MySQL has a second one for the migrator profile only.          *)
LEMMA FirstStatement ==
  ASSUME NEW c \in Commands, c.op \in {"grant", "revoke"}, server \in {"mysql", "postgresql"}
  PROVE  /\ Len(Statements(c)) \in Nat /\ Len(Statements(c)) > 0
         /\ Statements(c)[1].on = c.on
         /\ \A i \in 1 .. Len(Statements(c)) : Statements(c)[i] \in StatementsFor(c)
         /\ server = "mysql" =>
              \/ Len(Statements(c)) = 1
              \/ /\ Len(Statements(c)) = 2 /\ c.profile = "migrator"
                 /\ Statements(c)[2] = Statement(c.op, c.who, "server", {"define"})
<1> DEFINE X == StatementsFor(c)
           At(on, mays) == <<Statement(c.op, c.who, on, mays)>>
<1>1. PICK S \in Seq(X) : S = Statements(c)
  BY StatementsTyped
<1>2. /\ c.profile \in {"none", "readonly", "readwrite", "migrator"}
      /\ c.op \notin DatabaseOps /\ c.mays \in SUBSET Privileges
  BY CommandsAssumption DEF DatabaseOps
<1>3. ASSUME NEW on \in {c.on} \cup Special, NEW mays \in SUBSET Privileges
      PROVE  At(on, mays) \in Seq(X)
  <2>1. Statement(c.op, c.who, on, mays) \in X
    BY <1>2 DEF Statement, StatementsFor
  <2>2. QED
    BY <2>1
<1>4. ASSUME NEW on, NEW mays
      PROVE  Len(At(on, mays)) = 1 /\ At(on, mays)[1].on = on /\ At(on, mays) # <<>>
  BY DEF Statement
<1> HIDE DEF X
<1>5. ASSUME NEW T \in Seq(X), NEW U \in Seq(X), T # <<>>
      PROVE  T \o U \in Seq(X) /\ T \o U # <<>> /\ (T \o U)[1] = T[1]
  <2>1. Len(T) > 0 /\ Len(T) \in Nat /\ Len(T \o U) = Len(T) + Len(U) /\ Len(U) \in Nat
    BY <1>5
  <2>2. QED
    BY <2>1
<1>a. Len(S) \in Nat /\ \A i \in 1 .. Len(S) : S[i] \in X
  OBVIOUS
<1>6. CASE server = "mysql" /\ c.profile # "migrator"
  <2>1. PICK mays : S = At(c.on, mays)
    <3>1. CASE c.profile = "none"
      BY <1>1, <1>6, <3>1 DEF Statements, MysqlStatements, MysqlPrivilegeStatements
    <3>2. CASE c.profile # "none"
      <4>1. S = At(c.on, MysqlProfile[c.profile]) \o <<>>
        BY <1>1, <1>6, <3>2 DEF Statements, MysqlStatements, MysqlProfileStatements
      <4>2. At(c.on, MysqlProfile[c.profile]) \in Seq({Statement(c.op, c.who, c.on, MysqlProfile[c.profile])})
        OBVIOUS
      <4>3. S = At(c.on, MysqlProfile[c.profile])
        BY <4>1, <4>2
      <4>4. QED
        BY <4>3
    <3>3. QED
      BY <3>1, <3>2
  <2>2. Len(S) = 1 /\ S[1].on = c.on
    BY <1>4, <2>1
  <2>3. QED
    BY <1>1, <1>a, <2>2 DEF X
<1>7. CASE server = "mysql" /\ c.profile = "migrator"
  <2>1. S = At(c.on, MysqlProfile["migrator"]) \o At("server", {"define"})
    BY <1>1, <1>7 DEF Statements, MysqlStatements, MysqlProfileStatements
  <2>2. PICK s, t : s = Statement(c.op, c.who, c.on, MysqlProfile["migrator"])
                      /\ t = Statement(c.op, c.who, "server", {"define"})
    OBVIOUS
  <2>3. s.on = c.on /\ S = <<s>> \o <<t>>
    BY <2>1, <2>2 DEF Statement
  <2>4. Len(S) = 2 /\ S[1] = s /\ S[2] = t
    BY <2>3
  <2>5. QED
    BY <1>1, <1>7, <1>a, <2>2, <2>3, <2>4 DEF X
<1>8. CASE server = "postgresql"
  <2> DEFINE more == IF c.profile = "migrator" THEN At(c.on, {"define"}) ELSE <<>>
             objects == IF c.profile = "readonly" THEN <<Statement(c.op, c.who, "all_tables", {"read"})>>
                        ELSE <<Statement(c.op, c.who, "all_tables", {"read", "write"}),
                               Statement(c.op, c.who, "all_sequences", {"use", "read", "write"})>>
             last == IF c.profile = "migrator" THEN At("server", {"define"}) ELSE <<>>
  <2>1. /\ {"use"} \in SUBSET Privileges /\ {"define"} \in SUBSET Privileges
        /\ {"use", "define"} \in SUBSET Privileges /\ <<>> \in Seq(X)
    BY DEF Privileges
  <2>2. more \in Seq(X) /\ last \in Seq(X) /\ At(c.on, {"use"}) \in Seq(X)
    BY <1>3, <2>1 DEF Special
  <2>3. objects \in Seq(X)
    <3>1. ASSUME NEW on \in Special, NEW mays \in SUBSET Privileges
          PROVE  Statement(c.op, c.who, on, mays) \in X
      BY <1>2 DEF Statement, StatementsFor, X
    <3>2. /\ Statement(c.op, c.who, "all_tables", {"read"}) \in X
          /\ Statement(c.op, c.who, "all_tables", {"read", "write"}) \in X
          /\ Statement(c.op, c.who, "all_sequences", {"use", "read", "write"}) \in X
      BY <3>1 DEF Special, Privileges
    <3>3. QED
      BY <3>2
  <2>4. S # <<>> /\ S[1].on = c.on
    <3>1. CASE c.profile = "none"
      <4>1. S = At(c.on, c.mays)
        BY <1>1, <1>8, <3>1 DEF Statements, PostgresStatements, PostgresPrivilegeStatements
      <4>2. QED
        BY <1>4, <4>1
    <3>2. CASE c.profile # "none" /\ c.on # Schema
      <4>1. PICK mays \in SUBSET Privileges : S = At(c.on, mays) \o last
        BY <1>1, <1>8, <2>1, <3>2 DEF Statements, PostgresStatements, PostgresProfileStatements,
                                     PostgresDatabaseProfile
      <4> HIDE DEF last
      <4>2. At(c.on, mays) \in Seq(X) /\ At(c.on, mays) # <<>> /\ At(c.on, mays)[1].on = c.on
        BY <1>3, <1>4
      <4>3. QED
        BY <1>5, <2>2, <4>1, <4>2
    <3>3. CASE c.profile # "none" /\ c.on = Schema
      <4>1. S = ((At(c.on, {"use"}) \o more) \o objects) \o last
        <5>1. PostgresSchemaProfile(c) = (At(c.on, {"use"}) \o more) \o objects
          <6> HIDE DEF objects
          <6>1. QED
            BY <2>2, <2>3 DEF objects, PostgresSchemaProfile
        <5>2. QED
          BY <1>1, <1>8, <3>3, <5>1 DEF Statements, PostgresStatements, PostgresProfileStatements
      <4> HIDE DEF last, objects, more
      <4>2. At(c.on, {"use"}) # <<>> /\ At(c.on, {"use"})[1].on = c.on
        BY <1>4
      <4> DEFINE T == At(c.on, {"use"}) \o more
                 U == T \o objects
      <4>3. T \in Seq(X) /\ T # <<>> /\ T[1].on = c.on
        BY <1>5, <2>2, <4>2
      <4> HIDE DEF T
      <4>4. U \in Seq(X) /\ U # <<>> /\ U[1].on = c.on
        BY <1>5, <2>3, <4>3
      <4>a. S = U \o last
        BY <4>1 DEF T
      <4> HIDE DEF U
      <4>5. QED
        BY <1>5, <2>2, <4>4, <4>a
    <3>4. QED
      BY <3>1, <3>2, <3>3
  <2>5. QED
    BY <1>1, <1>8, <1>a, <2>4 DEF X
<1>9. QED
  BY <1>2, <1>6, <1>7, <1>8

(* What of a server decides whether a statement is accepted: accounts,     *)
(* databases and privileges, not the tables.                               *)
LEMMA TablesDoNotMatter ==
  ASSUME NEW h \in Hosts, NEW tables, NEW s
  PROVE  Accepts([h EXCEPT !.tables = tables], s) <=> Accepts(h, s)
<1>1. PICK k : k = [h EXCEPT !.tables = tables]
  OBVIOUS
<1>2. k.accounts = h.accounts /\ k.databases = h.databases /\ k.facts = h.facts
  BY <1>1 DEF Hosts
<1>3. Held(k, s) = Held(h, s)
  BY <1>2 DEF Held
<1>4. QED
  BY <1>1, <1>2, <1>3 DEF Accepts

(* When the first statement of a grant or a revocation is accepted, so is  *)
(* every later one.                                                        *)
LEMMA LaterIsAccepted ==
  ASSUME server \in {"mysql", "postgresql"}, NEW c \in Commands, c.op \in {"grant", "revoke"},
         NEW h \in Hosts, Accepts(h, Statements(c)[1]), NEW facts,
         NEW n \in 1 .. Len(Statements(c)), n # 1
  PROVE  Accepts([h EXCEPT !.facts = facts], Statements(c)[n])
<1>1. PICK S, first, s : S = Statements(c) /\ first = S[1] /\ s = S[n]
  OBVIOUS
<1>2. PICK k : k = [h EXCEPT !.facts = facts]
  OBVIOUS
<1>3. k.accounts = h.accounts /\ k.databases = h.databases
  BY <1>2 DEF Hosts
<1>4. /\ Len(S) \in Nat /\ Len(S) > 0 /\ first.on = c.on
      /\ first \in StatementsFor(c) /\ s \in StatementsFor(c)
      /\ server = "mysql" => s.on = "server"
  <2>1. /\ Len(S) \in Nat /\ Len(S) > 0 /\ S[1].on = c.on
        /\ \A i \in 1 .. Len(S) : S[i] \in StatementsFor(c)
        /\ server = "mysql" => \/ Len(S) = 1
                               \/ Len(S) = 2 /\ S[2] = Statement(c.op, c.who, "server", {"define"})
    BY <1>1, FirstStatement
  <2>2. Statement(c.op, c.who, "server", {"define"}).on = "server"
    BY DEF Statement
  <2>3. 1 \in 1 .. Len(S) /\ n \in 1 .. Len(S) /\ (Len(S) = 1 => FALSE) /\ (Len(S) = 2 => n = 2)
    BY <1>1, <2>1
  <2>4. QED
    BY <1>1, <2>1, <2>2, <2>3
<1>5. /\ first.do = c.op /\ s.do = c.op /\ s.who = c.who /\ first.who = c.who
      /\ s.on \in {c.on} \cup Special
  BY <1>4 DEF StatementsFor
<1>6. /\ c.who \in h.accounts
      /\ server = "postgresql" => c.on \in h.databases \/ c.on \notin Databases
  BY <1>1, <1>4, <1>5 DEF Accepts
<1>7. server = "postgresql" => s.on \in k.databases \/ s.on \notin Databases
  BY <1>3, <1>5, <1>6, TargetsAssumption DEF Special
<1>8. QED
  BY <1>1, <1>2, <1>3, <1>4, <1>5, <1>6, <1>7 DEF Accepts

LEMMA RunOfOne ==
  ASSUME NEW h, NEW s
  PROVE  RunAll(h, <<s>>) = IF Accepts(h, s) THEN After(h, s) ELSE h
<1> DEFINE zero == [ok |-> TRUE, host |-> h]
           one == Attempt(zero, s)
           g == [n \in 0 .. 1 |-> IF n = 0 THEN zero ELSE one]
<1>1. Len(<<s>>) = 1 /\ <<s>>[1] = s
  OBVIOUS
<1>2. one = IF Accepts(h, s) THEN [ok |-> TRUE, host |-> After(h, s)] ELSE [ok |-> FALSE, host |-> h]
  BY DEF Attempt
<1>3. IsRun(g, h, <<s>>)
  <2> HIDE DEF one
  <2>1. \A n \in 0 .. 1 : n = 0 \/ n = 1
    OBVIOUS
  <2>2. g[0] = zero /\ g[1 - 1] = zero
    OBVIOUS
  <2>3. \A n \in 0 .. 1 : n # 0 => Attempt(g[n - 1], <<s>>[n]) = one
    BY <1>1, <2>1, <2>2 DEF one
  <2>4. g = [n \in 0 .. 1 |-> IF n = 0 THEN zero ELSE Attempt(g[n - 1], <<s>>[n])]
    BY <2>3
  <2>5. QED
    BY <1>1, <2>4 DEF IsRun
<1>4. RunAll(h, <<s>>) = g[1].host
  BY <1>1, <1>3, RunIs
<1>5. QED
  BY <1>2, <1>4

(* All statements of a grant or a revocation: nothing, or all privileges   *)
(* that its statements give.                                               *)
LEMMA RunOfChange ==
  ASSUME server \in {"mysql", "postgresql"}, NEW c \in Commands, c.op \in {"grant", "revoke"},
         NEW h \in Hosts
  PROVE  RunAll(h, Statements(c)) =
           IF Accepts(h, Statements(c)[1])
           THEN [h EXCEPT !.facts = Changed(c.op, @, AllGiven(Statements(c), h.tables))]
           ELSE h
<1> DEFINE X == StatementsFor(c)
<1>1. PICK S \in Seq(X) : S = Statements(c)
  BY StatementsTyped
<1>2. Len(S) \in Nat /\ Len(S) > 0 /\ \A i \in 1 .. Len(S) : S[i] \in X
  BY <1>1, FirstStatement
<1> HIDE DEF X
<1> DEFINE with(n) == [h EXCEPT !.facts = Changed(c.op, h.facts, FirstGive(S, n, h.tables))]
           at(n) == IF n = 0 THEN [ok |-> TRUE, host |-> h]
                    ELSE IF Accepts(h, S[1]) THEN [ok |-> TRUE, host |-> with(n)]
                    ELSE [ok |-> FALSE, host |-> h]
           g == [n \in 0 .. Len(S) |-> at(n)]
<1>3. with(0) = h
  <2>1. Changed(c.op, h.facts, FirstGive(S, 0, h.tables)) = h.facts
    <3>1. FirstGive(S, 0, h.tables) = {}
      BY <1>1, OneMore
    <3>2. QED
      BY <3>1, ChangedTwice
  <2>2. QED
    BY <2>1 DEF Hosts
<1>4. ASSUME NEW n \in 1 .. Len(S), Accepts(h, S[1])
      PROVE  Accepts(with(n - 1), S[n]) /\ After(with(n - 1), S[n]) = with(n)
  <2>1. PICK k : k = with(n - 1)
    OBVIOUS
  <2>2. /\ k.tables = h.tables /\ k.facts = Changed(c.op, h.facts, FirstGive(S, n - 1, h.tables))
        /\ \A facts : [k EXCEPT !.facts = facts] = [h EXCEPT !.facts = facts]
    BY <2>1 DEF Hosts
  <2>3. Accepts(k, S[n])
    <3>1. CASE n = 1
      BY <1>3, <1>4, <2>1, <3>1
    <3>2. CASE n # 1
      BY <1>1, <1>4, <2>1, <3>2, LaterIsAccepted
    <3>3. QED
      BY <3>1, <3>2
  <2>4. After(k, S[n]) = [k EXCEPT !.facts = Changed(c.op, @, Given(S[n], k.tables))]
    <3>1. S[n].do = c.op
      BY <1>2 DEF StatementsFor, X
    <3>2. PICK s : s = S[n] /\ s.do = c.op
      BY <3>1
    <3>3. CASE c.op = "grant"
      BY <3>2, <3>3 DEF After, Changed, FactsOf
    <3>4. CASE c.op = "revoke"
      BY <3>2, <3>4 DEF After, Changed, FactsOf
    <3>5. QED
      BY <3>3, <3>4
  <2>5. Changed(c.op, k.facts, Given(S[n], k.tables)) = Changed(c.op, h.facts, FirstGive(S, n, h.tables))
    <3>1. n - 1 \in Nat /\ (n - 1) + 1 = n
      OBVIOUS
    <3>2. FirstGive(S, (n - 1) + 1, h.tables) = FirstGive(S, n - 1, h.tables) \cup Given(S[(n - 1) + 1], h.tables)
      BY <1>1, <3>1, OneMore
    <3>3. FirstGive(S, n, h.tables) = FirstGive(S, n - 1, h.tables) \cup Given(S[n], h.tables)
      BY <3>1, <3>2
    <3>4. QED
      BY <2>2, <3>3, ChangedTwice
  <2>6. QED
    BY <2>1, <2>2, <2>3, <2>4, <2>5
<1> HIDE DEF with
<1>5. ASSUME NEW n \in 1 .. Len(S) PROVE at(n) = Attempt(at(n - 1), S[n])
  <2>1. CASE Accepts(h, S[1])
    <3>1. at(n - 1) = [ok |-> TRUE, host |-> with(n - 1)] /\ at(n) = [ok |-> TRUE, host |-> with(n)]
      BY <1>3, <2>1
    <3>2. QED
      BY <1>4, <2>1, <3>1 DEF Attempt
  <2>2. CASE ~Accepts(h, S[1])
    <3>1. at(n) = [ok |-> FALSE, host |-> h]
      BY <2>2
    <3>2. CASE n = 1
      <4>1. at(n - 1) = [ok |-> TRUE, host |-> h]
        BY <3>2
      <4>2. QED
        BY <2>2, <3>1, <3>2, <4>1 DEF Attempt
    <3>3. CASE n # 1
      <4>1. at(n - 1) = [ok |-> FALSE, host |-> h]
        BY <2>2, <3>3
      <4>2. QED
        BY <3>1, <4>1 DEF Attempt
    <3>4. QED
      BY <3>2, <3>3
  <2>3. QED
    BY <2>1, <2>2
<1>6. IsRun(g, h, S)
  <2>1. at(0) = [ok |-> TRUE, host |-> h]
    OBVIOUS
  <2> HIDE DEF at
  <2>2. \A n \in 0 .. Len(S) : n # 0 => n \in 1 .. Len(S) /\ n - 1 \in 0 .. Len(S) /\ g[n - 1] = at(n - 1)
    BY <1>2
  <2>3. \A n \in 0 .. Len(S) : at(n) = IF n = 0 THEN [ok |-> TRUE, host |-> h] ELSE Attempt(g[n - 1], S[n])
    BY <1>5, <2>1, <2>2
  <2>4. g = [n \in 0 .. Len(S) |-> IF n = 0 THEN [ok |-> TRUE, host |-> h] ELSE Attempt(g[n - 1], S[n])]
    BY <2>3, Zenon
  <2>5. QED
    BY <2>4, Zenon DEF IsRun
<1>7. RunAll(h, S) = at(Len(S)).host
  <2>1. RunAll(h, S) = g[Len(S)].host
    BY <1>2, <1>6, RunIs
  <2> HIDE DEF at
  <2>2. QED
    BY <1>2, <2>1
<1>8. FirstGive(S, Len(S), h.tables) = AllGiven(S, h.tables)
  BY DEF FirstGive, AllGiven
<1>9. QED
  BY <1>1, <1>2, <1>7, <1>8 DEF with

-----------------------------------------------------------------------------
(* A failed command can be given again.                                    *)

LEMMA FirstOfAny ==
  ASSUME server \in {"mysql", "postgresql"}, NEW c \in Commands
  PROVE  /\ Len(Statements(c)) \in Nat /\ Len(Statements(c)) > 0
         /\ Statements(c)[1].on = c.on /\ Statements(c)[1] \in StatementsFor(c)
<1>1. CASE c.op \in {"grant", "revoke"}
  BY <1>1, FirstStatement
<1>2. CASE c.op \notin {"grant", "revoke"}
  <2>1. PICK s : s = Statement(c.op, c.who, c.on, {})
    OBVIOUS
  <2>2. s.on = c.on /\ s \in StatementsFor(c)
    BY <2>1 DEF Statement, StatementsFor
  <2>3. Statements(c) = <<s>>
    BY <1>2, <2>1, OneOfThem
  <2>4. Len(Statements(c)) = 1 /\ Statements(c)[1] = s
    BY <2>3
  <2>5. QED
    BY <2>2, <2>4
<1>3. QED
  BY <1>1, <1>2

(* What a grant or a revocation makes of a server.                         *)
LEMMA ChangeOnly ==
  ASSUME NEW c \in Commands, c.op \in {"grant", "revoke"}, NEW h, NEW s \in StatementsFor(c)
  PROVE  After(h, s) = [h EXCEPT !.facts = Changed(c.op, @, Given(s, h.tables))]
<1>1. s.do = c.op
  BY DEF StatementsFor
<1>2. CASE c.op = "grant"
  BY <1>1, <1>2 DEF After, Changed, FactsOf
<1>3. CASE c.op = "revoke"
  BY <1>1, <1>3 DEF After, Changed, FactsOf
<1>4. QED
  BY <1>2, <1>3

(* The next statement: the first one, or a later one after the first.      *)
LEMMA NextBegins ==
  ASSUME server \in {"mysql", "postgresql"}, NEW c \in Commands,
         NEW h, IsHost(h), NEW old, IsHost(old), NEW rest,
         Remains(rest, Statements(c)), rest # <<>>, Accepts(h, Head(rest)),
         \/ Untouched(old, h) /\ rest = Statements(c)
         \/ Begun(c, old, h) /\ rest # Statements(c)
  PROVE  Begun(c, old, After(h, Head(rest))) /\ Tail(rest) # Statements(c)
<1> DEFINE X == StatementsFor(c)
<1>1. PICK all \in Seq(X) : all = Statements(c)
  BY StatementsTyped
<1>2. /\ rest \in Seq(X) /\ Len(rest) \in 0 .. Len(all) /\ Len(all) \in Nat /\ Len(rest) > 0
      /\ Head(rest) = all[Len(all) - Len(rest) + 1] /\ Len(Tail(rest)) = Len(rest) - 1
  BY <1>1, RestRemains
<1>3. PICK i \in 1 .. Len(all) : i = Len(all) - Len(rest) + 1 /\ Head(rest) = all[i]
  BY <1>2
<1>4. Tail(rest) # all
  BY <1>2
<1>5. PICK s, first : s = Head(rest) /\ first = all[1]
  OBVIOUS
<1>6. s \in X /\ first \in X /\ first.on = c.on
  <2>1. s \in X
    BY <1>3, <1>5
  <2>2. QED
    BY <1>1, <1>5, <2>1, FirstOfAny
<1> HIDE DEF X
<1>7. PICK new : new = After(h, s) /\ new.tables = h.tables
  BY <1>5, <1>6, AfterHost DEF X
<1>8. h \in Hosts /\ old \in Hosts
  BY DEF IsHost
<1>9. PICK whole : whole = [old EXCEPT !.tables = h.tables]
  OBVIOUS
<1>10. \A t \in 1 .. Len(all) : Given(all[t], h.tables) \subseteq AllGiven(all, h.tables)
  BY DEF AllGiven
<1>11. CASE Untouched(old, h) /\ rest = all
  <2>1. h = whole /\ s = first
    BY <1>3, <1>2, <1>5, <1>9, <1>11 DEF Untouched
  <2>2. Accepts(old, first)
    BY <1>5, <1>8, <1>9, <2>1, TablesDoNotMatter
  <2>3. CASE c.op \in {"grant", "revoke"}
    <3>1. new = [whole EXCEPT !.facts = Changed(c.op, @, Given(first, h.tables))]
      BY <1>6, <1>7, <2>1, <2>3, ChangeOnly DEF X
    <3>2. Given(first, h.tables) \subseteq AllGiven(all, h.tables)
      <4>1. 1 \in 1 .. Len(all)
        BY <1>2
      <4>2. QED
        BY <1>5, <1>10, <4>1
    <3>3. \E given \in SUBSET AllGiven(all, new.tables) :
            /\ Given(first, new.tables) \subseteq given
            /\ new = [whole EXCEPT !.facts = Changed(c.op, @, given)]
      BY <1>7, <3>1, <3>2
    <3>4. Begun(c, old, new)
      BY <1>1, <1>5, <1>7, <1>9, <2>2, <2>3, <3>3 DEF Begun
    <3>5. QED
      BY <1>1, <1>4, <1>5, <1>7, <3>4
  <2>4. CASE c.op \notin {"grant", "revoke"}
    <3>1. Begun(c, old, new)
      BY <1>1, <1>5, <1>7, <1>9, <2>1, <2>2, <2>4 DEF Begun
    <3>2. QED
      BY <1>1, <1>4, <1>5, <1>7, <3>1
  <2>5. QED
    BY <2>3, <2>4
<1>12. CASE Begun(c, old, h) /\ rest # all
  <2>1. CASE c.op \in {"grant", "revoke"}
    <3>1. PICK given \in SUBSET AllGiven(all, h.tables) :
            /\ Given(first, h.tables) \subseteq given
            /\ h = [whole EXCEPT !.facts = Changed(c.op, @, given)]
      BY <1>1, <1>5, <1>9, <1>12, <2>1 DEF Begun
    <3>2. PICK more : more = given \cup Given(s, h.tables)
      OBVIOUS
    <3>3. more \in SUBSET AllGiven(all, h.tables) /\ Given(first, h.tables) \subseteq more
      BY <1>3, <1>5, <1>10, <3>1, <3>2
    <3>4. new = [whole EXCEPT !.facts = Changed(c.op, @, more)]
      <4>1. new = [h EXCEPT !.facts = Changed(c.op, h.facts, Given(s, h.tables))]
        BY <1>6, <1>7, <2>1, ChangeOnly DEF X
      <4>2. h.facts = Changed(c.op, whole.facts, given)
        BY <1>8, <1>9, <3>1 DEF Hosts
      <4>3. Changed(c.op, h.facts, Given(s, h.tables)) = Changed(c.op, whole.facts, more)
        BY <3>2, <4>2, ChangedTwice
      <4>4. \A facts : [h EXCEPT !.facts = facts] = [whole EXCEPT !.facts = facts]
        BY <1>8, <1>9, <3>1 DEF Hosts
      <4>5. QED
        BY <4>1, <4>3, <4>4
    <3>5. Begun(c, old, new)
      <4>1. Accepts(old, first)
        BY <1>1, <1>5, <1>12 DEF Begun
      <4>2. QED
        BY <1>1, <1>5, <1>7, <1>9, <2>1, <3>3, <3>4, <4>1 DEF Begun
    <3>6. QED
      BY <1>1, <1>4, <1>5, <1>7, <3>5
  <2>2. CASE c.op \notin {"grant", "revoke"}
    <3>1. Len(all) = 1
      BY <1>1, <2>2, OneOfThem
    <3>2. Len(rest) = 1 /\ rest = <<Head(rest)>> /\ all = <<all[1]>>
      BY <1>1, <1>2, <3>1
    <3>3. rest = all
      BY <1>3, <3>1, <3>2
    <3>4. QED
      BY <1>12, <3>3
  <2>3. QED
    BY <2>1, <2>2
<1>13. QED
  BY <1>1, <1>11, <1>12

(* Tables that come to be change nothing of what a session has done.       *)
LEMMA MoreTablesLater ==
  ASSUME server \in {"mysql", "postgresql"}, NEW c \in Commands,
         NEW h, IsHost(h), NEW old, IsHost(old), NEW t
  PROVE  /\ Untouched(old, h) => Untouched(old, [h EXCEPT !.tables = @ \cup {t}])
         /\ Begun(c, old, h) => Begun(c, old, [h EXCEPT !.tables = @ \cup {t}])
<1>1. h \in Hosts /\ old \in Hosts
  BY DEF IsHost
<1>2. PICK new : new = [h EXCEPT !.tables = @ \cup {t}]
  OBVIOUS
<1>3. new.tables = h.tables \cup {t}
  BY <1>1, <1>2 DEF Hosts
<1>4. PICK whole, later : whole = [old EXCEPT !.tables = h.tables] /\ later = [old EXCEPT !.tables = new.tables]
  OBVIOUS
<1>5. later = [whole EXCEPT !.tables = new.tables] /\ whole.facts = later.facts
  BY <1>1, <1>4 DEF Hosts
<1>6. Untouched(old, h) => Untouched(old, new)
  BY <1>1, <1>2, <1>3 DEF Untouched, Hosts
<1>7. PICK S, first : S = Statements(c) /\ first = S[1]
  OBVIOUS
<1>8. first.on = c.on /\ first \in StatementsFor(c) /\ Len(S) \in Nat
  BY <1>7, FirstOfAny
<1>9. ASSUME Begun(c, old, h), c.op \in {"grant", "revoke"} PROVE Begun(c, old, new)
  <2>1. PICK given \in SUBSET AllGiven(S, h.tables) :
          /\ Given(first, h.tables) \subseteq given
          /\ h = [whole EXCEPT !.facts = Changed(c.op, @, given)]
    BY <1>4, <1>7, <1>9 DEF Begun
  <2>2. c.on # "all_tables"
    BY <1>9, CommandsAssumption, TargetsAssumption
  <2>3. Given(first, new.tables) = Given(first, h.tables)
    BY <1>8, <2>2 DEF Given
  <2>4. given \in SUBSET AllGiven(S, new.tables)
    <3>1. \A i \in 1 .. Len(S) : Given(S[i], h.tables) \subseteq Given(S[i], new.tables)
      BY <1>3 DEF Given
    <3>2. AllGiven(S, h.tables) \subseteq AllGiven(S, new.tables)
      BY <3>1 DEF AllGiven
    <3>3. QED
      BY <2>1, <3>2
  <2>5. new = [later EXCEPT !.facts = Changed(c.op, @, given)]
    <3>1. h = [whole EXCEPT !.facts = Changed(c.op, later.facts, given)]
      BY <1>5, <2>1
    <3>2. new = [h EXCEPT !.tables = new.tables]
      BY <1>1, <1>2, <1>3 DEF Hosts
    <3>3. PICK facts : facts = Changed(c.op, later.facts, given)
      OBVIOUS
    <3>4. new = [later EXCEPT !.facts = facts]
      BY <1>1, <1>4, <3>1, <3>2, <3>3 DEF Hosts
    <3>5. QED
      BY <3>3, <3>4
  <2>6. QED
    BY <1>4, <1>7, <1>9, <2>1, <2>3, <2>4, <2>5 DEF Begun
<1>10. ASSUME Begun(c, old, h), c.op \notin {"grant", "revoke"} PROVE Begun(c, old, new)
  <2>1. Accepts(old, first) /\ h = After(whole, first)
    BY <1>4, <1>7, <1>10 DEF Begun
  <2>2. /\ first.do = c.op /\ c.op \in AccountOps \cup DatabaseOps
    BY <1>8, CommandsAssumption DEF StatementsFor
  <2>3. whole \in [accounts : {old.accounts}, locked : {old.locked}, facts : {old.facts},
                   databases : {old.databases}, tables : {h.tables}]
    BY <1>1, <1>4 DEF Hosts
  <2>4. PICK T : T = new.tables
    OBVIOUS
  <2>5. Held([whole EXCEPT !.tables = T], first) = Held(whole, first)
    BY <2>3 DEF Held
  <2>6. After([whole EXCEPT !.tables = T], first) = [After(whole, first) EXCEPT !.tables = T]
    <3>1. CASE first.do = "create"
      BY <2>3, <3>1 DEF After
    <3>2. CASE first.do = "enable"
      BY <2>3, <3>2 DEF After
    <3>3. CASE first.do = "disable"
      BY <2>3, <3>3 DEF After
    <3>4. CASE first.do = "rotate"
      BY <2>3, <3>4 DEF After
    <3>5. CASE first.do = "drop"
      BY <2>3, <2>5, <3>5 DEF After
    <3>6. CASE first.do = "create_database"
      BY <2>3, <3>6 DEF After
    <3>7. CASE first.do = "drop_database"
      BY <2>3, <3>7 DEF After
    <3>8. QED
      BY <1>10, <2>2, <3>1, <3>2, <3>3, <3>4, <3>5, <3>6, <3>7 DEF AccountOps, DatabaseOps
  <2>7. new = [h EXCEPT !.tables = T]
    BY <1>1, <1>2, <1>3, <2>4 DEF Hosts
  <2>8. new = After(later, first)
    BY <1>5, <2>1, <2>4, <2>6, <2>7
  <2>9. QED
    BY <1>4, <1>7, <1>10, <2>1, <2>8 DEF Begun
<1>11. QED
  BY <1>2, <1>6, <1>9, <1>10

(* What has been said of a session, said of the state after a step.        *)
LEMMA ReachedNext ==
  ASSUME server' = server, NEW a \in Admins, NEW c \in Commands, NEW old, NEW new, NEW rest,
         command'[a] = c, before'[a] = old, host' = new, todo'[a] = rest,
         \/ Untouched(old, new) /\ (phase'[a] \in Busy => rest = Statements(c))
         \/ Begun(c, old, new) /\ (phase'[a] \in Busy => rest # Statements(c))
  PROVE  ReachedBy(a)'
<1>1. PICK S : S = Statements(c)
  OBVIOUS
<1>2. Statements(command[a])' = S
  BY <1>1 DEF Statements
<1>3. CASE Untouched(old, new) /\ (phase'[a] \in Busy => rest = S)
  <2>1. Untouched(before[a], host)'
    BY <1>3 DEF Untouched
  <2>2. QED
    BY <1>2, <1>3, <2>1 DEF ReachedBy
<1>4. CASE Begun(c, old, new) /\ (phase'[a] \in Busy => rest # S)
  <2>1. PICK first, whole : first = S[1] /\ whole = [old EXCEPT !.tables = new.tables]
    OBVIOUS
  <2>2. Accepts(old, first)
    BY <1>1, <1>4, <2>1 DEF Begun
  <2>3. Accepts(before[a], Statements(command[a])[1])'
    BY <1>2, <2>1, <2>2 DEF Accepts, Held
  <2>4. CASE c.op \in {"grant", "revoke"}
    <3>1. \E given \in SUBSET AllGiven(S, new.tables) :
            /\ Given(first, new.tables) \subseteq given
            /\ new = [whole EXCEPT !.facts = Changed(c.op, @, given)]
      BY <1>1, <1>4, <2>1, <2>4 DEF Begun
    <3>2. Begun(command[a], before[a], host)'
      BY <1>2, <2>1, <2>3, <2>4, <3>1 DEF Begun
    <3>3. QED
      BY <1>2, <1>4, <3>2 DEF ReachedBy
  <2>5. CASE c.op \notin {"grant", "revoke"}
    <3>1. new = After(whole, first)
      BY <1>1, <1>4, <2>1, <2>5 DEF Begun
    <3>2. new = After(whole, first)'
      BY <3>1 DEF After, Held, FactsOf
    <3>3. Begun(command[a], before[a], host)'
      BY <1>2, <2>1, <2>3, <2>5, <3>2 DEF Begun
    <3>4. QED
      BY <1>2, <1>4, <3>3 DEF ReachedBy
  <2>6. QED
    BY <2>4, <2>5
<1>5. QED
  BY <1>1, <1>3, <1>4

LEMMA ReachedStays ==
  ASSUME AdministrationInvariant, RepetitionInvariant, server' = server, host' = host, NEW a \in Admins,
         command'[a] = command[a], before'[a] = before[a], todo'[a] = todo[a],
         phase'[a] \in Busy => phase[a] \in Busy, alone[a]
  PROVE  ReachedBy(a)'
<1>1. ReachedBy(a) /\ command[a] \in Commands
  BY DEF RepetitionInvariant, AdministrationInvariant, TypeOK
<1>2. PICK c, old, new, rest : c = command[a] /\ old = before[a] /\ new = host /\ rest = todo[a]
  OBVIOUS
<1>a. c \in Commands
  BY <1>1, <1>2
<1>3. \/ Untouched(old, new) /\ (phase'[a] \in Busy => rest = Statements(c))
      \/ Begun(c, old, new) /\ (phase'[a] \in Busy => rest # Statements(c))
  BY <1>1, <1>2 DEF ReachedBy
<1>4. QED
  BY <1>2, <1>3, <1>a, ReachedNext

LEMMA RepetitionKept ==
  ASSUME AdministrationInvariant, RepetitionInvariant, [Next]_vars
  PROVE  RepetitionInvariant'
<1>1. /\ TypeOK /\ IsHost(host) /\ server \in {"mysql", "postgresql"} /\ server' = server
      /\ phase \in [Admins -> Busy \cup {"idle", "ok", "failed", "refused"}]
      /\ command \in [Admins -> Commands] /\ alone \in [Admins -> BOOLEAN]
      /\ DOMAIN todo = Admins /\ DOMAIN before = Admins
  BY DEF AdministrationInvariant, TypeOK, Next, vars, Begin, Check, Execute, Lose, Return, Send,
         CreateTable, Done
<1>2. ASSUME NEW a \in Admins, NEW c \in Commands, Begin(a, c) PROVE RepetitionInvariant'
  <2>1. ASSUME NEW b \in Admins, alone'[b] PROVE ReachedBy(b)'
    <3>1. CASE b = a
      <4>1. host' = host /\ command'[a] = c /\ before'[a] = host /\ todo'[a] = Statements(c)
        BY <1>1, <1>2 DEF Begin
      <4>2. PICK h, rest : h = host /\ rest = Statements(c)
        OBVIOUS
      <4>3. Untouched(h, h)
        BY <1>1, <4>2 DEF Untouched, IsHost, Hosts
      <4>4. QED
        BY <1>1, <3>1, <4>1, <4>2, <4>3, ReachedNext
    <3>2. CASE b # a
      <4>1. /\ host' = host /\ command'[b] = command[b] /\ before'[b] = before[b] /\ todo'[b] = todo[b]
            /\ phase'[b] = phase[b] /\ alone[b]
        BY <1>1, <1>2, <2>1, <3>2 DEF Begin
      <4>2. QED
        BY <1>1, <4>1, ReachedStays
    <3>3. QED
      BY <3>1, <3>2
  <2>2. QED
    BY <2>1 DEF RepetitionInvariant
<1>3. ASSUME host' = host, UNCHANGED <<command, before, todo>>, \A b \in Admins : alone'[b] => alone[b],
             \A b \in Admins : phase'[b] \in Busy => phase[b] \in Busy
      PROVE  RepetitionInvariant'
  BY <1>1, <1>3, ReachedStays DEF RepetitionInvariant
<1>4. ASSUME NEW a \in Admins, Check(a) PROVE RepetitionInvariant'
  BY <1>1, <1>3, <1>4 DEF Check, Busy
<1>5. ASSUME NEW a \in Admins, Return(a) PROVE RepetitionInvariant'
  BY <1>1, <1>3, <1>5 DEF Return, Busy
<1>6. ASSUME NEW a \in Admins, phase[a] = "running", todo[a] # <<>>, Accepts(host, Head(todo[a])),
             Send(a, After(host, Head(todo[a]))),
             \A b \in Admins : b # a => todo'[b] = todo[b],
             \A b \in Admins : phase'[b] \in Busy => phase[b] \in Busy,
             phase'[a] \in Busy => todo'[a] = Tail(todo[a])
      PROVE  RepetitionInvariant'
  <2>1. \A b \in Admins : b # a => (alone'[b] => host' = host /\ alone[b])
    BY <1>6, SendKeeps
  <2>2. ASSUME NEW b \in Admins, b # a, alone'[b] PROVE ReachedBy(b)'
    BY <1>1, <1>6, <2>1, <2>2, ReachedStays DEF Send
  <2>3. ASSUME alone'[a] PROVE ReachedBy(a)'
    <3>1. alone[a] /\ ReachedBy(a)
      BY <1>1, <2>3, <1>6 DEF Send, RepetitionInvariant
    <3>2. PICK c, h, old, rest : c = command[a] /\ h = host /\ old = before[a] /\ rest = todo[a]
      OBVIOUS
    <3>a. c \in Commands
      BY <1>1, <3>2
    <3>3. IsHost(old) /\ Remains(rest, Statements(c))
      BY <1>1, <1>6, <3>2 DEF TypeOK
    <3>4. \/ Untouched(old, h) /\ rest = Statements(c)
          \/ Begun(c, old, h) /\ rest # Statements(c)
      BY <1>6, <3>1, <3>2 DEF ReachedBy, Busy
    <3>5. Begun(c, old, After(h, Head(rest))) /\ Tail(rest) # Statements(c)
      BY <1>1, <1>6, <3>a, <3>2, <3>3, <3>4, NextBegins
    <3>6. PICK new, remaining : new = After(h, Head(rest)) /\ remaining = todo'[a]
      OBVIOUS
    <3>7. host' = new /\ command'[a] = c /\ before'[a] = old
      BY <1>6, <3>2, <3>6 DEF Send
    <3>8. phase'[a] \in Busy => remaining # Statements(c)
      BY <1>6, <3>2, <3>5, <3>6
    <3>9. QED
      BY <1>1, <3>5, <3>6, <3>7, <3>8, <3>a, ReachedNext
  <2>4. QED
    BY <2>2, <2>3 DEF RepetitionInvariant
<1>7. ASSUME NEW a \in Admins, Execute(a) PROVE RepetitionInvariant'
  <2>1. CASE Accepts(host, Head(todo[a]))
    <3>1. /\ phase[a] = "running" /\ todo[a] # <<>> /\ Send(a, After(host, Head(todo[a])))
          /\ todo' = [todo EXCEPT ![a] = Tail(@)] /\ phase' = phase
      BY <1>7, <2>1 DEF Execute
    <3>2. todo'[a] = Tail(todo[a]) /\ \A b \in Admins : b # a => todo'[b] = todo[b]
      BY <1>1, <3>1
    <3>3. QED
      BY <1>6, <2>1, <3>1, <3>2
  <2>2. CASE ~Accepts(host, Head(todo[a]))
    <3>1. /\ host' = host /\ UNCHANGED <<command, before, todo>> /\ alone' = alone
          /\ phase' = [phase EXCEPT ![a] = "failed"]
      BY <1>7, <2>2 DEF Execute, Send
    <3>2. \A b \in Admins : phase'[b] \in Busy => phase[b] \in Busy
      BY <1>1, <3>1 DEF Busy
    <3>3. QED
      BY <1>3, <3>1, <3>2
  <2>3. QED
    BY <2>1, <2>2
<1>8. ASSUME NEW a \in Admins, Lose(a) PROVE RepetitionInvariant'
  <2>1. phase' = [phase EXCEPT ![a] = "failed"] /\ todo' = todo
    BY <1>8 DEF Lose
  <2>2. phase'[a] \notin Busy /\ \A b \in Admins : phase'[b] \in Busy => phase[b] \in Busy
    BY <1>1, <2>1 DEF Busy
  <2>3. CASE Send(a, host)
    BY <1>3, <2>1, <2>2, <2>3 DEF Send
  <2>4. CASE /\ phase[a] = "running" /\ todo[a] # <<>>
             /\ Accepts(host, Head(todo[a])) /\ Send(a, After(host, Head(todo[a])))
    BY <1>6, <2>1, <2>2, <2>4
  <2>5. QED
    BY <1>8, <2>3, <2>4 DEF Lose
<1>9. ASSUME CreateTable PROVE RepetitionInvariant'
  <2>1. UNCHANGED <<server, phase, command, todo, before, alone>>
    BY <1>9 DEF CreateTable
  <2>2. PICK t : host' = [host EXCEPT !.tables = @ \cup {t}]
    BY <1>9 DEF CreateTable
  <2>3. ASSUME NEW a \in Admins, alone'[a] PROVE ReachedBy(a)'
    <3>1. ReachedBy(a) /\ IsHost(before[a])
      BY <1>1, <2>1, <2>3 DEF RepetitionInvariant, TypeOK
    <3>2. PICK c, h, old, rest : c = command[a] /\ h = host /\ old = before[a] /\ rest = todo[a]
      OBVIOUS
    <3>a. c \in Commands
      BY <1>1, <3>2
    <3>3. PICK new : new = [h EXCEPT !.tables = @ \cup {t}]
      OBVIOUS
    <3>4. /\ Untouched(old, h) => Untouched(old, new)
          /\ Begun(c, old, h) => Begun(c, old, new)
      BY <1>1, <3>1, <3>2, <3>3, <3>a, MoreTablesLater
    <3>5. \/ Untouched(old, new) /\ (phase'[a] \in Busy => rest = Statements(c))
          \/ Begun(c, old, new) /\ (phase'[a] \in Busy => rest # Statements(c))
      BY <2>1, <3>1, <3>2, <3>4 DEF ReachedBy
    <3>6. command'[a] = c /\ before'[a] = old /\ host' = new /\ todo'[a] = rest
      BY <2>1, <2>2, <3>2, <3>3
    <3>7. QED
      BY <1>1, <3>5, <3>6, <3>a, ReachedNext
  <2>4. QED
    BY <2>3 DEF RepetitionInvariant
<1>10. ASSUME UNCHANGED vars PROVE RepetitionInvariant'
  BY <1>3, <1>10 DEF vars
<1>11. QED
  BY <1>2, <1>4, <1>5, <1>7, <1>8, <1>9, <1>10 DEF Next, Done

(* One statement that was carried out, or is refused now, changes nothing  *)
(* when it is given again.                                                 *)
LEMMA OneMayBeRepeated ==
  ASSUME NEW c \in Commands, c.op \notin {"grant", "revoke"}, NEW w \in Hosts,
         NEW s \in StatementsFor(c), NEW h, h = After(w, s), Accepts(w, s), Accepts(h, s)
  PROVE  After(h, s) = h
<1>1. s.do = c.op /\ c.op \in AccountOps \cup DatabaseOps
  BY CommandsAssumption DEF StatementsFor
<1> USE DEF Hosts
<1>2. CASE s.do = "create"
  <2>1. h = [w EXCEPT !.accounts = @ \cup {s.who}]
    BY <1>2 DEF After
  <2>2. s.who \in h.accounts
    BY <2>1
  <2>3. QED
    BY <1>2, <2>2 DEF Accepts
<1>3. CASE s.do = "enable"
  <2>1. h = [w EXCEPT !.locked = @ \ {s.who}] /\ After(h, s) = [h EXCEPT !.locked = @ \ {s.who}]
    BY <1>3 DEF After
  <2>2. QED
    BY <2>1
<1>4. CASE s.do = "disable"
  <2>1. h = [w EXCEPT !.locked = @ \cup {s.who}] /\ After(h, s) = [h EXCEPT !.locked = @ \cup {s.who}]
    BY <1>4 DEF After
  <2>2. QED
    BY <2>1
<1>5. CASE s.do = "rotate"
  BY <1>5 DEF After
<1>6. CASE s.do = "drop"
  <2>1. h = [w EXCEPT !.accounts = @ \ {s.who}, !.locked = @ \ {s.who}, !.facts = @ \ Held(w, s)]
    BY <1>6 DEF After
  <2>2. s.who \notin h.accounts
    BY <2>1
  <2>3. QED
    BY <1>6, <2>2 DEF Accepts
<1>7. CASE s.do = "create_database"
  <2>1. h = [w EXCEPT !.databases = @ \cup {s.on}]
    BY <1>7 DEF After
  <2>2. s.on \in h.databases
    BY <2>1
  <2>3. QED
    BY <1>7, <2>2 DEF Accepts
<1>8. CASE s.do = "drop_database"
  <2>1. h = [w EXCEPT !.databases = @ \ {s.on},
                     !.facts = {f \in @ : server = "postgresql" => f.on # s.on}]
    BY <1>8 DEF After
  <2>2. s.on \notin h.databases
    BY <2>1
  <2>3. QED
    BY <1>8, <2>2 DEF Accepts
<1>9. QED
  BY <1>1, <1>2, <1>3, <1>4, <1>5, <1>6, <1>7, <1>8 DEF AccountOps, DatabaseOps

(* A grant or a revocation of which at least the first statement was       *)
(* carried out, given again.                                               *)
LEMMA ChangeMayBeRepeated ==
  ASSUME server \in {"mysql", "postgresql"}, NEW c \in Commands, c.op \in {"grant", "revoke"},
         IsHost(host), NEW old, IsHost(old), Begun(c, old, host)
  PROVE  \/ RunAll(host, Statements(c)) = RunAll([old EXCEPT !.tables = host.tables], Statements(c))
         \/ StuckRevocation(c)
<1>1. PICK S, first, h, whole, all :
        /\ S = Statements(c) /\ first = S[1] /\ h = host
        /\ whole = [old EXCEPT !.tables = h.tables] /\ all = AllGiven(S, h.tables)
  OBVIOUS
<1>2. h \in Hosts /\ old \in Hosts /\ whole \in Hosts /\ whole.tables = h.tables
  BY <1>1 DEF IsHost, Hosts
<1>3. PICK given \in SUBSET all :
        /\ Given(first, h.tables) \subseteq given
        /\ h = [whole EXCEPT !.facts = Changed(c.op, @, given)]
  BY <1>1 DEF Begun
<1>4. Accepts(whole, first)
  <2>1. Accepts(old, first)
    BY <1>1 DEF Begun
  <2>2. QED
    BY <1>1, <1>2, <2>1, TablesDoNotMatter
<1>5. /\ first.on = c.on /\ first \in StatementsFor(c)
      /\ Len(S) \in Nat /\ Len(S) > 0
      /\ server = "mysql" => \/ Len(S) = 1
                             \/ /\ Len(S) = 2 /\ c.profile = "migrator"
                                /\ S[2] = Statement(c.op, c.who, "server", {"define"})
  BY <1>1, FirstStatement, FirstOfAny
<1>6. first.do = c.op /\ first.who = c.who
  BY <1>5 DEF StatementsFor
<1>7. /\ h.facts = Changed(c.op, whole.facts, given)
      /\ h.accounts = whole.accounts /\ h.databases = whole.databases
      /\ \A facts : [h EXCEPT !.facts = facts] = [whole EXCEPT !.facts = facts]
  BY <1>2, <1>3 DEF Hosts
<1>8. RunAll(whole, S) = [whole EXCEPT !.facts = Changed(c.op, whole.facts, all)]
  <2>1. RunAll(whole, Statements(c)) = [whole EXCEPT !.facts = Changed(c.op, @, AllGiven(Statements(c), whole.tables))]
    BY <1>1, <1>2, <1>4, RunOfChange
  <2>2. AllGiven(Statements(c), whole.tables) = all
    BY <1>1, <1>2
  <2>3. QED
    BY <1>1, <2>1, <2>2
<1>9. CASE Accepts(h, first)
  <2>1. RunAll(h, S) = [h EXCEPT !.facts = Changed(c.op, h.facts, all)]
    BY <1>1, <1>2, <1>9, RunOfChange
  <2>2. given \cup all = all
    BY <1>3
  <2>3. Changed(c.op, h.facts, all) = Changed(c.op, whole.facts, all)
    BY <1>7, <2>2, ChangedTwice
  <2>4. RunAll(h, S) = RunAll(whole, S)
    BY <1>7, <1>8, <2>1, <2>3
  <2>5. QED
    BY <1>1, <2>4
<1>10. CASE ~Accepts(h, first)
  <2>1. RunAll(h, S) = h
    BY <1>1, <1>2, <1>10, RunOfChange
  <2>2. /\ server = "mysql" /\ c.op = "revoke" /\ first.on # "server"
        /\ \A f \in Held(h, first) : f.on # c.on
    <3>1. c.on # "server"
      BY CommandsAssumption, TargetsAssumption
    <3>2. /\ c.who \in h.accounts
          /\ server = "postgresql" => c.on \in h.databases \/ c.on \notin Databases
      BY <1>4, <1>5, <1>6, <1>7 DEF Accepts
    <3>3. QED
      BY <1>5, <1>6, <1>10, <3>1, <3>2 DEF Accepts
  <2>3. \A f \in h.facts : f.who = c.who => f.on # c.on
    BY <1>6, <2>2 DEF Held
  <2>4. h.facts = whole.facts \ given /\ Changed(c.op, whole.facts, all) = whole.facts \ all
    BY <1>7, <2>2 DEF Changed
  <2>5. PICK define : define = [who |-> c.who, on |-> "server", may |-> "define"]
    OBVIOUS
  <2>6. CASE define \in h.facts /\ c.profile = "migrator"
    BY <1>1, <2>2, <2>3, <2>5, <2>6 DEF StuckRevocation
  <2>7. CASE define \notin h.facts \/ c.profile # "migrator"
    <3>1. whole.facts \ given = whole.facts \ all
      <4>1. ASSUME NEW f \in whole.facts \ given PROVE f \notin all
        <5>1. SUFFICES ASSUME f \in all PROVE FALSE
          OBVIOUS
        <5>2. PICK i \in 1 .. Len(S) : f \in Given(S[i], h.tables)
          BY <1>1, <5>1 DEF AllGiven
        <5>3. i # 1
          BY <1>1, <1>3, <4>1, <5>2
        <5>a. PICK n \in Nat : n = Len(S)
          BY <1>5
        <5>b. \/ n = 1
              \/ /\ n = 2 /\ c.profile = "migrator"
                 /\ S[2] = Statement(c.op, c.who, "server", {"define"})
          BY <1>5, <2>2, <5>a
        <5>c. i \in 1 .. n
          BY <5>a
        <5>4. i = 2 /\ c.profile = "migrator" /\ S[2] = Statement(c.op, c.who, "server", {"define"})
          BY <5>3, <5>b, <5>c
        <5>5. f = define
          <6>1. PICK s : s = S[2]
            OBVIOUS
          <6>2. s.who = c.who /\ s.on = "server" /\ s.mays = {"define"}
            BY <5>4, <6>1 DEF Statement
          <6>3. f \in [who : {c.who}, on : {"server"}, may : {"define"}]
            BY <5>2, <5>4, <6>1, <6>2 DEF Given
          <6>4. QED
            BY <2>5, <6>3
        <5>6. f \in h.facts
          BY <2>4, <4>1
        <5>7. QED
          BY <2>7, <5>4, <5>5, <5>6
      <4>2. QED
        BY <1>3, <4>1
    <3>2. h = [whole EXCEPT !.facts = Changed(c.op, whole.facts, all)]
      <4>1. Changed(c.op, whole.facts, given) = Changed(c.op, whole.facts, all)
        BY <1>7, <2>4, <3>1
      <4>2. QED
        BY <1>3, <4>1
    <3>3. QED
      BY <1>1, <1>8, <2>1, <3>2
  <2>8. QED
    BY <2>6, <2>7
<1>11. QED
  BY <1>9, <1>10

(* What a session has done to the server is, whatever its command and      *)
(* wherever it was broken off, nothing, or its first statement and some of *)
(* the others, unless another administrator came in between.               *)
THEOREM RepetitionInvariantHolds == Spec => []RepetitionInvariant
<1>1. Init => RepetitionInvariant
  <2>1. SUFFICES ASSUME Init, NEW a \in Admins PROVE ReachedBy(a)
    BY DEF RepetitionInvariant
  <2>2. TypeOK /\ before[a] = host /\ phase[a] \notin Busy
    BY <2>1, InitInvariant DEF AdministrationInvariant, Init, Busy
  <2>3. Untouched(before[a], host)
    BY <2>2 DEF Untouched, TypeOK, IsHost, Hosts
  <2>4. QED
    BY <2>2, <2>3 DEF ReachedBy
<1>2. AdministrationInvariant /\ RepetitionInvariant /\ [Next]_vars => RepetitionInvariant'
  BY RepetitionKept
<1>3. QED
  BY <1>1, <1>2, AdministrationInvariantHolds, PTL DEF Spec

(* A command that has failed, at whichever statement, can be given again:  *)
(* it ends with the accounts, privileges and databases of one that had not *)
(* failed, except for the stuck revocation (_change_profile,               *)
(* _profile_statements, each statement committed by itself).               *)
THEOREM FailedChangesCanBeRepeated == Spec => []FailedChangeCanBeRepeated
<1>1. AdministrationInvariant /\ RepetitionInvariant => FailedChangeCanBeRepeated
  <2>1. SUFFICES ASSUME AdministrationInvariant, RepetitionInvariant, NEW a \in Admins, alone[a]
                 PROVE  \/ RunAll(host, Statements(command[a]))
                             = RunAll([before[a] EXCEPT !.tables = host.tables], Statements(command[a]))
                        \/ StuckRevocation(command[a])
    BY DEF FailedChangeCanBeRepeated
  <2>2. /\ ReachedBy(a) /\ server \in {"mysql", "postgresql"} /\ command[a] \in Commands
        /\ IsHost(host) /\ IsHost(before[a])
    BY <2>1 DEF AdministrationInvariant, RepetitionInvariant, TypeOK
  <2>3. PICK c, old, whole :
          c = command[a] /\ old = before[a] /\ whole = [old EXCEPT !.tables = host.tables]
    OBVIOUS
  <2>a. c \in Commands
    BY <2>2, <2>3
  <2>4. CASE Untouched(old, host)
    BY <2>3, <2>4 DEF Untouched
  <2>5. CASE Begun(c, old, host) /\ c.op \in {"grant", "revoke"}
    BY <2>a, <2>2, <2>3, <2>5, ChangeMayBeRepeated
  <2>6. CASE Begun(c, old, host) /\ c.op \notin {"grant", "revoke"}
    <3>1. PICK s : s = Statement(c.op, c.who, c.on, {})
      OBVIOUS
    <3>2. Statements(c) = <<s>> /\ Statements(c)[1] = s
      <4>1. Statements(c) = <<s>>
        BY <2>a, <2>6, <3>1, OneOfThem
      <4>2. QED
        BY <4>1
    <3>3. s \in StatementsFor(c)
      BY <2>a, <2>2, <3>2, FirstOfAny
    <3>4. Accepts(old, s) /\ host = After(whole, s)
      BY <2>3, <2>6, <3>2 DEF Begun
    <3>5. whole \in Hosts /\ Accepts(whole, s)
      BY <2>2, <2>3, <3>4, TablesDoNotMatter DEF IsHost, Hosts
    <3>6. RunAll(whole, <<s>>) = host
      BY <3>4, <3>5, RunOfOne
    <3>7. RunAll(host, <<s>>) = host
      BY <2>a, <2>6, <3>3, <3>4, <3>5, RunOfOne, OneMayBeRepeated
    <3>8. QED
      BY <2>3, <3>2, <3>6, <3>7
  <2>7. QED
    BY <2>a, <2>2, <2>3, <2>4, <2>5, <2>6 DEF ReachedBy
<1>2. QED
  BY <1>1, AdministrationInvariantHolds, RepetitionInvariantHolds, PTL

=============================================================================
