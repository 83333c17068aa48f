-------------------------- MODULE Sessions_proofs --------------------------
(***************************************************************************)
(* Proofs about transactions beside others: the sessions of the client,    *)
(* for any number of callers, of connections of the pool and of failing    *)
(* statements, and the upsert of an import, for any keys, values, blocks,  *)
(* levels of isolation and number of other sessions' commits.              *)
(***************************************************************************)
EXTENDS Sessions, ConcurrentUpsert, TLAPS

(* A connection nobody holds.                                              *)
IsClean(k) ==
  /\ ~conns[k].reading /\ conns[k].written = {}
  /\ conns[k].queryOnly \/ conns[k].handler # Nobody \/ conns[k].busy # Nobody =>
       k \in faulted /\ dialect = "sqlite"
  /\ conns[k].limited => dialect = "mysql" /\ timed

(* The connection of a session: whose rows are on it, and what its         *)
(* settings say of where the session is.                                   *)
OwnRows(c) ==
  /\ Conn(c).written \subseteq {c}
  /\ c \in Conn(c).written =>
       kind[c] # "query" /\ wish[c] = "write" /\ phase[c] \in {"clear_timeout", "clear_read_only", "leave"}
                                               \cup {"check_in"}
  /\ phase[c] \in {"clear_timeout", "clear_read_only", "leave"} /\ ~failed[c] =>
       (wish[c] = "write" /\ Commits(c) => c \in Conn(c).written)
OwnMode(c) ==
  /\ phase[c] = "begin" => kind[c] = "query"
  /\ kind[c] = "query" /\ phase[c] \in {"limit", "ready"} =>
       IF dialect = "sqlite" THEN Conn(c).queryOnly ELSE Conn(c).reading
  /\ Conn(c).queryOnly =>
       /\ dialect = "sqlite"
       /\ on[c] \in faulted \/ (kind[c] = "query" /\ phase[c] \notin {"leave", "check_in"})
OwnDeadline(c) ==
  /\ phase[c] = "limit" => Limited(c)
  /\ Conn(c).handler # Nobody \/ Conn(c).busy # Nobody =>
       /\ dialect = "sqlite"
       /\ on[c] \in faulted \/ (Limited(c) /\ phase[c] \in {"ready", "clear_timeout"})
  /\ Conn(c).limited => timed /\ dialect # "sqlite"
  /\ phase[c] = "ready" /\ Limited(c) =>
       IF dialect = "sqlite" THEN Conn(c).handler = c /\ Conn(c).busy = c ELSE Conn(c).limited

(* A caller's rows in the database, and what it is told of them.           *)
Told(c) ==
  /\ c \in committed /\ ~Compound(c) => Commits(c) /\ phase[c] \in {"check_in", "ok", "failed"}
  /\ c \in committed /\ ~Compound(c) /\ (phase[c] = "failed" \/ (phase[c] = "check_in" /\ failed[c])) =>
       c \in doubtful
  /\ phase[c] = "outside" => Compound(c)
  /\ wish[c] = "write" /\ Commits(c) /\ (phase[c] = "ok" \/ (phase[c] = "check_in" /\ ~failed[c])) =>
       c \in committed

(* The invariant of the sessions, inductive.                               *)
SessionsInvariant ==
  /\ TypeOK
  /\ \A k \in Connections \ Held : IsClean(k)
  /\ \A c \in Callers : on[c] # Nobody => OwnRows(c) /\ OwnMode(c) /\ OwnDeadline(c)
  /\ \A c \in Callers : Told(c)

(* What a step of one session leaves alone.                                *)
OthersKeep(c) ==
  /\ UNCHANGED client
  /\ \A d \in Callers \ {c} :
       /\ phase'[d] = phase[d] /\ on'[d] = on[d] /\ failed'[d] = failed[d]
       /\ d \in committed' <=> d \in committed
  /\ \A k \in Connections \ {on[c]} : conns'[k] = conns[k]
  /\ faulted \subseteq faulted' /\ doubtful \subseteq doubtful'

-----------------------------------------------------------------------------

LEMMA InitialSessions == Init => SessionsInvariant
<1> SUFFICES ASSUME Init PROVE SessionsInvariant OBVIOUS
<1>1. Fresh \in Settings
  BY DEF Fresh, Settings
<1>2. TypeOK
  BY <1>1, FaultsAssumption DEF Init, TypeOK
<1>3. \A k \in Connections : IsClean(k)
  BY DEF Init, IsClean, Fresh
<1>4. \A c \in Callers : Told(c) /\ on[c] = Nobody
  BY DEF Init, Told
<1> QED BY <1>2, <1>3, <1>4 DEF SessionsInvariant

(* The sessions that take no part in a step keep what is theirs.           *)
LEMMA SessionsApart ==
  ASSUME SessionsInvariant, TypeOK', NEW c \in Callers, OthersKeep(c),
         on'[c] # Nobody => (OwnRows(c) /\ OwnMode(c) /\ OwnDeadline(c))',
         Told(c)',
         \A k \in Connections : k = on[c] /\ on'[c] = Nobody => IsClean(k)',
         on[c] # Nobody => on'[c] \in {on[c], Nobody}
  PROVE  SessionsInvariant'
<1>1. \A d \in Callers \ {c} : Told(d)'
  BY DEF SessionsInvariant, OthersKeep, Told, Commits, Compound, client
<1>2. ASSUME NEW d \in Callers \ {c}, on'[d] # Nobody
      PROVE  (OwnRows(d) /\ OwnMode(d) /\ OwnDeadline(d))'
  <2>1. on'[d] = on[d] /\ on[d] # on[c] /\ on[d] \in Connections
    BY <1>2 DEF SessionsInvariant, OthersKeep, TypeOK
  <2>2. conns'[on'[d]] = conns[on[d]]
    BY <2>1 DEF OthersKeep
  <2>3. /\ phase'[d] = phase[d] /\ failed'[d] = failed[d] /\ faulted \subseteq faulted'
        /\ dialect' = dialect /\ timed' = timed /\ kind' = kind /\ wish' = wish
    BY DEF OthersKeep, client
  <2>4. OwnRows(d) /\ OwnMode(d) /\ OwnDeadline(d)
    BY <1>2, <2>1 DEF SessionsInvariant
  <2>5. OwnRows(d)'
    BY <2>1, <2>2, <2>3, <2>4 DEF OwnRows, Conn, Commits
  <2>6. OwnMode(d)'
    BY <2>1, <2>2, <2>3, <2>4 DEF OwnMode, Conn
  <2>7. OwnDeadline(d)'
    BY <2>1, <2>2, <2>3, <2>4 DEF OwnDeadline, Conn, Limited, Prepared
  <2> QED BY <2>5, <2>6, <2>7
<1>3. ASSUME NEW k \in Connections \ Held' PROVE IsClean(k)'
  <2>1. CASE k = on[c]
    <3>1. k # Nobody
      BY <1>3, NobodyAssumption
    <3>2. \A d \in Callers : on'[d] # k
      BY <1>3, <3>1 DEF Held
    <3> QED BY <2>1, <3>1, <3>2
  <2>2. CASE k # on[c]
    <3>1. k \notin Held
      BY <1>3, <2>2 DEF Held, OthersKeep
    <3>2. IsClean(k) /\ conns'[k] = conns[k]
      BY <2>2, <3>1 DEF SessionsInvariant, OthersKeep
    <3> QED BY <3>2 DEF IsClean, OthersKeep, client
  <2> QED BY <2>1, <2>2
<1> QED BY <1>1, <1>2, <1>3 DEF SessionsInvariant

(* A step of a session that holds on to its connection.                    *)
Moves(c, s, p) ==
  /\ on[c] # Nobody /\ on' = on /\ UNCHANGED client
  /\ s \in Settings /\ conns' = [conns EXCEPT ![on[c]] = s]
  /\ p \in {"begin", "limit", "ready", "outside", "clear_timeout", "clear_read_only",
          "leave", "check_in"}
  /\ phase' = [phase EXCEPT ![c] = p]
  /\ failed' \in {failed, [failed EXCEPT ![c] = TRUE]}
  /\ expired' \subseteq Callers
  /\ committed \subseteq committed' /\ committed' \subseteq committed \cup {c}
  /\ doubtful \subseteq doubtful' /\ doubtful' \subseteq Callers
  /\ faulted' \in {faulted, faulted \cup {on[c]}} /\ faults' \in 0 .. MaxFaults

LEMMA MovesFacts ==
  ASSUME TypeOK, NEW c \in Callers, NEW s, NEW p, Moves(c, s, p)
  PROVE  /\ TypeOK' /\ OthersKeep(c)
         /\ Conn(c)' = s /\ phase'[c] = p /\ on[c] \in Connections /\ on'[c] = on[c]
         /\ failed'[c] \in {failed[c], TRUE} /\ (failed' = failed => failed'[c] = failed[c])
         /\ (failed' # failed => failed'[c])
<1>1. on[c] \in Connections
  BY DEF TypeOK, Moves
<1>2. conns' \in [Connections -> Settings] /\ conns'[on[c]] = s
  BY <1>1 DEF TypeOK, Moves
<1>3. /\ phase' \in [Callers -> {"idle", "begin", "limit", "ready", "outside", "clear_timeout", "clear_read_only",
                                  "leave", "check_in", "ok", "failed"}]
      /\ phase'[c] = p /\ \A d \in Callers \ {c} : phase'[d] = phase[d]
  BY <1>1 DEF TypeOK, Moves
<1>4. /\ failed' \in [Callers -> BOOLEAN] /\ \A d \in Callers \ {c} : failed'[d] = failed[d]
      /\ failed'[c] \in {failed[c], TRUE} /\ (failed' = failed => failed'[c] = failed[c])
      /\ (failed' # failed => failed'[c])
  BY DEF TypeOK, Moves
<1>5. /\ \A d \in Callers : on'[d] = Nobody <=> phase'[d] \in {"idle", "ok", "failed"}
      /\ \A d, e \in Callers : on'[d] = on'[e] /\ on'[d] # Nobody => d = e
      /\ on' \in [Callers -> Connections \cup {Nobody}]
  BY <1>1, <1>3 DEF TypeOK, Moves
<1>6. /\ dialect' \in {"sqlite", "mysql", "postgresql"} /\ timed' \in BOOLEAN
      /\ kind' \in [Callers -> {"query", "execute", "connect", "transaction"}]
      /\ wish' \in [Callers -> {"read", "write", "compound"}]
  BY DEF TypeOK, Moves, client
<1>7. TypeOK'
  BY <1>1, <1>2, <1>3, <1>4, <1>5, <1>6 DEF TypeOK, Moves
<1>8. OthersKeep(c)
  BY <1>3, <1>4 DEF OthersKeep, Moves, TypeOK
<1> QED BY <1>1, <1>2, <1>3, <1>4, <1>7, <1>8 DEF Conn, Moves

LEMMA MovesKeep ==
  ASSUME SessionsInvariant, NEW c \in Callers, NEW s, NEW p, Moves(c, s, p),
         (OwnRows(c) /\ OwnMode(c) /\ OwnDeadline(c))', Told(c)'
  PROVE  SessionsInvariant'
<1>1. TypeOK' /\ OthersKeep(c) /\ on'[c] = on[c] /\ on[c] # Nobody
  BY MovesFacts DEF SessionsInvariant, Moves
<1> QED BY <1>1, SessionsApart

(* Read-only mode is set for a query, or the session is on its way out.    *)
LEMMA BeginKeeps ==
  ASSUME SessionsInvariant, NEW c \in Callers, BeginReadOnly(c) \/ BeginReadOnlyFails(c)
  PROVE  SessionsInvariant'
<1> DEFINE s == conns'[on[c]]
           p == phase'[c]
<1> HIDE DEF s, p
<1>0. TypeOK /\ on[c] # Nobody /\ on[c] \in Connections /\ phase[c] = "begin" /\ conns[on[c]] \in Settings
  BY DEF SessionsInvariant, TypeOK, BeginReadOnly, BeginReadOnlyFails
<1>1. OwnRows(c) /\ OwnMode(c) /\ OwnDeadline(c) /\ Told(c)
  BY <1>0 DEF SessionsInvariant
<1>2. /\ conns' = conns \/ \E t : Put(c, t)
      /\ \E q : Goto(c, q)
  BY DEF BeginReadOnly, BeginReadOnlyFails, Put, Goto
<1>3. conns' = [conns EXCEPT ![on[c]] = s] /\ phase' = [phase EXCEPT ![c] = p]
  BY <1>0, <1>2 DEF TypeOK, Put, Goto, s, p
<1>4. /\ committed' = committed
      /\ \/ /\ s = IF dialect = "sqlite" THEN [Conn(c) EXCEPT !.queryOnly = TRUE]
                   ELSE [Conn(c) EXCEPT !.reading = TRUE]
            /\ p = IF Limited(c) THEN "limit" ELSE "ready"
         \/ s = Conn(c) /\ p = "clear_read_only" /\ failed'[c]
  <2>1. CASE BeginReadOnly(c)
    BY <1>0, <1>1, <2>1 DEF BeginReadOnly, Conn, Goto, Put, Fault, Fail, TypeOK, s, p
  <2>2. CASE BeginReadOnlyFails(c)
    BY <1>0, <1>1, <2>2 DEF BeginReadOnlyFails, Conn, Goto, Put, Fault, Fail, TypeOK, s, p
  <2> QED BY <2>1, <2>2
<1>5. s \in Settings
  BY <1>0, <1>4 DEF Settings, Conn
<1>6. Moves(c, s, p)
  <2>1. CASE BeginReadOnly(c)
    BY <1>0, <1>1, <1>3, <1>5, <2>1, FaultsAssumption DEF BeginReadOnly, Fault, Fail, Goto, TypeOK, client, Moves, p
  <2>2. CASE BeginReadOnlyFails(c)
    BY <1>0, <1>1, <1>3, <1>5, <2>2, FaultsAssumption DEF BeginReadOnlyFails, Fault, Fail, Goto, TypeOK, client, Moves, p
  <2> QED BY <2>1, <2>2
<1>7. /\ Conn(c)' = s /\ phase'[c] = p /\ on'[c] = on[c] /\ UNCHANGED client /\ faulted \subseteq faulted'
      /\ failed'[c] \in {failed[c], TRUE} /\ (failed' = failed => failed'[c] = failed[c])
  BY <1>0, <1>6, MovesFacts DEF Moves
<1>8. OwnRows(c)'
  BY <1>0, <1>1, <1>4, <1>7 DEF OwnRows, OwnMode, Conn, client, Settings, Commits
<1>9. OwnMode(c)'
  BY <1>0, <1>1, <1>4, <1>7 DEF OwnMode, Conn, client, Settings
<1>10. OwnDeadline(c)'
  BY <1>0, <1>1, <1>4, <1>7 DEF OwnDeadline, Conn, client, Settings, Limited, Prepared
<1>11. Told(c)'
  BY <1>0, <1>1, <1>4, <1>7 DEF Told, OwnRows, Commits, Compound, client
<1> QED BY <1>6, <1>8, <1>9, <1>10, <1>11, MovesKeep

(* The deadline is set, or what is set of it is marked as left behind.     *)
LEMMA LimitKeeps ==
  ASSUME SessionsInvariant, NEW c \in Callers, ConfigureTimeout(c) \/ ConfigureTimeoutFails(c)
  PROVE  SessionsInvariant'
<1> DEFINE s == conns'[on[c]]
           p == phase'[c]
<1> HIDE DEF s, p
<1>0. TypeOK /\ on[c] # Nobody /\ on[c] \in Connections /\ phase[c] = "limit" /\ conns[on[c]] \in Settings
  BY DEF SessionsInvariant, TypeOK, ConfigureTimeout, ConfigureTimeoutFails
<1>1. OwnRows(c) /\ OwnMode(c) /\ OwnDeadline(c) /\ Told(c)
  BY <1>0 DEF SessionsInvariant
<1>2. /\ conns' = conns \/ \E t : Put(c, t)
      /\ \E q : Goto(c, q)
  BY DEF ConfigureTimeout, ConfigureTimeoutFails, Put, Goto
<1>3. conns' = [conns EXCEPT ![on[c]] = s] /\ phase' = [phase EXCEPT ![c] = p]
  BY <1>0, <1>2 DEF TypeOK, Put, Goto, s, p
<1>4. /\ committed' = committed
      /\ \/ /\ s = IF dialect = "sqlite" THEN [Conn(c) EXCEPT !.handler = c, !.busy = c]
                   ELSE [Conn(c) EXCEPT !.limited = TRUE]
            /\ p = "ready"
         \/ /\ s = IF dialect = "sqlite" THEN [Conn(c) EXCEPT !.handler = c] ELSE Conn(c)
            /\ p = "clear_read_only" /\ failed'[c] /\ on[c] \in faulted'
  <2>1. CASE ConfigureTimeout(c)
    BY <1>0, <1>1, <2>1 DEF ConfigureTimeout, Conn, Goto, Put, Fault, Fail, TypeOK, s, p
  <2>2. CASE ConfigureTimeoutFails(c)
    BY <1>0, <1>1, <2>2 DEF ConfigureTimeoutFails, Conn, Goto, Put, Fault, Fail, TypeOK, s, p
  <2> QED BY <2>1, <2>2
<1>5. s \in Settings
  BY <1>0, <1>4 DEF Settings, Conn
<1>6. Moves(c, s, p)
  <2>1. CASE ConfigureTimeout(c)
    BY <1>0, <1>1, <1>3, <1>5, <2>1, FaultsAssumption DEF ConfigureTimeout, Fault, Fail, Goto, TypeOK, client, Moves, p
  <2>2. CASE ConfigureTimeoutFails(c)
    BY <1>0, <1>1, <1>3, <1>5, <2>2, FaultsAssumption DEF ConfigureTimeoutFails, Fault, Fail, Goto, TypeOK, client, Moves, p
  <2> QED BY <2>1, <2>2
<1>7. /\ Conn(c)' = s /\ phase'[c] = p /\ on'[c] = on[c] /\ UNCHANGED client /\ faulted \subseteq faulted'
      /\ failed'[c] \in {failed[c], TRUE} /\ (failed' = failed => failed'[c] = failed[c])
  BY <1>0, <1>6, MovesFacts DEF Moves
<1>8. OwnRows(c)'
  BY <1>0, <1>1, <1>4, <1>7 DEF OwnRows, OwnMode, Conn, client, Settings, Commits
<1>9. OwnMode(c)'
  BY <1>0, <1>1, <1>4, <1>7 DEF OwnMode, Conn, client, Settings
<1>10. OwnDeadline(c)'
  BY <1>0, <1>1, <1>4, <1>7 DEF OwnDeadline, Conn, client, Settings, Limited, Prepared
<1>11. Told(c)'
  BY <1>0, <1>1, <1>4, <1>7 DEF Told, OwnRows, Commits, Compound, client
<1> QED BY <1>6, <1>8, <1>9, <1>10, <1>11, MovesKeep

(* A read-only transaction takes no row, and what a text writes after the  *)
(* transaction is its own; a failure is no success.                        *)
LEMMA AnswerKeeps ==
  ASSUME SessionsInvariant, NEW c \in Callers, EndTransaction(c) \/ WriteOutside(c) \/ Answer(c) \/ Interrupt(c)
  PROVE  SessionsInvariant'
<1> DEFINE s == conns'[on[c]]
           p == phase'[c]
<1> HIDE DEF s, p
<1>0. TypeOK /\ on[c] # Nobody /\ on[c] \in Connections /\ phase[c] \in {"ready", "outside"} /\ conns[on[c]] \in Settings
  BY DEF SessionsInvariant, TypeOK, EndTransaction, WriteOutside, Answer, Interrupt
<1>1. OwnRows(c) /\ OwnMode(c) /\ OwnDeadline(c) /\ Told(c)
  BY <1>0 DEF SessionsInvariant
<1>2. /\ conns' = conns \/ \E t : Put(c, t)
      /\ phase' = phase \/ \E q : Goto(c, q)
  BY DEF EndTransaction, WriteOutside, Answer, Interrupt, Put, Goto
<1>3. conns' = [conns EXCEPT ![on[c]] = s] /\ phase' = [phase EXCEPT ![c] = p]
  BY <1>0, <1>2 DEF TypeOK, Put, Goto, s, p
<1>4. \/ /\ p = "outside" /\ Compound(c) /\ dialect # "sqlite" /\ failed' = failed /\ committed' = committed
         /\ s = [Conn(c) EXCEPT !.reading = FALSE, !.limited = Conn(c).limited /\ dialect = "mysql"]
      \/ /\ p = "outside" /\ phase[c] = "outside" /\ failed' = failed /\ committed' = committed \cup {c}
         /\ s = Conn(c)
      \/ /\ p = "clear_timeout" /\ committed' = committed
         /\ \/ s = Conn(c) /\ (wish[c] = "read" \/ phase[c] = "outside" \/ failed'[c])
            \/ s = [Conn(c) EXCEPT !.lost = TRUE] /\ failed'[c]
            \/ /\ s = [Conn(c) EXCEPT !.written = @ \cup {c}]
               /\ wish[c] = "write" /\ ~Conn(c).queryOnly /\ ~Conn(c).reading
  <2>1. CASE Answer(c)
    BY <1>0, <1>1, <2>1 DEF Answer, Conn, Goto, Put, Fault, Fail, TypeOK, s, p
  <2>2. CASE Interrupt(c)
    BY <1>0, <1>1, <2>2 DEF Interrupt, Conn, Goto, Put, Fault, Fail, TypeOK, s, p
  <2>3. CASE EndTransaction(c)
    BY <1>0, <1>1, <2>3 DEF EndTransaction, Conn, Goto, Put, TypeOK, s, p
  <2>4. CASE WriteOutside(c)
    BY <1>0, <1>1, <2>4 DEF WriteOutside, Conn, TypeOK, s, p
  <2> QED BY <2>1, <2>2, <2>3, <2>4
<1>5. s \in Settings
  <2>1. Conn(c) \in Settings /\ Conn(c).written \cup {c} \in SUBSET Callers
    BY <1>0 DEF Settings, Conn
  <2>2. [Conn(c) EXCEPT !.written = Conn(c).written \cup {c}] \in Settings
    BY <2>1 DEF Settings
  <2>3. [Conn(c) EXCEPT !.lost = TRUE] \in Settings
    BY <2>1 DEF Settings
  <2>4. [Conn(c) EXCEPT !.reading = FALSE, !.limited = Conn(c).limited /\ dialect = "mysql"] \in Settings
    BY <2>1 DEF Settings
  <2> QED BY <1>4, <2>1, <2>2, <2>3, <2>4
<1>6. Moves(c, s, p)
  <2>1. CASE Answer(c)
    BY <1>0, <1>1, <1>3, <1>5, <2>1, FaultsAssumption DEF Answer, Fault, Fail, Goto, TypeOK, client, Moves, p
  <2>2. CASE Interrupt(c)
    BY <1>0, <1>1, <1>3, <1>5, <2>2, FaultsAssumption DEF Interrupt, Fault, Fail, Goto, TypeOK, client, Moves, p
  <2>3. CASE EndTransaction(c)
    BY <1>0, <1>1, <1>3, <1>5, <2>3, FaultsAssumption DEF EndTransaction, Goto, TypeOK, client, Moves, p
  <2>4. CASE WriteOutside(c)
    BY <1>0, <1>1, <1>3, <1>5, <2>4, FaultsAssumption DEF WriteOutside, TypeOK, client, Moves, p
  <2> QED BY <2>1, <2>2, <2>3, <2>4
<1>7. /\ Conn(c)' = s /\ phase'[c] = p /\ on'[c] = on[c] /\ UNCHANGED client /\ faulted \subseteq faulted'
      /\ failed'[c] \in {failed[c], TRUE} /\ (failed' = failed => failed'[c] = failed[c])
  BY <1>0, <1>6, MovesFacts DEF Moves
<1>8. OwnRows(c)'
  BY <1>0, <1>1, <1>4, <1>7 DEF OwnRows, OwnMode, Told, Compound, Conn, client, Settings, Commits
<1>9. OwnMode(c)'
  BY <1>0, <1>1, <1>4, <1>7 DEF OwnMode, Conn, client, Settings
<1>10. OwnDeadline(c)'
  BY <1>0, <1>1, <1>4, <1>7 DEF OwnDeadline, Conn, client, Settings, Limited, Prepared
<1>11. Told(c)'
  BY <1>0, <1>1, <1>4, <1>7 DEF Told, OwnRows, Commits, Compound, client
<1> QED BY <1>6, <1>8, <1>9, <1>10, <1>11, MovesKeep

(* The deadline is taken off again, or is marked as left behind.           *)
LEMMA ClearTimeoutKeeps ==
  ASSUME SessionsInvariant, NEW c \in Callers, ClearTimeout(c)
  PROVE  SessionsInvariant'
<1> DEFINE s == conns'[on[c]]
           p == phase'[c]
<1> HIDE DEF s, p
<1>0. TypeOK /\ on[c] # Nobody /\ on[c] \in Connections /\ phase[c] = "clear_timeout" /\ conns[on[c]] \in Settings
  BY DEF SessionsInvariant, TypeOK, ClearTimeout
<1>1. OwnRows(c) /\ OwnMode(c) /\ OwnDeadline(c) /\ Told(c)
  BY <1>0 DEF SessionsInvariant
<1>2. /\ conns' = conns \/ \E t : Put(c, t)
      /\ \E q : Goto(c, q)
  BY DEF ClearTimeout, Put, Goto
<1>3. conns' = [conns EXCEPT ![on[c]] = s] /\ phase' = [phase EXCEPT ![c] = p]
  BY <1>0, <1>2 DEF TypeOK, Put, Goto, s, p
<1>4. /\ committed' = committed /\ failed' = failed /\ p = "clear_read_only"
      /\ \/ /\ dialect = "sqlite" /\ Limited(c)
            /\ s = [Conn(c) EXCEPT !.handler = Nobody, !.busy = Nobody]
         \/ /\ s = [Conn(c) EXCEPT !.handler = Nobody] /\ on[c] \in faulted'
         \/ s = Conn(c) /\ ~(dialect = "sqlite" /\ Limited(c))
  BY <1>0, <1>1 DEF ClearTimeout, Conn, Goto, Put, Fault, Fail, TypeOK, s, p
<1>5. s \in Settings
  BY <1>0, <1>4 DEF Settings, Conn
<1>6. Moves(c, s, p)
  BY <1>0, <1>1, <1>3, <1>5, FaultsAssumption DEF ClearTimeout, Fault, Fail, Goto, TypeOK, client, Moves, p
<1>7. /\ Conn(c)' = s /\ phase'[c] = p /\ on'[c] = on[c] /\ UNCHANGED client /\ faulted \subseteq faulted'
      /\ failed'[c] \in {failed[c], TRUE} /\ (failed' = failed => failed'[c] = failed[c])
  BY <1>0, <1>6, MovesFacts DEF Moves
<1>8. OwnRows(c)'
  BY <1>0, <1>1, <1>4, <1>7 DEF OwnRows, OwnMode, Conn, client, Settings, Commits
<1>9. OwnMode(c)'
  BY <1>0, <1>1, <1>4, <1>7 DEF OwnMode, Conn, client, Settings
<1>10. OwnDeadline(c)'
  <2>1. Limited(c)' <=> Limited(c)
    BY <1>7 DEF client, Limited, Prepared
  <2>2. /\ s.handler # Nobody \/ s.busy # Nobody => dialect = "sqlite" /\ on[c] \in faulted'
        /\ s.limited => timed /\ dialect # "sqlite"
    BY <1>0, <1>1, <1>4, <1>7 DEF OwnDeadline, Conn, Settings
  <2> QED BY <1>4, <1>7, <2>1, <2>2 DEF OwnDeadline, client
<1>11. Told(c)'
  BY <1>0, <1>1, <1>4, <1>7 DEF Told, OwnRows, Commits, Compound, client
<1> QED BY <1>6, <1>8, <1>9, <1>10, <1>11, MovesKeep

(* And the read-only mode.                                                 *)
LEMMA ClearReadOnlyKeeps ==
  ASSUME SessionsInvariant, NEW c \in Callers, ClearReadOnly(c)
  PROVE  SessionsInvariant'
<1> DEFINE s == conns'[on[c]]
           p == phase'[c]
<1> HIDE DEF s, p
<1>0. TypeOK /\ on[c] # Nobody /\ on[c] \in Connections /\ phase[c] = "clear_read_only" /\ conns[on[c]] \in Settings
  BY DEF SessionsInvariant, TypeOK, ClearReadOnly
<1>1. OwnRows(c) /\ OwnMode(c) /\ OwnDeadline(c) /\ Told(c)
  BY <1>0 DEF SessionsInvariant
<1>2. /\ conns' = conns \/ \E t : Put(c, t)
      /\ \E q : Goto(c, q)
  BY DEF ClearReadOnly, Put, Goto
<1>3. conns' = [conns EXCEPT ![on[c]] = s] /\ phase' = [phase EXCEPT ![c] = p]
  BY <1>0, <1>2 DEF TypeOK, Put, Goto, s, p
<1>4. /\ committed' = committed /\ failed' = failed /\ p = "leave"
      /\ \/ /\ dialect = "sqlite" /\ kind[c] = "query"
            /\ s = [Conn(c) EXCEPT !.queryOnly = FALSE, !.written = {}]
         \/ s = Conn(c) /\ (dialect = "sqlite" /\ kind[c] = "query" => on[c] \in faulted')
  BY <1>0, <1>1 DEF ClearReadOnly, Conn, Goto, Put, Fault, Fail, TypeOK, s, p
<1>5. s \in Settings
  BY <1>0, <1>4 DEF Settings, Conn
<1>6. Moves(c, s, p)
  BY <1>0, <1>1, <1>3, <1>5, FaultsAssumption DEF ClearReadOnly, Fault, Fail, Goto, TypeOK, client, Moves, p
<1>7. /\ Conn(c)' = s /\ phase'[c] = p /\ on'[c] = on[c] /\ UNCHANGED client /\ faulted \subseteq faulted'
      /\ failed'[c] \in {failed[c], TRUE} /\ (failed' = failed => failed'[c] = failed[c])
  BY <1>0, <1>6, MovesFacts DEF Moves
<1>8. OwnRows(c)'
  BY <1>0, <1>1, <1>4, <1>7 DEF OwnRows, OwnMode, Conn, client, Settings, Commits
<1>9. OwnMode(c)'
  BY <1>0, <1>1, <1>4, <1>7 DEF OwnMode, Conn, client, Settings
<1>10. OwnDeadline(c)'
  BY <1>0, <1>1, <1>4, <1>7 DEF OwnDeadline, Conn, client, Settings, Limited, Prepared
<1>11. Told(c)'
  BY <1>0, <1>1, <1>4, <1>7 DEF Told, OwnRows, Commits, Compound, client
<1> QED BY <1>6, <1>8, <1>9, <1>10, <1>11, MovesKeep

(* A commit takes the rows of its own session to the database.             *)
LEMMA LeaveKeeps ==
  ASSUME SessionsInvariant, NEW c \in Callers, Commit(c) \/ Leave(c)
  PROVE  SessionsInvariant'
<1> DEFINE s == conns'[on[c]]
           p == phase'[c]
<1> HIDE DEF s, p
<1>0. TypeOK /\ on[c] # Nobody /\ on[c] \in Connections /\ phase[c] = "leave" /\ conns[on[c]] \in Settings
  BY DEF SessionsInvariant, TypeOK, Commit, Leave
<1>1. OwnRows(c) /\ OwnMode(c) /\ OwnDeadline(c) /\ Told(c)
  BY <1>0 DEF SessionsInvariant
<1>2. /\ conns' = conns \/ \E t : Put(c, t)
      /\ \E q : Goto(c, q)
  BY DEF Commit, Leave, Put, Goto
<1>3. conns' = [conns EXCEPT ![on[c]] = s] /\ phase' = [phase EXCEPT ![c] = p]
  BY <1>0, <1>2 DEF TypeOK, Put, Goto, s, p
<1>4. /\ p = "check_in" /\ doubtful \subseteq doubtful'
      /\ \/ /\ Commits(c) /\ s = [Conn(c) EXCEPT !.written = {}] /\ ~failed[c]
            /\ \/ committed' = committed \cup Conn(c).written /\ failed' = failed
               \/ committed' \subseteq committed \cup Conn(c).written /\ failed'[c] /\ c \in doubtful'
         \/ s = Conn(c) /\ committed' = committed /\ failed' = failed /\ (failed[c] \/ ~Commits(c))
  <2>1. CASE Commit(c)
    BY <1>0, <1>1, <2>1 DEF Commit, Conn, Goto, Put, Fault, Fail, TypeOK, s, p, OwnRows
  <2>2. CASE Leave(c)
    BY <1>0, <1>1, <2>2 DEF Leave, Conn, Goto, Put, Fault, Fail, TypeOK, s, p, OwnRows
  <2> QED BY <2>1, <2>2
<1>5. s \in Settings
  BY <1>0, <1>4 DEF Settings, Conn
<1>6. Moves(c, s, p)
  <2>1. CASE Commit(c)
    BY <1>0, <1>1, <1>3, <1>5, <2>1, FaultsAssumption DEF Commit, Fault, Fail, Goto, TypeOK, client, Moves, p, OwnRows
  <2>2. CASE Leave(c)
    BY <1>0, <1>1, <1>3, <1>5, <2>2, FaultsAssumption DEF Leave, Fault, Fail, Goto, TypeOK, client, Moves, p, OwnRows
  <2> QED BY <2>1, <2>2
<1>7. /\ Conn(c)' = s /\ phase'[c] = p /\ on'[c] = on[c] /\ UNCHANGED client /\ faulted \subseteq faulted'
      /\ failed'[c] \in {failed[c], TRUE} /\ (failed' = failed => failed'[c] = failed[c])
  BY <1>0, <1>6, MovesFacts DEF Moves
<1>8. OwnRows(c)'
  BY <1>0, <1>1, <1>4, <1>7 DEF OwnRows, OwnMode, Conn, client, Settings, Commits
<1>9. OwnMode(c)'
  BY <1>0, <1>1, <1>4, <1>7 DEF OwnMode, Conn, client, Settings
<1>10. OwnDeadline(c)'
  BY <1>0, <1>1, <1>4, <1>7 DEF OwnDeadline, Conn, client, Settings, Limited, Prepared
<1>11. Told(c)'
  BY <1>0, <1>1, <1>4, <1>7 DEF Told, OwnRows, Commits, Compound, client
<1> QED BY <1>6, <1>8, <1>9, <1>10, <1>11, MovesKeep

-----------------------------------------------------------------------------

(* A connection is taken that nobody holds.                                *)
LEMMA CheckOutKeeps ==
  ASSUME SessionsInvariant, NEW c \in Callers, CheckOut(c)
  PROVE  SessionsInvariant'
<1>0. TypeOK /\ phase[c] = "idle" /\ on[c] = Nobody /\ Nobody \notin Connections
  BY NobodyAssumption DEF SessionsInvariant, TypeOK, CheckOut
<1>1. PICK k \in Connections \ Held : on' = [on EXCEPT ![c] = k]
  BY DEF CheckOut
<1>2. /\ UNCHANGED <<client, failed, expired, conns, committed, doubtful, faulted, faults>>
      /\ phase' = [phase EXCEPT ![c] = IF kind[c] = "query" THEN "begin"
                                        ELSE IF Limited(c) THEN "limit" ELSE "ready"]
  BY DEF CheckOut, Goto
<1>3. on'[c] = k /\ (\A d \in Callers \ {c} : on'[d] = on[d] /\ phase'[d] = phase[d])
  BY <1>0, <1>1, <1>2 DEF TypeOK
<1>4. \A d \in Callers : on[d] # k
  BY <1>0, <1>1 DEF Held
<1>5. phase'[c] = IF kind[c] = "query" THEN "begin" ELSE IF Limited(c) THEN "limit" ELSE "ready"
  BY <1>0, <1>2 DEF TypeOK
<1>6. TypeOK'
  <2>1. \A d \in Callers : on'[d] = Nobody <=> phase'[d] \in {"idle", "ok", "failed"}
    BY <1>0, <1>1, <1>3, <1>5 DEF TypeOK
  <2>2. \A d, e \in Callers : on'[d] = on'[e] /\ on'[d] # Nobody => d = e
    BY <1>0, <1>3, <1>4 DEF TypeOK
  <2>3. on' \in [Callers -> Connections \cup {Nobody}]
    BY <1>0, <1>1 DEF TypeOK
  <2>4. phase' \in [Callers -> {"idle", "begin", "limit", "ready", "outside", "clear_timeout", "clear_read_only",
                                "leave", "check_in", "ok", "failed"}]
    BY <1>0, <1>2 DEF TypeOK
  <2> QED BY <1>0, <1>2, <2>1, <2>2, <2>3, <2>4 DEF TypeOK, client
<1>7. OthersKeep(c)
  BY <1>2, <1>3 DEF OthersKeep
<1>8. IsClean(k) /\ Conn(c)' = conns[k]
  BY <1>1, <1>2, <1>3 DEF SessionsInvariant, Conn
<1>9. OwnRows(c)' /\ OwnMode(c)' /\ OwnDeadline(c)'
  <2>1. OwnRows(c)'
    BY <1>5, <1>8 DEF OwnRows, IsClean
  <2>2. OwnMode(c)'
    BY <1>2, <1>3, <1>5, <1>8 DEF OwnMode, IsClean, client
  <2>3. OwnDeadline(c)'
    BY <1>2, <1>3, <1>5, <1>8 DEF OwnDeadline, IsClean, client, Limited, Prepared
  <2> QED BY <2>1, <2>2, <2>3
<1>10. Told(c)'
  BY <1>0, <1>2, <1>5 DEF Told, SessionsInvariant, Commits, Compound, client
<1> QED BY <1>0, <1>6, <1>7, <1>9, <1>10, SessionsApart

(* A connection is given back as the next session expects it.              *)
LEMMA CheckInKeeps ==
  ASSUME SessionsInvariant, NEW c \in Callers, CheckIn(c)
  PROVE  SessionsInvariant'
<1>0. /\ TypeOK /\ phase[c] = "check_in" /\ on[c] # Nobody /\ on[c] \in Connections
      /\ Conn(c) \in Settings /\ OwnRows(c) /\ OwnMode(c) /\ OwnDeadline(c) /\ Told(c)
  BY DEF SessionsInvariant, TypeOK, CheckIn, Conn
<1> DEFINE s == IF Conn(c).lost THEN Fresh
                ELSE [Conn(c) EXCEPT !.written = {}, !.reading = FALSE,
                                     !.limited = Conn(c).limited /\ dialect = "mysql"]
<1>1. /\ UNCHANGED <<client, failed, expired, committed, doubtful, faulted, faults>>
      /\ phase' = [phase EXCEPT ![c] = IF failed[c] THEN "failed" ELSE "ok"]
      /\ on' = [on EXCEPT ![c] = Nobody] /\ conns' = [conns EXCEPT ![on[c]] = s]
  BY DEF CheckIn, Goto, Put
<1>2. s \in Settings /\ s.written = {} /\ ~s.reading
  BY <1>0 DEF Settings, Fresh
<1>3. /\ s.queryOnly => Conn(c).queryOnly
      /\ s.handler # Nobody => Conn(c).handler # Nobody
      /\ s.busy # Nobody => Conn(c).busy # Nobody
      /\ s.limited => Conn(c).limited /\ dialect = "mysql"
  BY <1>0 DEF Settings, Fresh
<1> HIDE DEF s
<1>4. /\ on'[c] = Nobody /\ phase'[c] = IF failed[c] THEN "failed" ELSE "ok"
      /\ \A d \in Callers \ {c} : on'[d] = on[d] /\ phase'[d] = phase[d]
      /\ conns'[on[c]] = s /\ \A k \in Connections \ {on[c]} : conns'[k] = conns[k]
  BY <1>0, <1>1 DEF TypeOK
<1>5. TypeOK'
  <2>1. \A d \in Callers : on'[d] = Nobody <=> phase'[d] \in {"idle", "ok", "failed"}
    BY <1>0, <1>4 DEF TypeOK
  <2>2. \A d, e \in Callers : on'[d] = on'[e] /\ on'[d] # Nobody => d = e
    BY <1>0, <1>4 DEF TypeOK
  <2>3. on' \in [Callers -> Connections \cup {Nobody}] /\ conns' \in [Connections -> Settings]
    BY <1>0, <1>1, <1>2 DEF TypeOK
  <2>4. phase' \in [Callers -> {"idle", "begin", "limit", "ready", "outside", "clear_timeout", "clear_read_only",
                                "leave", "check_in", "ok", "failed"}]
    BY <1>0, <1>1 DEF TypeOK
  <2> QED BY <1>0, <1>1, <2>1, <2>2, <2>3, <2>4 DEF TypeOK, client
<1>6. OthersKeep(c)
  BY <1>1, <1>4 DEF OthersKeep
<1>7. \A k \in Connections : k = on[c] /\ on'[c] = Nobody => IsClean(k)'
  <2>1. ASSUME NEW k \in Connections, k = on[c] PROVE IsClean(k)'
    <3>1. conns'[k] = s /\ k = on[c]
      BY <1>4, <2>1
    <3> QED BY <1>0, <1>1, <1>2, <1>3, <3>1 DEF IsClean, OwnMode, OwnDeadline, client
  <2> QED BY <2>1
<1>8. Told(c)'
  BY <1>0, <1>1, <1>4 DEF Told, Commits, Compound, client
<1> QED BY <1>0, <1>4, <1>5, <1>6, <1>7, <1>8, SessionsApart

(* A session that gets no connection touches none.                         *)
LEMMA CheckOutFailsKeeps ==
  ASSUME SessionsInvariant, NEW c \in Callers, CheckOutFails(c)
  PROVE  SessionsInvariant'
<1>0. TypeOK /\ phase[c] = "idle" /\ on[c] = Nobody /\ Nobody \notin Connections /\ Told(c)
  BY NobodyAssumption DEF SessionsInvariant, TypeOK, CheckOutFails
<1>1. /\ UNCHANGED <<client, on, failed, expired, conns, committed, doubtful, faulted, faults>>
      /\ phase' = [phase EXCEPT ![c] = "failed"]
  BY DEF CheckOutFails, Goto
<1>2. phase'[c] = "failed" /\ \A d \in Callers \ {c} : phase'[d] = phase[d]
  BY <1>0, <1>1 DEF TypeOK
<1>3. TypeOK'
  BY <1>0, <1>1, <1>2 DEF TypeOK, client
<1>4. OthersKeep(c) /\ Told(c)'
  BY <1>0, <1>1, <1>2 DEF OthersKeep, Told, Commits, Compound, client
<1> QED BY <1>0, <1>1, <1>3, <1>4, SessionsApart

LEMMA NextKeepsSessions == SessionsInvariant /\ [Next]_vars => SessionsInvariant'
<1> SUFFICES ASSUME SessionsInvariant, [Next]_vars PROVE SessionsInvariant' OBVIOUS
<1>1. ASSUME NEW c \in Callers, Proceed(c) \/ EndTransaction(c) \/ WriteOutside(c) \/ Answer(c) \/ Interrupt(c)
      PROVE  SessionsInvariant'
  BY <1>1, CheckOutKeeps, CheckOutFailsKeeps, BeginKeeps, LimitKeeps, AnswerKeeps, ClearTimeoutKeeps,
     ClearReadOnlyKeeps, LeaveKeeps, CheckInKeeps DEF Proceed
<1>2. CASE (\E c \in Callers : Expire(c)) \/ Done \/ UNCHANGED vars
  <2>1. /\ UNCHANGED <<client, phase, on, failed, conns, committed, doubtful, faulted, faults>>
        /\ expired' = expired \/ \E c \in Callers : expired' = expired \cup {c}
    BY <1>2 DEF Expire, Done, vars, client
  <2>2. TypeOK'
    BY <2>1 DEF SessionsInvariant, TypeOK, client
  <2>3. \A k \in Connections \ Held' : IsClean(k)'
    BY <2>1 DEF SessionsInvariant, Held, IsClean, client
  <2>4. \A c \in Callers : Told(c)'
    BY <2>1 DEF SessionsInvariant, Told, Commits, Compound, client
  <2>5. ASSUME NEW c \in Callers, on'[c] # Nobody PROVE (OwnRows(c) /\ OwnMode(c) /\ OwnDeadline(c))'
    <3>1. OwnRows(c) /\ OwnMode(c) /\ OwnDeadline(c)
      BY <2>1, <2>5 DEF SessionsInvariant
    <3> QED BY <2>1, <3>1 DEF OwnRows, OwnMode, OwnDeadline, Conn, Commits, Limited, Prepared, client
  <2> QED BY <2>2, <2>3, <2>4, <2>5 DEF SessionsInvariant
<1> QED BY <1>1, <1>2 DEF Next

-----------------------------------------------------------------------------

(* The inductive invariant of the sessions of a client holds.              *)
THEOREM SessionsInvariantHolds == Spec => []SessionsInvariant
  BY InitialSessions, NextKeepsSessions, PTL DEF Spec

(* No query writes, and only what commits reaches the database, unless a   *)
(* text ends the transaction it was put into.                              *)
THEOREM QueriesNeverWrite == Spec => []ReadOnlyNeverWrites
<1>1. ASSUME SessionsInvariant PROVE ReadOnlyNeverWrites
  <2>1. ASSUME NEW k \in Connections, NEW c \in Callers, c \in conns[k].written PROVE kind[c] # "query"
    <3>1. k \in Held
      BY <1>1, <2>1 DEF SessionsInvariant, IsClean
    <3>2. PICK d \in Callers : on[d] = k /\ on[d] # Nobody
      BY <3>1 DEF Held
    <3> QED BY <1>1, <2>1, <3>2 DEF SessionsInvariant, OwnRows, Conn
  <2>2. \A c \in committed : Commits(c) \/ Compound(c)
    BY <1>1 DEF SessionsInvariant, Told, TypeOK
  <2> QED BY <2>1, <2>2 DEF ReadOnlyNeverWrites
<1> QED BY <1>1, SessionsInvariantHolds, PTL

(* What a caller is told of its rows is true, and nobody commits rows of   *)
(* another session.                                                        *)
THEOREM CallersAreToldTheTruth == Spec => []ReportIsTrue
<1>1. SessionsInvariant => ReportIsTrue
  BY DEF SessionsInvariant, Told, IsClean, ReportIsTrue
<1> QED BY <1>1, SessionsInvariantHolds, PTL

(* A session has its own settings and inherits none but the limit of MySQL *)
(* and what could not be put back.                                         *)
THEOREM SettingsStayApart == Spec => []SettingsAreOwn
<1>1. ASSUME SessionsInvariant PROVE SettingsAreOwn
  <2>1. NothingIsInherited
    BY <1>1 DEF SessionsInvariant, IsClean, NothingIsInherited
  <2>2. DeadlineIsOwn
    BY <1>1 DEF SessionsInvariant, OwnDeadline, DeadlineIsOwn, TypeOK
  <2> QED BY <1>1, <2>1, <2>2 DEF SettingsAreOwn, SessionsInvariant
<1> QED BY <1>1, SessionsInvariantHolds, PTL

-----------------------------------------------------------------------------
(* The upsert.                                                             *)

(* What the SELECTs of the transaction still see of a row that is gone, or *)
(* one of them has seen, another session has deleted.                      *)
SeenIsGoneOnlyIfDeleted ==
  \A k \in Key : seen # <<>> /\ seen[1][k] # Absent /\ stored[k] = Absent => k \in deleted
FoundIsGoneOnlyIfDeleted ==
  stage = "write" /\ found => Pending.key \in deleted \/ Current[Pending.key] # Absent

(* Of the rows behind it, the transaction has written the last one with    *)
(* each key, unless the row was deleted from under it.                     *)
LastOfThem(i) == \A j \in 1 .. row : j > i => block[j].key # block[i].key
RowsAreWritten ==
  stage \in {"lookup", "write"} =>
    \A i \in 1 .. row :
      block[i].key \in deleted \/ (LastOfThem(i) => own[block[i].key] = block[i].val)

(* As long as nobody else commits, SELECT and INSERT see the same table.   *)
AloneSeesCurrent ==
  others = 0 /\ stage \in {"lookup", "write"} =>
    /\ seen # <<>> => seen[1] = stored
    /\ stage = "write" => (found <=> Current[Pending.key] # Absent)

(* The invariant of the upsert, inductive.                                 *)
UpsertInvariant ==
  /\ UpsertTypeOK
  /\ stage = "write" => row < Len(block)
  /\ SeenIsGoneOnlyIfDeleted /\ FoundIsGoneOnlyIfDeleted
  /\ RowsAreWritten /\ AloneSeesCurrent /\ AloneItNeverCollides

-----------------------------------------------------------------------------

(* The row at hand has a key and a value of the table.                     *)
LEMMA PendingIsRow ==
  ASSUME UpsertTypeOK, row < Len(block)
  PROVE  /\ Pending \in Row /\ Pending.key \in Key /\ Pending.val \in Value /\ Pending.val # Absent
         /\ block \in Seq(Row) /\ Len(block) \in Nat /\ row \in Nat /\ row + 1 \in 1 .. Len(block)
<1>1. block \in Seq(Row) /\ Len(block) \in Nat /\ row \in Nat /\ row + 1 \in 1 .. Len(block)
  BY BlocksAssumption DEF UpsertTypeOK
<1>2. Pending \in Row
  BY <1>1 DEF Pending
<1> QED BY <1>1, <1>2, AbsentAssumption DEF Row

(* Reading through the own writes keeps to the type of a table.            *)
LEMMA OverIsTable ==
  ASSUME NEW w \in Table, NEW t \in Table
  PROVE  /\ Over(w, t) \in Table
         /\ \A k \in Key : Over(w, t)[k] = IF w[k] = Absent THEN t[k] ELSE w[k]
  BY DEF Over, Table

LEMMA InitialUpsert == UpsertInit => UpsertInvariant
<1> SUFFICES ASSUME UpsertInit PROVE UpsertInvariant OBVIOUS
<1>1. Len(block) \in Nat
  BY BlocksAssumption DEF UpsertInit
<1>2. Nothing \in Table
  BY DEF Nothing, Table
<1>3. 0 \in 0 .. Len(block) /\ 0 \in 0 .. MaxOther
  BY <1>1, OthersAssumption
<1>4. UpsertTypeOK
  BY <1>2, <1>3, IsolationAssumption DEF UpsertInit, UpsertTypeOK
<1> QED
  BY <1>4 DEF UpsertInit, UpsertInvariant, SeenIsGoneOnlyIfDeleted, FoundIsGoneOnlyIfDeleted,
              RowsAreWritten, AloneSeesCurrent, AloneItNeverCollides

(* A row that is written: the last of its key is now this one.             *)
LEMMA WritingKeepsInvariant ==
  ASSUME UpsertInvariant, stage = "write", WriteOwn
  PROVE  UpsertInvariant'
<1>1. row < Len(block)
  BY DEF UpsertInvariant
<1> USE PendingIsRow, <1>1 DEF UpsertInvariant, WriteOwn
<1>2. UpsertTypeOK'
  BY DEF UpsertTypeOK, Table
<1>3. SeenIsGoneOnlyIfDeleted' /\ FoundIsGoneOnlyIfDeleted' /\ AloneSeesCurrent' /\ AloneItNeverCollides'
  BY DEF SeenIsGoneOnlyIfDeleted, FoundIsGoneOnlyIfDeleted, AloneSeesCurrent, AloneItNeverCollides
<1>4. RowsAreWritten'
  <2> SUFFICES ASSUME NEW i \in 1 .. row', block[i].key \notin deleted, LastOfThem(i)'
               PROVE  own'[block[i].key] = block[i].val
    BY DEF RowsAreWritten
  <2>0. own \in Table /\ row \in Nat /\ Pending = block[row + 1]
    BY DEF UpsertTypeOK, Pending
  <2>1. CASE i = row + 1
    BY <2>0, <2>1 DEF Table
  <2>2. CASE i # row + 1
    <3>1. i \in 1 .. row
      BY <2>0, <2>2
    <3>2. block[i] \in Row /\ block[i].key # Pending.key
      BY <2>0, <3>1 DEF LastOfThem
    <3>3. own[block[i].key] = block[i].val
      BY <2>0, <3>1 DEF RowsAreWritten, LastOfThem
    <3> QED BY <2>0, <3>2, <3>3 DEF Table, Row
  <2> QED BY <2>1, <2>2
<1> QED BY <1>2, <1>3, <1>4

(* Looking a key up: what is found is there, or was and was deleted.       *)
LEMMA LookupKeepsInvariant ==
  ASSUME UpsertInvariant, Lookup PROVE UpsertInvariant'
<1> USE PendingIsRow DEF UpsertInvariant, Lookup
<1>1. Pending' = Pending /\ Current' = Current /\ Pending.key \in Key /\ own \in Table /\ stored \in Table
  BY DEF Pending, Current, UpsertTypeOK
<1>2. UpsertTypeOK'
  BY DEF UpsertTypeOK
<1>3. SeenIsGoneOnlyIfDeleted'
  BY <1>1 DEF SeenIsGoneOnlyIfDeleted
<1>4. /\ HasSnapshot => seen # <<>> /\ seen[1] \in Table
      /\ Visible[Pending.key] =
           IF own[Pending.key] = Absent
           THEN (IF HasSnapshot THEN seen[1] ELSE stored)[Pending.key] ELSE own[Pending.key]
      /\ Current[Pending.key] =
           IF own[Pending.key] = Absent THEN stored[Pending.key] ELSE own[Pending.key]
  BY <1>1, OverIsTable DEF HasSnapshot, UpsertTypeOK, Visible, Current
<1>5. FoundIsGoneOnlyIfDeleted'
  BY <1>1, <1>4 DEF FoundIsGoneOnlyIfDeleted, SeenIsGoneOnlyIfDeleted
<1>6. RowsAreWritten'
  BY DEF RowsAreWritten, LastOfThem
<1>7. AloneSeesCurrent'
  BY <1>1, <1>4 DEF AloneSeesCurrent
<1>8. AloneItNeverCollides' /\ (stage' = "write" => row' < Len(block'))
  BY DEF AloneItNeverCollides
<1> QED BY <1>2, <1>3, <1>5, <1>6, <1>7, <1>8

(* An UPDATE that finds no row passes over a deleted one.                  *)
LEMMA PassingOverKeepsInvariant ==
  ASSUME UpsertInvariant, UpdateNothing PROVE UpsertInvariant'
<1> USE PendingIsRow DEF UpsertInvariant, UpdateNothing
<1>1. UpsertTypeOK'
  BY DEF UpsertTypeOK
<1>2. Pending.key \in deleted /\ Pending = block[row + 1]
  BY DEF FoundIsGoneOnlyIfDeleted, Pending
<1>3. SeenIsGoneOnlyIfDeleted' /\ FoundIsGoneOnlyIfDeleted' /\ AloneSeesCurrent' /\ AloneItNeverCollides'
  BY DEF SeenIsGoneOnlyIfDeleted, FoundIsGoneOnlyIfDeleted, AloneSeesCurrent, AloneItNeverCollides
<1>4. RowsAreWritten'
  <2> SUFFICES ASSUME NEW i \in 1 .. row', block[i].key \notin deleted, LastOfThem(i)'
               PROVE  own[block[i].key] = block[i].val
    BY DEF RowsAreWritten
  <2>1. i \in 1 .. row
    BY <1>2
  <2> QED BY <2>1 DEF RowsAreWritten, LastOfThem
<1> QED BY <1>1, <1>3, <1>4

(* What another session commits is written down where it deletes.          *)
LEMMA OthersKeepInvariant ==
  ASSUME UpsertInvariant, NEW k \in Key, NEW v \in Value \cup {Absent}, Other(k, v)
  PROVE  UpsertInvariant'
<1> USE PendingIsRow DEF UpsertInvariant, Other
<1>1. others' # 0 /\ UpsertTypeOK' /\ own \in Table /\ stored \in Table /\ stored' \in Table
  BY OthersAssumption DEF UpsertTypeOK, Table
<1>2. \A c \in Key : stored'[c] = Absent => stored[c] = Absent \/ c \in deleted'
  BY <1>1 DEF Table
<1>3. SeenIsGoneOnlyIfDeleted'
  BY <1>2 DEF SeenIsGoneOnlyIfDeleted
<1>4. FoundIsGoneOnlyIfDeleted'
  <2> SUFFICES ASSUME stage = "write", found PROVE Pending.key \in deleted' \/ Current'[Pending.key] # Absent
    BY DEF FoundIsGoneOnlyIfDeleted, Pending
  <2>1. /\ Pending.key \in Key
        /\ Current[Pending.key] = IF own[Pending.key] = Absent THEN stored[Pending.key] ELSE own[Pending.key]
    BY <1>1, OverIsTable DEF Current
  <2>2. Current' = Over(own, stored')
    BY DEF Current
  <2>3. Current'[Pending.key] = IF own[Pending.key] = Absent THEN stored'[Pending.key] ELSE own[Pending.key]
    BY <1>1, <2>1, <2>2, OverIsTable
  <2> QED BY <1>2, <2>1, <2>3 DEF FoundIsGoneOnlyIfDeleted
<1>5. RowsAreWritten'
  BY DEF RowsAreWritten, LastOfThem
<1>6. AloneSeesCurrent' /\ AloneItNeverCollides'
  BY <1>1 DEF AloneSeesCurrent, AloneItNeverCollides, UpsertTypeOK
<1> QED BY <1>1, <1>3, <1>4, <1>5, <1>6

LEMMA NextKeepsUpsert == UpsertInvariant /\ [UpsertNext]_upsertVars => UpsertInvariant'
<1> SUFFICES ASSUME UpsertInvariant, [UpsertNext]_upsertVars PROVE UpsertInvariant' OBVIOUS
<1>1. CASE Lookup
  BY <1>1, LookupKeepsInvariant
<1>2. CASE InsertRow \/ UpdateRow
  BY <1>2, WritingKeepsInvariant DEF InsertRow, UpdateRow
<1>3. CASE InsertDuplicate
  <2>1. UpsertTypeOK'
    BY <1>3 DEF InsertDuplicate, UpsertInvariant, UpsertTypeOK, Table, Nothing
  <2>2. others # 0
    BY <1>3 DEF InsertDuplicate, UpsertInvariant, AloneSeesCurrent
  <2> QED
    BY <1>3, <2>1, <2>2 DEF InsertDuplicate, UpsertInvariant, UpsertTypeOK, SeenIsGoneOnlyIfDeleted,
       FoundIsGoneOnlyIfDeleted, RowsAreWritten, AloneSeesCurrent, AloneItNeverCollides
<1>4. CASE UpdateNothing
  BY <1>4, PassingOverKeepsInvariant
<1>5. CASE CommitBlock
  <2>1. Current \in Table
    BY <1>5, OverIsTable DEF UpsertInvariant, UpsertTypeOK, Current
  <2>2. UpsertTypeOK'
    BY <1>5, <2>1 DEF CommitBlock, UpsertInvariant, UpsertTypeOK, Table, Nothing
  <2>3. \A k \in Key : Current[k] = Absent => stored[k] = Absent
    BY OverIsTable DEF UpsertInvariant, UpsertTypeOK, Current
  <2>4. SeenIsGoneOnlyIfDeleted'
    BY <1>5, <2>3 DEF CommitBlock, UpsertInvariant, SeenIsGoneOnlyIfDeleted
  <2> QED
    BY <1>5, <2>2, <2>4 DEF CommitBlock, UpsertInvariant, FoundIsGoneOnlyIfDeleted, RowsAreWritten,
       AloneSeesCurrent, AloneItNeverCollides
<1>6. CASE \E k \in Key, v \in Value \cup {Absent} : Other(k, v)
  BY <1>6, OthersKeepInvariant
<1>7. CASE UNCHANGED upsertVars
  BY <1>7 DEF upsertVars, UpsertInvariant, UpsertTypeOK, SeenIsGoneOnlyIfDeleted, FoundIsGoneOnlyIfDeleted,
     RowsAreWritten, LastOfThem, AloneSeesCurrent, AloneItNeverCollides, Pending, Current
<1> QED BY <1>1, <1>2, <1>3, <1>4, <1>5, <1>6, <1>7 DEF UpsertNext

-----------------------------------------------------------------------------

(* The inductive invariant of _import_table's upsert holds.                *)
THEOREM UpsertInvariantHolds == UpsertSpec => []UpsertInvariant
  BY InitialUpsert, NextKeepsUpsert, PTL DEF UpsertSpec

(* The statements of one upserted block keep to their types.               *)
THEOREM UpsertTypeCorrect == UpsertSpec => []UpsertTypeOK
<1>1. UpsertInvariant => UpsertTypeOK
  BY DEF UpsertInvariant
<1> QED BY <1>1, UpsertInvariantHolds, PTL

(* An importer alone never hits a duplicate key: IntegrityError is always  *)
(* the work of another session.                                            *)
THEOREM AloneWithoutCollision == UpsertSpec => []AloneItNeverCollides
<1>1. UpsertInvariant => AloneItNeverCollides
  BY DEF UpsertInvariant
<1> QED BY <1>1, UpsertInvariantHolds, PTL

(* A block that is reported as written is in the table, row by row, except *)
(* where other sessions deleted a row of the same key.                     *)
THEOREM BlocksAreWritten == UpsertSpec => WrittenUnlessDeleted
<1>1. ASSUME UpsertInvariant, [UpsertNext]_upsertVars
      PROVE  stage # "done" /\ stage' = "done" =>
               \A k \in Key \ deleted, v \in Value : Says(k, v) => stored'[k] = v
  <2> SUFFICES ASSUME stage # "done", stage' = "done", NEW k \in Key \ deleted, NEW v \in Value, Says(k, v)
               PROVE  stored'[k] = v
    OBVIOUS
  <2>1. CommitBlock
    BY <1>1 DEF UpsertNext, upsertVars, Lookup, InsertRow, InsertDuplicate, UpdateRow, UpdateNothing, WriteOwn, Other
  <2>2. PICK i \in DOMAIN block :
           block[i] = [key |-> k, val |-> v] /\ \A j \in DOMAIN block : j > i => block[j].key # k
    BY DEF Says
  <2>3. i \in 1 .. row /\ block[i].key = k /\ block[i].val = v /\ LastOfThem(i)
    BY <1>1, <2>1, <2>2, BlocksAssumption DEF CommitBlock, LastOfThem, UpsertInvariant, UpsertTypeOK
  <2>4. own[k] = v
    BY <1>1, <2>1, <2>3 DEF UpsertInvariant, RowsAreWritten, CommitBlock
  <2>5. Current[k] = v
    BY <1>1, <2>4, OverIsTable, AbsentAssumption DEF UpsertInvariant, UpsertTypeOK, Current
  <2> QED BY <2>1, <2>5 DEF CommitBlock
<1> QED BY <1>1, UpsertInvariantHolds, PTL DEF UpsertSpec, WrittenUnlessDeleted
=============================================================================
