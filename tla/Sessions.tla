------------------------------ MODULE Sessions ------------------------------
(***************************************************************************)
(* The sessions of one DatabaseClient (dbtalk/database/connection.py):     *)
(* query and execute prepare a connection with a read-only mode and a      *)
(* deadline and put it back as it was; connect and transaction take it as  *)
(* it is.  The engine keeps the connections in a pool, so what a session   *)
(* leaves behind on one is there for the next session, of any caller.      *)
(* The asynchronous client has sessions of the second sort only: its query *)
(* is one of connect and its execute one of transaction.                   *)
(*                                                                         *)
(* A caller has one session with one text; a query stands for execute with *)
(* read_only as well.  The client does not read the text: what it asks     *)
(* for, and whether it ends the transaction it was put into, is up to it.  *)
(* Rows are told apart by the caller that writes them.                     *)
(***************************************************************************)
EXTENDS Naturals, FiniteSets

CONSTANTS Callers, Connections, MaxFaults, Nobody

ASSUME NobodyAssumption == Nobody \notin Callers \cup Connections
ASSUME FaultsAssumption == MaxFaults \in Nat

VARIABLES dialect,    \* of the DSN
          timed,      \* whether the client has a timeout
          kind,       \* what each caller asks of the client
          wish,       \* what its text asks for
          phase,      \* where its session is
          on,         \* the connection it holds
          failed,     \* whether its session is on its way out with an error
          expired,    \* the callers whose deadline has passed
          conns,      \* the settings and the open transaction of each connection
          committed,  \* whose rows are in the database
          doubtful,   \* whose commit was answered by an error
          faulted,    \* connections where putting a setting in or back failed
          faults

vars == <<dialect, timed, kind, wish, phase, on, failed, expired, conns, committed, doubtful,
          faulted, faults>>
client == <<dialect, timed, kind, wish>>

Settings ==
  [queryOnly : BOOLEAN, handler : Callers \cup {Nobody}, busy : Callers \cup {Nobody},
   limited : BOOLEAN, reading : BOOLEAN, written : SUBSET Callers, lost : BOOLEAN]
Fresh == [queryOnly |-> FALSE, handler |-> Nobody, busy |-> Nobody, limited |-> FALSE,
          reading |-> FALSE, written |-> {}, lost |-> FALSE]

Prepared(c) == kind[c] \in {"query", "execute"}
Limited(c) == timed /\ Prepared(c)
Commits(c) == kind[c] \in {"execute", "transaction"}
Conn(c) == conns[on[c]]

(* The text ends the transaction itself and writes what comes after:       *)
(* several statements sent as one to PostgreSQL, which psycopg does with a *)
(* text without parameters, or a procedure of MySQL that commits.  SQLite  *)
(* has no such text: its driver takes one statement at a time.             *)
Compound(c) == wish[c] = "compound"

Held == {on[c] : c \in Callers} \ {Nobody}

Init ==
  /\ dialect \in {"sqlite", "mysql", "postgresql"}
  /\ timed \in BOOLEAN
  /\ kind \in [Callers -> {"query", "execute", "connect", "transaction"}]
  /\ wish \in [Callers -> {"read", "write", "compound"}]
  /\ dialect = "sqlite" => \A c \in Callers : ~Compound(c)
  /\ phase = [c \in Callers |-> "idle"]
  /\ on = [c \in Callers |-> Nobody]
  /\ failed = [c \in Callers |-> FALSE]
  /\ expired = {}
  /\ conns = [k \in Connections |-> Fresh]
  /\ committed = {}
  /\ doubtful = {}
  /\ faulted = {}
  /\ faults = MaxFaults

-----------------------------------------------------------------------------
Goto(c, next) == phase' = [phase EXCEPT ![c] = next]

Put(c, settings) == conns' = [conns EXCEPT ![on[c]] = settings]

Fail(c) == failed' = [failed EXCEPT ![c] = TRUE]

(* A statement of the preparation, or of putting things back, fails.       *)
Fault(c) ==
  /\ faults > 0
  /\ faults' = faults - 1
  /\ faulted' = faulted \cup {on[c]}

(* A connection of the pool is taken.                                      *)
CheckOut(c) ==
  /\ phase[c] = "idle"
  /\ \E k \in Connections \ Held : on' = [on EXCEPT ![c] = k]
  /\ Goto(c, IF kind[c] = "query" THEN "begin" ELSE IF Limited(c) THEN "limit" ELSE "ready")
  /\ UNCHANGED <<client, failed, expired, conns, committed, doubtful, faulted, faults>>

(* No connection comes free in time, or none can be made.                  *)
CheckOutFails(c) ==
  /\ phase[c] = "idle"
  /\ Goto(c, "failed")
  /\ UNCHANGED <<client, on, failed, expired, conns, committed, doubtful, faulted, faults>>

(* Mutant: SQLite is left to the transaction, which has no read-only mode. *)
BeginReadOnlyByTransaction(c) ==
  /\ phase[c] = "begin"
  /\ Put(c, [Conn(c) EXCEPT !.reading = dialect # "sqlite"])
  /\ Goto(c, IF Limited(c) THEN "limit" ELSE "ready")
  /\ UNCHANGED <<client, on, failed, expired, committed, doubtful, faulted, faults>>

(* _begin_read_only: a setting of the connection for SQLite, a transaction *)
(* for the servers.                                                        *)
BeginReadOnly(c) ==
  /\ phase[c] = "begin"
  /\ Put(c, IF dialect = "sqlite" THEN [Conn(c) EXCEPT !.queryOnly = TRUE]
            ELSE [Conn(c) EXCEPT !.reading = TRUE])
  /\ Goto(c, IF Limited(c) THEN "limit" ELSE "ready")
  /\ UNCHANGED <<client, on, failed, expired, committed, doubtful, faulted, faults>>

BeginReadOnlyFails(c) ==
  /\ phase[c] = "begin"
  /\ Fault(c) /\ Fail(c)
  /\ Goto(c, "clear_read_only")
  /\ UNCHANGED <<client, on, expired, conns, committed, doubtful>>

(* _configure_timeout: SQLite gets a progress handler and a busy timeout,  *)
(* MySQL a limit of the session, PostgreSQL one of the transaction.        *)
ConfigureTimeout(c) ==
  /\ phase[c] = "limit"
  /\ Put(c, IF dialect = "sqlite" THEN [Conn(c) EXCEPT !.handler = c, !.busy = c]
            ELSE [Conn(c) EXCEPT !.limited = TRUE])
  /\ Goto(c, "ready")
  /\ UNCHANGED <<client, on, failed, expired, committed, doubtful, faulted, faults>>

(* It fails with the handler installed: the caller of _configure_timeout   *)
(* has no state to put back then.                                          *)
ConfigureTimeoutFails(c) ==
  /\ phase[c] = "limit"
  /\ Fault(c) /\ Fail(c)
  /\ IF dialect = "sqlite" THEN Put(c, [Conn(c) EXCEPT !.handler = c]) ELSE UNCHANGED conns
  /\ Goto(c, "clear_read_only")
  /\ UNCHANGED <<client, on, expired, committed, doubtful>>

(* The transaction ends in the middle of a text, and with it what was set  *)
(* for it: the read-only mode, and the deadline of PostgreSQL.             *)
EndTransaction(c) ==
  /\ phase[c] = "ready" /\ Compound(c) /\ dialect # "sqlite"
  /\ Put(c, [Conn(c) EXCEPT !.reading = FALSE, !.limited = @ /\ dialect = "mysql"])
  /\ Goto(c, "outside")
  /\ UNCHANGED <<client, on, failed, expired, committed, doubtful, faulted, faults>>

(* The rest of the text writes and commits.                                *)
WriteOutside(c) ==
  /\ phase[c] = "outside"
  /\ committed' = committed \cup {c}
  /\ UNCHANGED <<client, phase, on, failed, expired, conns, doubtful, faulted, faults>>

(* The database carries the text out, after which the caller's own code    *)
(* may still fail, or refuses a write in a read-only transaction, or fails *)
(* it for a reason of its own.                                             *)
Answer(c) ==
  /\ phase[c] \in {"ready", "outside"}
  /\ \/ /\ wish[c] = "read" /\ UNCHANGED <<conns, failed>>
     \/ /\ wish[c] = "write" /\ ~Conn(c).queryOnly /\ ~Conn(c).reading
        /\ Put(c, [Conn(c) EXCEPT !.written = @ \cup {c}])
        /\ UNCHANGED failed \/ Fail(c)
     \/ /\ phase[c] = "outside" /\ UNCHANGED <<conns, failed>>
     \/ /\ Fail(c) /\ UNCHANGED conns
  /\ Goto(c, "clear_timeout")
  /\ UNCHANGED <<client, on, expired, committed, doubtful, faulted, faults>>

(* A deadline passes: nobody notices unless a text runs under it or its    *)
(* handler is installed, be it left behind.                                *)
Expire(c) ==
  /\ Limited(c) /\ c \notin expired
  /\ phase[c] \in {"ready", "outside"} \/ \E k \in Connections : conns[k].handler = c
  /\ expired' = expired \cup {c}
  /\ UNCHANGED <<client, phase, on, failed, conns, committed, doubtful, faulted, faults>>

(* Mutant: the progress handler never asks for a stop.                     *)
InterruptByServerOnly(c) ==
  /\ phase[c] \in {"ready", "outside"}
  /\ \/ Conn(c).limited /\ (Limited(c) => c \in expired) /\ UNCHANGED conns
     \/ dialect = "mysql" /\ timed /\ Put(c, [Conn(c) EXCEPT !.lost = TRUE])
  /\ Fail(c)
  /\ Goto(c, "clear_timeout")
  /\ UNCHANGED <<client, on, expired, committed, doubtful, faulted, faults>>

(* The statement is stopped: by the handler of an expired deadline, by the *)
(* server's limit, or by the read timeout of every MySQL connection of a   *)
(* client with a timeout, which gives the connection up.                   *)
Interrupt(c) ==
  /\ phase[c] \in {"ready", "outside"}
  /\ \/ Conn(c).handler \in expired /\ UNCHANGED conns
     \/ Conn(c).limited /\ (Limited(c) => c \in expired) /\ UNCHANGED conns
     \/ dialect = "mysql" /\ timed /\ Put(c, [Conn(c) EXCEPT !.lost = TRUE])
  /\ Fail(c)
  /\ Goto(c, "clear_timeout")
  /\ UNCHANGED <<client, on, expired, committed, doubtful, faulted, faults>>

(* _clear_sqlite_timeout; whether the busy timeout was put back is ignored.*)
ClearTimeout(c) ==
  /\ phase[c] = "clear_timeout"
  /\ \/ /\ IF dialect = "sqlite" /\ Limited(c)
           THEN Put(c, [Conn(c) EXCEPT !.handler = Nobody, !.busy = Nobody])
           ELSE UNCHANGED conns
        /\ UNCHANGED <<faulted, faults>>
     \/ /\ dialect = "sqlite" /\ Limited(c)
        /\ Put(c, [Conn(c) EXCEPT !.handler = Nobody])
        /\ Fault(c)
  /\ Goto(c, "clear_read_only")
  /\ UNCHANGED <<client, on, failed, expired, committed, doubtful>>

(* Mutant: the setting is put back only after a statement that succeeds.   *)
ClearReadOnlyOnSuccess(c) ==
  /\ phase[c] = "clear_read_only"
  /\ IF dialect = "sqlite" /\ kind[c] = "query" /\ ~failed[c]
     THEN Put(c, [Conn(c) EXCEPT !.queryOnly = FALSE, !.written = {}])
     ELSE UNCHANGED conns
  /\ Goto(c, "leave")
  /\ UNCHANGED <<client, on, failed, expired, committed, doubtful, faulted, faults>>

(* _clear_sqlite_read_only: a failure is passed over.                      *)
ClearReadOnly(c) ==
  /\ phase[c] = "clear_read_only"
  /\ \/ /\ IF dialect = "sqlite" /\ kind[c] = "query"
           THEN Put(c, [Conn(c) EXCEPT !.queryOnly = FALSE, !.written = {}])
           ELSE UNCHANGED conns
        /\ UNCHANGED <<faulted, faults>>
     \/ /\ dialect = "sqlite" /\ kind[c] = "query"
        /\ Fault(c) /\ UNCHANGED conns
  /\ Goto(c, "leave")
  /\ UNCHANGED <<client, on, failed, expired, committed, doubtful>>

(* Mutant: the transaction is committed on every way out.                  *)
CommitAlways(c) ==
  /\ phase[c] = "leave" /\ Commits(c)
  /\ committed' = committed \cup Conn(c).written
  /\ Put(c, [Conn(c) EXCEPT !.written = {}])
  /\ Goto(c, "check_in")
  /\ UNCHANGED <<client, on, failed, expired, doubtful, faulted, faults>>

(* engine.begin: the transaction is committed after a session without an   *)
(* error; its answer may be an error although it is done.                  *)
Commit(c) ==
  /\ phase[c] = "leave" /\ Commits(c) /\ ~failed[c]
  /\ \/ /\ committed' = committed \cup Conn(c).written
        /\ UNCHANGED <<failed, doubtful>>
     \/ /\ committed' \in {committed, committed \cup Conn(c).written}
        /\ doubtful' = doubtful \cup {c}
        /\ Fail(c)
  /\ Put(c, [Conn(c) EXCEPT !.written = {}])
  /\ Goto(c, "check_in")
  /\ UNCHANGED <<client, on, expired, faulted, faults>>

(* Every other way out leaves the transaction to the pool.                 *)
Leave(c) ==
  /\ phase[c] = "leave" /\ (failed[c] \/ ~Commits(c))
  /\ Goto(c, "check_in")
  /\ UNCHANGED <<client, on, failed, expired, conns, committed, doubtful, faulted, faults>>

(* The pool rolls the connection back, which ends what was set for the     *)
(* transaction, and replaces a lost one.                                   *)
CheckIn(c) ==
  /\ phase[c] = "check_in"
  /\ Put(c, IF Conn(c).lost THEN Fresh
            ELSE [Conn(c) EXCEPT !.written = {}, !.reading = FALSE,
                                 !.limited = @ /\ dialect = "mysql"])
  /\ on' = [on EXCEPT ![c] = Nobody]
  /\ Goto(c, IF failed[c] THEN "failed" ELSE "ok")
  /\ UNCHANGED <<client, failed, expired, committed, doubtful, faulted, faults>>

Done == (\A c \in Callers : phase[c] \in {"ok", "failed"}) /\ UNCHANGED vars

(* The steps of the client itself.                                         *)
Proceed(c) ==
  \/ CheckOut(c) \/ CheckOutFails(c)
  \/ BeginReadOnly(c) \/ BeginReadOnlyFails(c)
  \/ ConfigureTimeout(c) \/ ConfigureTimeoutFails(c)
  \/ ClearTimeout(c) \/ ClearReadOnly(c)
  \/ Commit(c) \/ Leave(c) \/ CheckIn(c)

Next == \/ \E c \in Callers : \/ Proceed(c) \/ Expire(c)
                          \/ EndTransaction(c) \/ WriteOutside(c) \/ Answer(c) \/ Interrupt(c)
        \/ Done

(* A database need not answer at all.  The client's own steps are not held *)
(* up, clocks go on, and a statement whose time is over is stopped.        *)
Spec ==
  /\ Init /\ [][Next]_vars
  /\ \A c \in Callers : WF_vars(Proceed(c)) /\ WF_vars(Expire(c)) /\ WF_vars(Interrupt(c))

-----------------------------------------------------------------------------
(* The variables have their types and no connection has two holders.       *)
TypeOK ==
  /\ dialect \in {"sqlite", "mysql", "postgresql"} /\ timed \in BOOLEAN
  /\ kind \in [Callers -> {"query", "execute", "connect", "transaction"}]
  /\ wish \in [Callers -> {"read", "write", "compound"}]
  /\ phase \in [Callers -> {"idle", "begin", "limit", "ready", "outside", "clear_timeout",
                            "clear_read_only", "leave", "check_in", "ok", "failed"}]
  /\ on \in [Callers -> Connections \cup {Nobody}]
  /\ \A c \in Callers : on[c] = Nobody <=> phase[c] \in {"idle", "ok", "failed"}
  /\ \A c, d \in Callers : on[c] = on[d] /\ on[c] # Nobody => c = d
  /\ failed \in [Callers -> BOOLEAN]
  /\ expired \subseteq Callers /\ committed \subseteq Callers /\ doubtful \subseteq Callers
  /\ conns \in [Connections -> Settings]
  /\ faulted \subseteq Connections /\ faults \in 0 .. MaxFaults

(* A query whose text keeps to the transaction it is put into writes       *)
(* nothing, whatever connection it gets and whatever texts of others were  *)
(* run there before, and neither does a session that is never committed.   *)
ReadOnlyNeverWrites ==
  /\ \A k \in Connections, c \in Callers : c \in conns[k].written => kind[c] # "query"
  /\ \A c \in committed : Commits(c) \/ Compound(c)

(* What the caller hears is what happened to its rows: success means they  *)
(* are there, an error that they are not, unless it was the answer to the  *)
(* commit or the text commits for itself; and nobody's commit takes        *)
(* another session's rows along.                                           *)
ReportIsTrue ==
  /\ \A c \in Callers :
       /\ phase[c] = "ok" /\ wish[c] = "write" /\ Commits(c) => c \in committed
       /\ phase[c] = "failed" /\ c \in committed => c \in doubtful \/ Compound(c)
  /\ \A k \in Connections \ Held : conns[k].written = {}

(* A connection that goes back to the pool has no setting left of the      *)
(* session it served, except where putting one in or back failed, and      *)
(* except the limit of a MySQL session, which is never reset: sessions of  *)
(* connect and transaction then run under it.                              *)
NothingIsInherited ==
  \A k \in Connections \ Held :
    /\ ~conns[k].reading
    /\ conns[k].queryOnly \/ conns[k].handler # Nobody \/ conns[k].busy # Nobody =>
         k \in faulted /\ dialect = "sqlite"
    /\ conns[k].limited => dialect = "mysql" /\ timed

(* A session with a deadline runs under its own, also on a connection      *)
(* where an earlier one was left behind.                                   *)
DeadlineIsOwn ==
  \A c \in Callers :
    phase[c] = "ready" /\ Limited(c) =>
      IF dialect = "sqlite" THEN Conn(c).handler = c /\ Conn(c).busy = c ELSE Conn(c).limited

(* A session with a deadline ends and gives its connection back, although  *)
(* the database never answers, but for a text that ends the transaction    *)
(* PostgreSQL's deadline was set for.                                      *)
LimitedSessionsEnd ==
  \A c \in Callers :
    Limited(c) /\ on[c] # Nobody /\ (Compound(c) => dialect = "mysql")
      ~> phase[c] \in {"ok", "failed"}

(* A session has its own settings and no others: both of the above, in     *)
(* states that are well formed.                                            *)
SettingsAreOwn == TypeOK /\ NothingIsInherited /\ DeadlineIsOwn
=============================================================================
