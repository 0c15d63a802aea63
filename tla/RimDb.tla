-------------------------------- MODULE RimDb --------------------------------
(***************************************************************************)
(* Databases in a service of RimStone: src/db.c over the drivers pg.c,     *)
(* mys.c and lite.c, and the request loop around it (v1.c, rimrt.c). A     *)
(* process keeps one connection per database for ever, a flag that the     *)
(* program began a transaction on it, and the handles of its prepared      *)
(* statements. A lost connection is replaced, and the statement retried    *)
(* once, unless the flag is set.                                           *)
(*                                                                         *)
(* The program is free to run any statement at any time, and to let errors *)
(* end the request or not (on-error-exit, db-error). The databases are     *)
(* external: Server says what they answer.                                 *)
(***************************************************************************)

CONSTANTS
  Db,          \* the databases of the program
  Write,       \* what statements write, each at most once
  Nests,       \* the program may begin a transaction within another
  BusyCommits  \* SQLite may answer SQLITE_BUSY to a commit

ASSUME DbAssumption == Nests \in BOOLEAN /\ BusyCommits \in BOOLEAN

VARIABLES
  dbType,   \* db_type of each database, fixed at start
  dbExit,   \* the databases whose exit_on_error is set, see ErrorReturns
  db,       \* per database: its connection, flag and prepared statement
  pc,       \* where the process stands
  durable,  \* what is committed in the databases
  acked,    \* history: writes of the transaction the program is in
  course,   \* history: how it went so far, "none" outside transactions
  said      \* history: what the program was told of each write

vars == <<dbType, dbExit, db, pc, durable, acked, course, said>>

Type == {"pg", "maria", "lite"}

\* In a transaction all statements succeeded and its connection held; or it was
\* lost meanwhile; or one of them failed and the program went on.
Course == {"none", "quiet", "broken", "failed"}

\* conn[d]: dbc # NULL, is_begin_transaction, the handle of a prepared
\* statement and whether it was left without a reset (SQLite); and what is
\* external: does the connection work, the transaction open on it, its writes,
\* does it know the prepared statement.
Connection == [dbc : BOOLEAN, isBegin : BOOLEAN, prep : BOOLEAN, unreset : BOOLEAN,
               link : BOOLEAN, txn : {"none", "open", "aborted"},
               pending : SUBSET Write, named : BOOLEAN]

New(up) == [dbc |-> TRUE, isBegin |-> FALSE, prep |-> FALSE, unreset |-> FALSE,
            link |-> up, txn |-> "none", pending |-> {}, named |-> FALSE]
NoConnection == [New(FALSE) EXCEPT !.dbc = FALSE]

\* Without a connection the server rolls back.
Broken(c) == [c EXCEPT !.link = FALSE, !.txn = "none", !.pending = {}]

\* A statement: its verb, what it writes, whether it is prepared.
Verb(v) == [verb |-> v, writes |-> {}, prepared |-> FALSE]

-----------------------------------------------------------------------------
(* What a database answers to one statement on a connection that works:    *)
(* the connection after it, success, and what became durable.              *)

Answer(c, ok, done) == [c |-> c, ok |-> ok, done |-> done]

\* In PostgreSQL an error aborts the transaction.
Failed(t, c) == IF t = "pg" /\ c.txn = "open" THEN [c EXCEPT !.txn = "aborted"] ELSE c

Closed(c) == [c EXCEPT !.txn = "none", !.pending = {}]

\* Begin within a transaction: a warning, an implicit commit, an error.
BeginSucceeds(t, c) ==
  IF c.txn = "none" THEN {Answer([c EXCEPT !.txn = "open"], TRUE, {})}
  ELSE CASE t = "pg" /\ c.txn = "open" -> {Answer(c, TRUE, {})}
         [] t = "maria" -> {Answer([c EXCEPT !.pending = {}], TRUE, c.pending)}
         [] OTHER -> {}

\* PostgreSQL answers success to the commit of an aborted transaction, and
\* rolls it back.
CommitSucceeds(t, c) ==
  IF t = "lite" /\ c.txn = "none" THEN {}
  ELSE {Answer(Closed(c), TRUE, IF c.txn = "aborted" THEN {} ELSE c.pending)}

RollbackSucceeds(t, c) ==
  IF t = "lite" /\ c.txn = "none" THEN {} ELSE {Answer(Closed(c), TRUE, {})}

QuerySucceeds(c, writes) ==
  CASE c.txn = "none" -> {Answer(c, TRUE, writes)}
    [] c.txn = "open" -> {Answer([c EXCEPT !.pending = @ \cup writes], TRUE, {})}
    [] c.txn = "aborted" -> {}

Succeeds(t, c, q) ==
  CASE q.verb = "begin" -> BeginSucceeds(t, c)
    [] q.verb = "commit" -> CommitSucceeds(t, c)
    [] q.verb = "rollback" -> RollbackSucceeds(t, c)
    [] q.verb = "query" -> QuerySucceeds(c, q.writes)

\* A commit that fails has rolled back; SQLite's stays open when it is busy. A
\* prepared statement that failed in SQLite takes no input until it is reset.
Fails(t, c, q) ==
  CASE q.verb = "commit" /\ t # "lite" ->
         IF c.txn = "open" THEN {Answer(Closed(c), FALSE, {})} ELSE {}
    [] q.verb = "commit" /\ t = "lite" ->
         IF c.txn = "none" \/ BusyCommits THEN {Answer(c, FALSE, {})} ELSE {}
    [] q.verb = "rollback" ->
         IF t = "lite" /\ c.txn = "none" THEN {Answer(c, FALSE, {})} ELSE {}
    [] q.verb = "query" /\ t = "lite" ->
         {Answer([c EXCEPT !.unreset = @ \/ q.prepared], FALSE, {})}
    [] OTHER -> {Answer(Failed(t, c), FALSE, {})}

\* The answer may be lost after the server carried the statement out.
Server(t, c, q) ==
  Succeeds(t, c, q) \cup Fails(t, c, q) \cup
  {Answer(Broken(a.c), FALSE, a.done) : a \in {x \in Succeeds(t, c, q) : t # "lite"}}

-----------------------------------------------------------------------------
(* The drivers.                                                            *)

\* rim_pg_prep_stmt(), rim_maria_prep_stmt(), rim_lite_prep_stmt(): a handle
\* is used again, otherwise the statement is prepared. The name is fixed, and
\* PostgreSQL refuses it on a connection that knows it. rim_lite_exec() returns
\* early from an error, before sqlite3_reset().
Prepare(t, c) ==
  IF c.prep THEN {Answer(c, ~c.unreset, {})}
  ELSE {Answer(Failed(t, c), FALSE, {})} \cup
       (IF t = "pg" /\ (c.named \/ c.txn = "aborted") THEN {}
        ELSE {Answer([c EXCEPT !.prep = TRUE, !.unreset = FALSE, !.named = TRUE], TRUE, {})})

\* rim_pg_exec(), rim_maria_exec(), rim_lite_exec()
Exec(t, c, q) ==
  IF ~c.link THEN {Answer(c, FALSE, {})}
  ELSE UNION {IF p.ok THEN Server(t, p.c, q) ELSE {p} :
              p \in IF q.prepared THEN Prepare(t, c) ELSE {Answer(c, TRUE, {})}}

\* rim_pg_checkc(), rim_maria_checkc() # 1; rim_lite_checkc() always is.
Lost(t, c) == t # "lite" /\ ~c.link

-----------------------------------------------------------------------------
(* The connections, as functions of all of them; ret is "report" when      *)
(* rim_report_error() is called and the function does not return.          *)

Outcome(s, ret, done) == [db |-> s, ret |-> ret, done |-> done]

\* Mutant: the handles are kept.
ForgetNone(s, d) == s
\* rim_db_prep(NULL) forgets the handles of every database of this type.
ForgetPrepared(s, d) ==
  [e \in Db |-> IF dbType[e] = dbType[d] THEN [s[e] EXCEPT !.prep = FALSE, !.unreset = FALSE]
              ELSE s[e]]

\* rim_pg_connect(1), rim_maria_connect(1), rim_lite_connect(1): dbc is set
\* also when the connection fails, but not when MariaDB refuses the mode.
Connected(s, d, up) ==
  LET f == ForgetPrepared(s, d) IN [f EXCEPT ![d] = [New(up) EXCEPT !.prep = f[d].prep]]

Refused(s, d) == [Connected(s, d, FALSE) EXCEPT ![d].dbc = FALSE]
Connect(s, d) ==
  {Outcome(Connected(s, d, TRUE), "ok", {}), Outcome(Connected(s, d, FALSE), "report", {})}
  \cup (IF dbType[d] = "maria" THEN {Outcome(Refused(s, d), "report", {})} ELSE {})

\* rim_get_db_connection(1); has_connected is set whenever isBegin is.
GetConnection(s, d) ==
  IF s[d].dbc THEN {Outcome(s, "ok", {})}
  ELSE IF s[d].isBegin THEN {Outcome(s, "report", {})}
  ELSE Connect(s, d)

\* rim_end_connection(1)
EndConnection(s, d) == [s EXCEPT ![d] = [NoConnection EXCEPT !.prep = s[d].prep]]

\* rim_handle_error() where it does not reconnect. A statement of the program
\* may say whether it returns (erract); a rollback after the program does not,
\* and the setting of the database (exit_on_error) decides.
ErrorReturns(d) ==
  IF pc = "run" THEN {"null", "report"} ELSE IF d \in dbExit THEN {"report"} ELSE {"null"}

\* Executed without another retry.
Again(s, d, q) ==
  UNION {{Outcome([s EXCEPT ![d] = a.c], ret, a.done) :
            ret \in IF a.ok THEN {"ok"} ELSE ErrorReturns(d)} :
         a \in Exec(dbType[d], s[d], q)}

\* Mutant: connected again, the statement counts as executed.
ReconnectedOnly(s, d, q) == GetConnection(EndConnection(s, d), d)
\* rim_retry_db(), then once more.
Reconnected(s, d, q) ==
  UNION {IF g.ret = "ok" THEN Again(g.db, d, q) ELSE {g} :
           g \in GetConnection(EndConnection(s, d), d)}

\* Mutant: retried in a transaction as well.
MayRetryAlways(c) == TRUE
MayRetry(c) == ~c.isBegin

Once(s, d, q) ==
  UNION {IF o.ret # "ok" /\ MayRetry(o.db[d]) /\ Lost(dbType[d], o.db[d])
         THEN {[r EXCEPT !.done = @ \cup o.done] : r \in Reconnected(o.db, d, q)}
         ELSE {o} : o \in Again(s, d, q)}

\* rim_execute_SQL()
ExecuteSQL(s, d, q) ==
  UNION {IF g.ret = "ok" THEN Once(g.db, d, q) ELSE {g} : g \in GetConnection(s, d)}

SetBegin(s, d, is) == [s EXCEPT ![d].isBegin = is]

-----------------------------------------------------------------------------
(* The statements of the program.                                          *)

\* A write is new, or was rolled back without a word.
Fresh == {w \in Write : /\ w \notin durable /\ said[w] = "nothing"
                        /\ \A d \in Db : w \notin acked[d] \cup db[d].pending}
Writes == {{}} \cup (IF Fresh = {} THEN {} ELSE {{CHOOSE w \in Fresh : TRUE}})

Say(writes, what) == said' = [w \in Write |-> IF w \in writes THEN what ELSE said[w]]

\* The transaction is over.
Over(d) == acked' = [acked EXCEPT ![d] = {}] /\ course' = [course EXCEPT ![d] = "none"]

\* The statement returns to the program, or jumps out of it.
Returns(o) ==
  /\ durable' = durable \cup o.done
  /\ pc' = IF o.ret = "report" THEN "report" ELSE "run"
  /\ UNCHANGED <<dbType, dbExit>>

\* run-query, outside or inside a transaction.
RunQuery(d, writes, prepared) ==
  /\ pc = "run"
  /\ \E o \in ExecuteSQL(db, d, [verb |-> "query", writes |-> writes, prepared |-> prepared]) :
       LET in == course[d] # "none"
           ok == o.ret = "ok" IN
       /\ Returns(o)
       /\ db' = o.db
       /\ acked' = [acked EXCEPT ![d] = IF ok /\ in THEN @ \cup writes ELSE @]
       /\ course' = [course EXCEPT ![d] = IF in /\ ~ok THEN "failed" ELSE @]
       /\ Say(IF ok /\ ~in THEN writes ELSE {}, "written")

\* Mutant: the flag is not set.
BegunNot(o, d) == o.db
\* rim_begin_transaction()
Begun(o, d) ==
  CASE o.ret = "ok" -> SetBegin(o.db, d, TRUE)
    [] o.ret = "null" -> SetBegin(o.db, d, FALSE)
    [] o.ret = "report" -> o.db
BeginTransaction(d) ==
  /\ pc = "run"
  /\ Nests \/ ~db[d].isBegin
  /\ \E o \in ExecuteSQL(db, d, Verb("begin")) :
       /\ Returns(o)
       /\ db' = Begun(o, d)
       /\ course' = [course EXCEPT ![d] = CASE o.ret = "ok" /\ @ = "none"  -> "quiet"
                                            [] o.ret # "ok" /\ @ # "none" -> "failed"
                                            [] OTHER -> @]
  /\ UNCHANGED <<acked, said>>

\* rim_commit()
Commit(d) ==
  /\ pc = "run"
  /\ \E o \in ExecuteSQL(SetBegin(db, d, FALSE), d, Verb("commit")) :
       /\ Returns(o)
       /\ db' = o.db
       /\ Say(IF o.ret = "ok" THEN acked[d] ELSE {},
              CASE course[d] = "quiet"  -> "done"
                [] course[d] = "broken" -> "committed"
                [] OTHER -> "maybe")
  /\ Over(d)

\* Mutant: the flag stays until the rollback succeeds.
RollbackKeeps(d) == db
\* rim_rollback() clears the flag, then executes.
RollbackOf(d) == SetBegin(db, d, FALSE)
Rollback(d) ==
  /\ pc = "run"
  /\ \E o \in ExecuteSQL(RollbackOf(d), d, Verb("rollback")) :
       /\ Returns(o)
       /\ db' = o.db
       /\ Say(IF o.ret = "ok" THEN acked[d] ELSE {}, "undone")
  /\ Over(d)

\* db-error sets exit_on_error, for this request and the next ones.
DbError(d) ==
  /\ pc = "run"
  /\ dbExit' \in {dbExit \cup {d}, dbExit \ {d}}
  /\ UNCHANGED <<dbType, db, pc, durable, acked, course, said>>

-----------------------------------------------------------------------------
(* The request loop and the report of errors.                              *)

InTransaction == {d \in Db : db[d].isBegin}

\* rim_SERVICE_Accept() to rim_get_input(), which may refuse the request.
Accept ==
  /\ pc = "idle"
  /\ pc' \in {"run", "shut"}
  /\ UNCHANGED <<dbType, dbExit, db, durable, acked, course, said>>

\* rim_dispatch_request() returns, or the program reports an error.
LeaveProgram ==
  /\ pc = "run"
  /\ pc' \in {"check", "report"}
  /\ UNCHANGED <<dbType, dbExit, db, durable, acked, course, said>>

\* The process is gone: so are its connections.
Gone == [d \in Db |-> NoConnection]

\* rim_check_transaction() rolls back one transaction, at the end of a request
\* or within rim_report_error(); there an error ends the process.
RollbackLeft(d) ==
  /\ pc \in {"check", "left", "report"}
  /\ d \in InTransaction
  /\ \E o \in ExecuteSQL(RollbackOf(d), d, Verb("rollback")) :
       /\ durable' = durable \cup o.done
       /\ \/ pc = "report" /\ o.ret = "report" /\ pc' = "exit" /\ db' = Gone
          \/ pc = "report" /\ o.ret # "report" /\ pc' = "report" /\ db' = o.db
          \/ pc # "report" /\ db' = o.db
             /\ pc' = IF o.ret = "report" THEN "report" ELSE "left"
  /\ Say(acked[d], "undone")
  /\ Over(d)
  /\ UNCHANGED <<dbType, dbExit>>

\* rim_check_transaction() found no more; it reports what it had to roll back.
Jumps(from, to) ==
  /\ pc = from /\ InTransaction = {}
  /\ pc' = to
  /\ UNCHANGED <<dbType, dbExit, db, durable, acked, course, said>>
Checked == Jumps("check", "shut") \/ Jumps("left", "report")

\* Mutant: an error does not roll back.
JumpNow == pc = "report" /\ pc' = "shut" /\ UNCHANGED <<dbType, dbExit, db, durable, acked, course, said>>
\* rim_error_request(): siglongjmp to the end of the request.
ErrorRequest == Jumps("report", "shut")

\* rim_shut(), rim_SERVICE_Finish(), and rim_exit() after a SIGTERM.
Finish ==
  /\ pc = "shut"
  /\ \/ pc' = "idle" /\ UNCHANGED db
     \/ pc' = "exit" /\ db' = Gone
  /\ UNCHANGED <<dbType, dbExit, durable, acked, course, said>>

-----------------------------------------------------------------------------
(* Around the process.                                                     *)

\* A connection breaks at any time.
Break(d) ==
  /\ db[d].link /\ dbType[d] # "lite"
  /\ db' = [db EXCEPT ![d] = Broken(@)]
  /\ course' = [course EXCEPT ![d] = IF @ = "quiet" THEN "broken" ELSE @]
  /\ UNCHANGED <<dbType, dbExit, pc, durable, acked, said>>

\* The process is killed.
Kill ==
  /\ pc # "exit"
  /\ pc' = "exit" /\ db' = Gone
  /\ UNCHANGED <<dbType, dbExit, durable, acked, course, said>>

\* mrim starts another.
Respawn ==
  /\ pc = "exit"
  /\ pc' = "idle"
  /\ acked' = [d \in Db |-> {}]
  /\ course' = [d \in Db |-> "none"]
  /\ dbExit' = Db
  /\ UNCHANGED <<dbType, db, durable, said>>

Statement(d) ==
  \/ \E prepared \in BOOLEAN, writes \in Writes : RunQuery(d, writes, prepared)
  \/ BeginTransaction(d)
  \/ Commit(d)
  \/ Rollback(d)
  \/ DbError(d)

EndOfRequest ==
  (\E d \in Db : RollbackLeft(d)) \/ Checked \/ ErrorRequest \/ Finish

Next ==
  \/ \E d \in Db : Statement(d)
  \/ Accept \/ LeaveProgram \/ EndOfRequest
  \/ (\E d \in Db : Break(d)) \/ Kill \/ Respawn

Init ==
  /\ dbType \in [Db -> Type]
  /\ dbExit = Db
  /\ db = [d \in Db |-> NoConnection]
  /\ pc = "idle"
  /\ durable = {}
  /\ acked = [d \in Db |-> {}]
  /\ course = [d \in Db |-> "none"]
  /\ said = [w \in Write |-> "nothing"]

\* The end of a request waits for nothing but answers.
Spec == Init /\ [][Next]_vars /\ WF_vars(EndOfRequest)

-----------------------------------------------------------------------------
(* Properties.                                                             *)

TypeOK ==
  /\ dbType \in [Db -> Type]
  /\ dbExit \subseteq Db
  /\ db \in [Db -> Connection]
  /\ pc \in {"idle", "run", "check", "left", "report", "shut", "exit"}
  /\ durable \subseteq Write
  /\ acked \in [Db -> SUBSET Write]
  /\ course \in [Db -> Course]
  /\ said \in [Write -> {"nothing", "written", "done", "committed", "maybe", "undone"}]

\* A program that began a transaction and did not end it is in one on the
\* server as well, and the flag says so, or its connection is lost: none of its
\* statements runs on a connection made after the begin (rim_execute_SQL).
InTransactionTruly ==
  pc # "exit" =>
    \A d \in Db : /\ db[d].isBegin <=> course[d] # "none"
                  /\ db[d].isBegin => db[d].dbc /\ (db[d].link => db[d].txn # "none")

\* No transaction is left to the next request, whatever failed in this one
\* and in the report of it (rim_check_transaction).
RequestsSeparate ==
  pc = "idle" => \A d \in Db : db[d].txn = "none" /\ ~db[d].isBegin

\* What the program was told is done is durable: a statement of its own, or a
\* transaction in which nothing failed and the connection held.
DoneIsDurable == \A w \in Write : said[w] \in {"written", "done"} => w \in durable

\* Success of commit-transaction, after the success of each statement since
\* begin-transaction, means the transaction is committed.
CommitMeansCommitted == \A w \in Write : said[w] \in {"done", "committed"} => w \in durable

\* What was rolled back, by the program or at the end of its request, is gone.
UndoneIsGone == \A w \in Write : said[w] = "undone" => w \notin durable

\* The handle of a prepared statement belongs to the connection in use.
PreparedHere == \A d \in Db : db[d].prep => db[d].dbc /\ db[d].named

\* The end of a request, with errors in rolling back and in reporting, ends.
RequestEnds == pc \in {"check", "left", "report"} ~> pc \in {"idle", "exit"}
=============================================================================
