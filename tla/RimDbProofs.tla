----------------------------- MODULE RimDbProofs -----------------------------
(***************************************************************************)
(* Proofs about RimDb for any databases and writes: the types; that a      *)
(* transaction of the program is one on the server or lost, whatever the   *)
(* retry does; that none outlives its request; that prepared handles are   *)
(* those of the connection; and that what the program is told is so.       *)
(***************************************************************************)
EXTENDS RimDb, TLAPS

Stmt == {q \in [verb : {"begin", "commit", "rollback", "query"},
                writes : SUBSET Write, prepared : BOOLEAN] : q.prepared => q.verb = "query"}

Answers == [c : Connection, ok : BOOLEAN, done : SUBSET Write]

Connections == [Db -> Connection]
Outcomes == [db : Connections, ret : {"ok", "null", "report"}, done : SUBSET Write]

-----------------------------------------------------------------------------
(* One statement on one connection.                                        *)

\* Nothing changed but what is prepared.
Alike(c, b) ==
  /\ b.isBegin = c.isBegin /\ b.dbc = c.dbc /\ b.link = c.link
  /\ b.txn = "none" <=> c.txn = "none"

\* From c to b: the flag is not touched, and what becomes of the transaction.
Moves(q, c, ok, b) ==
  /\ b.isBegin = c.isBegin /\ b.dbc = c.dbc
  /\ ~b.link => b.txn = "none"
  /\ b.link => c.link
  /\ q.verb = "query" => /\ c.txn = "none" => b.txn = "none"
                         /\ c.txn # "none" /\ b.link => b.txn # "none"
  /\ q.verb = "begin" => /\ ok => b.link /\ b.txn # "none"
                         /\ ~ok /\ c.txn = "none" => b.txn = "none"
  /\ q.verb = "rollback" => b.txn = "none"
  /\ q.verb = "commit" /\ ~BusyCommits => b.txn = "none"

\* Preparing a statement touches neither flag nor transaction
\* (rim_pg_prep_stmt and the others), but for a PostgreSQL error.
LEMMA PrepareAlike ==
  ASSUME NEW t \in Type, NEW c \in Connection, NEW a \in Prepare(t, c)
  PROVE  a \in Answers /\ a.done = {} /\ Alike(c, a.c)
<1>1. CASE c.prep
  <2>1. a = [c |-> c, ok |-> ~c.unreset, done |-> {}]
    BY <1>1 DEF Prepare, Answer
  <2>2. a.c = c /\ a.done = {}
    BY <2>1
  <2>3. a \in Answers
    BY <2>1 DEF Answers, Connection
  <2> QED
    BY <2>2, <2>3 DEF Alike
<1>2. CASE a = Answer(Failed(t, c), FALSE, {})
  <2>1. Failed(t, c) \in Connection /\ Alike(c, Failed(t, c))
    BY DEF Failed, Alike, Connection
  <2> QED
    BY <1>2, <2>1 DEF Answer, Answers
<1>3. CASE a = Answer([c EXCEPT !.prep = TRUE, !.unreset = FALSE, !.named = TRUE], TRUE, {})
  BY <1>3 DEF Answer, Answers, Alike, Connection
<1> QED
  BY <1>1, <1>2, <1>3 DEF Prepare

\* The parts of an answer that is a success.
LEMMA AnswerOk ==
  ASSUME NEW q, NEW c, NEW b \in Connection, NEW done \in SUBSET Write,
         NEW a, a = Answer(b, TRUE, done), Moves(q, c, TRUE, b)
  PROVE  a \in Answers /\ a.ok = TRUE /\ Moves(q, c, TRUE, a.c)
<1>1. a \in Answers
  BY DEF Answer, Answers
<1>2. a.c = b /\ a.ok = TRUE
  BY DEF Answer
<1> QED
  BY <1>1, <1>2

\* And of a failure.
LEMMA AnswerNotOk ==
  ASSUME NEW q, NEW c, NEW b \in Connection, NEW done \in SUBSET Write,
         NEW a, a = Answer(b, FALSE, done), Moves(q, c, FALSE, b)
  PROVE  a \in Answers /\ a.ok = FALSE /\ Moves(q, c, FALSE, a.c)
<1>1. a \in Answers
  BY DEF Answer, Answers
<1>2. a.c = b /\ a.ok = FALSE
  BY DEF Answer
<1> QED
  BY <1>1, <1>2

\* A connection whose transaction was opened, ended, aborted or written to.
LEMMA ConnectionParts ==
  ASSUME NEW c \in Connection, NEW writes \in SUBSET Write
  PROVE  /\ [c EXCEPT !.txn = "open"] \in Connection
         /\ [c EXCEPT !.txn = "aborted"] \in Connection
         /\ [c EXCEPT !.pending = @ \cup writes] \in Connection
         /\ [c EXCEPT !.pending = {}] \in Connection
         /\ \A u \in BOOLEAN : [c EXCEPT !.unreset = @ \/ u] \in Connection
         /\ Closed(c) \in Connection /\ Broken(c) \in Connection
         /\ c.pending \in SUBSET Write
BY DEF Connection, Closed, Broken

\* What success of a statement leaves.
LEMMA SucceedsMoves ==
  ASSUME NEW t \in Type, NEW c \in Connection, c.link, NEW q \in Stmt,
         NEW a \in Succeeds(t, c, q)
  PROVE  a \in Answers /\ a.ok = TRUE /\ Moves(q, c, TRUE, a.c)
<1> SUFFICES \E b \in Connection, done \in SUBSET Write :
               a = Answer(b, TRUE, done) /\ Moves(q, c, TRUE, b)
  BY AnswerOk
<1>0. {} \in SUBSET Write /\ q.writes \in SUBSET Write
  BY DEF Stmt
<1> USE DEF Stmt, Type
<1>1. CASE q.verb = "begin"
  <2>1. a \in BeginSucceeds(t, c)
    BY <1>1 DEF Succeeds
  <2>2. CASE a = Answer([c EXCEPT !.txn = "open"], TRUE, {})
    <3>1. Moves(q, c, TRUE, [c EXCEPT !.txn = "open"])
      BY <1>1 DEF Moves, Connection
    <3> QED
      BY <1>0, <2>2, <3>1, ConnectionParts
  <2>3. CASE c.txn # "none" /\ a = Answer(c, TRUE, {})
    <3>1. Moves(q, c, TRUE, c)
      BY <1>1, <2>3 DEF Moves
    <3> QED
      BY <1>0, <2>3, <3>1
  <2>4. CASE c.txn # "none" /\ a = Answer([c EXCEPT !.pending = {}], TRUE, c.pending)
    <3>1. Moves(q, c, TRUE, [c EXCEPT !.pending = {}])
      BY <1>1, <2>4 DEF Moves, Connection
    <3> QED
      BY <2>4, <3>1, ConnectionParts
  <2> QED
    BY <2>1, <2>2, <2>3, <2>4 DEF BeginSucceeds
<1>2. CASE q.verb \in {"commit", "rollback"}
  <2>1. PICK done \in SUBSET Write : a = Answer(Closed(c), TRUE, done)
    <3>1. a \in CommitSucceeds(t, c) \cup RollbackSucceeds(t, c)
      BY <1>2 DEF Succeeds
    <3>2. c.pending \in SUBSET Write
      BY DEF Connection
    <3>3. CASE a \in CommitSucceeds(t, c)
      BY <1>0, <3>2, <3>3 DEF CommitSucceeds
    <3>4. CASE a \in RollbackSucceeds(t, c)
      BY <1>0, <3>4 DEF RollbackSucceeds
    <3> QED
      BY <3>1, <3>3, <3>4
  <2>2. Moves(q, c, TRUE, Closed(c))
    BY <1>2 DEF Moves, Closed, Connection
  <2> QED
    BY <2>1, <2>2, ConnectionParts
<1>3. CASE q.verb = "query"
  <2>1. a \in QuerySucceeds(c, q.writes) /\ q.writes \in SUBSET Write
    BY <1>3 DEF Succeeds
  <2>2. CASE c.txn = "none"
    <3>1. a = Answer(c, TRUE, q.writes)
      BY <2>1, <2>2 DEF QuerySucceeds
    <3>2. Moves(q, c, TRUE, c)
      BY <1>3 DEF Moves
    <3> QED
      BY <1>0, <3>1, <3>2
  <2>3. CASE c.txn = "open"
    <3>1. a = Answer([c EXCEPT !.pending = @ \cup q.writes], TRUE, {})
      BY <2>1, <2>3 DEF QuerySucceeds
    <3>2. Moves(q, c, TRUE, [c EXCEPT !.pending = @ \cup q.writes])
      BY <1>3 DEF Moves, Connection
    <3> QED
      BY <1>0, <3>1, <3>2, ConnectionParts
  <2> QED
    BY <2>1, <2>2, <2>3 DEF QuerySucceeds, Connection
<1> QED
  BY <1>1, <1>2, <1>3

\* What its failure leaves.
LEMMA FailsMoves ==
  ASSUME NEW t \in Type, NEW c \in Connection, c.link, NEW q \in Stmt,
         NEW a \in Fails(t, c, q)
  PROVE  a \in Answers /\ a.ok = FALSE /\ Moves(q, c, FALSE, a.c)
<1> SUFFICES \E b \in Connection : a = Answer(b, FALSE, {}) /\ Moves(q, c, FALSE, b)
  BY AnswerNotOk
<1>0. {} \in SUBSET Write /\ q.writes \in SUBSET Write
  BY DEF Stmt
<1> USE DEF Stmt, Type
<1>1. CASE a = Answer(Failed(t, c), FALSE, {}) /\ q.verb \in {"begin", "query"}
  <2>1. Failed(t, c) \in Connection /\ Moves(q, c, FALSE, Failed(t, c))
    BY <1>1, ConnectionParts DEF Failed, Moves, Connection
  <2> QED
    BY <1>1, <2>1
<1>2. CASE a = Answer(Closed(c), FALSE, {}) /\ q.verb = "commit"
  <2>1. Moves(q, c, FALSE, Closed(c))
    BY <1>2 DEF Moves, Closed, Connection
  <2> QED
    BY <1>2, <2>1, ConnectionParts
<1>3. CASE a = Answer(c, FALSE, {}) /\ \/ q.verb = "commit" /\ (c.txn = "none" \/ BusyCommits)
                                       \/ q.verb = "rollback" /\ c.txn = "none"
  <2>1. Moves(q, c, FALSE, c)
    BY <1>3 DEF Moves
  <2> QED
    BY <1>3, <2>1
<1>4. CASE a = Answer([c EXCEPT !.unreset = @ \/ q.prepared], FALSE, {}) /\ q.verb = "query"
  <2> DEFINE b == [c EXCEPT !.unreset = @ \/ q.prepared]
  <2>1. b \in Connection
    BY ConnectionParts
  <2>2. Moves(q, c, FALSE, b)
    BY <1>4 DEF Moves, Connection
  <2>3. a = Answer(b, FALSE, {})
    BY <1>4
  <2> HIDE DEF b
  <2> QED
    BY <2>1, <2>2, <2>3
<1>5. CASE q.verb = "begin"
  BY <1>1, <1>5 DEF Fails
<1>6. CASE q.verb = "commit"
  <2>1. CASE t # "lite"
    <3>1. a \in IF c.txn = "open" THEN {Answer(Closed(c), FALSE, {})} ELSE {}
      BY <1>6, <2>1 DEF Fails
    <3> QED
      BY <1>2, <1>6, <3>1
  <2>2. CASE t = "lite"
    <3>1. a \in IF c.txn = "none" \/ BusyCommits THEN {Answer(c, FALSE, {})} ELSE {}
      BY <1>6, <2>2 DEF Fails
    <3> QED
      BY <1>3, <1>6, <3>1
  <2> QED
    BY <2>1, <2>2
<1>7. CASE q.verb = "rollback"
  BY <1>3, <1>7 DEF Fails
<1>8. CASE q.verb = "query"
  BY <1>1, <1>4, <1>8 DEF Fails
<1> QED
  BY <1>5, <1>6, <1>7, <1>8

\* An answer that is lost leaves no transaction.
LEMMA ServerMoves ==
  ASSUME NEW t \in Type, NEW c \in Connection, c.link, NEW q \in Stmt,
         NEW a \in Server(t, c, q)
  PROVE  a \in Answers /\ Moves(q, c, a.ok, a.c)
<1>1. CASE a \in Succeeds(t, c, q)
  BY <1>1, SucceedsMoves
<1>2. CASE a \in Fails(t, c, q)
  BY <1>2, FailsMoves
<1>3. CASE \E x \in Succeeds(t, c, q) : a = Answer(Broken(x.c), FALSE, x.done)
  <2>1. PICK x \in Succeeds(t, c, q) : a = Answer(Broken(x.c), FALSE, x.done)
    BY <1>3
  <2>2. x \in Answers /\ Moves(q, c, TRUE, x.c)
    BY SucceedsMoves
  <2> QED
    <3>1. Moves(q, c, FALSE, Broken(x.c)) /\ x.c \in Connection /\ x.done \in SUBSET Write
      BY <2>2 DEF Answers, Broken, Connection, Moves
    <3>2. Broken(x.c) \in Connection
      BY <3>1, ConnectionParts
    <3>3. \E b \in Connection, done \in SUBSET Write :
             a = Answer(b, FALSE, done) /\ Moves(q, c, FALSE, b)
      BY <2>1, <3>1, <3>2
    <3>4. a \in Answers /\ a.ok = FALSE /\ Moves(q, c, FALSE, a.c)
      BY <3>3, AnswerNotOk
    <3> QED
      BY <3>4
<1> QED
  BY <1>1, <1>2, <1>3 DEF Server

\* Without a connection nothing happens (Exec, where the drivers fail).
LEMMA ExecMoves ==
  ASSUME NEW t \in Type, NEW c \in Connection, ~c.link => c.txn = "none", NEW q \in Stmt,
         NEW a \in Exec(t, c, q)
  PROVE  a \in Answers /\ Moves(q, c, a.ok, a.c)
<1>1. CASE ~c.link
  <2>1. a = Answer(c, FALSE, {})
    BY <1>1 DEF Exec
  <2>2. Moves(q, c, FALSE, c)
    BY <1>1 DEF Moves, Stmt
  <2>3. \E b \in Connection, done \in SUBSET Write :
           a = Answer(b, FALSE, done) /\ Moves(q, c, FALSE, b)
    <3>1. {} \in SUBSET Write
      OBVIOUS
    <3> QED
      BY <2>1, <2>2, <3>1
  <2>4. a \in Answers /\ a.ok = FALSE /\ Moves(q, c, FALSE, a.c)
    BY <2>3, AnswerNotOk
  <2> QED
    BY <2>4
<1>2. CASE c.link
  <2>1. PICK p \in (IF q.prepared THEN Prepare(t, c) ELSE {Answer(c, TRUE, {})}) :
          a \in IF p.ok THEN Server(t, p.c, q) ELSE {p}
    BY <1>2 DEF Exec
  <2>2. p \in Answers /\ Alike(c, p.c) /\ (~p.ok => q.prepared)
    <3>1. CASE q.prepared
      BY <2>1, <3>1, PrepareAlike
    <3>2. CASE ~q.prepared
      <4>1. p = Answer(c, TRUE, {})
        BY <2>1, <3>2
      <4>2. p.c = c /\ p.ok = TRUE /\ p \in Answers
        BY <4>1 DEF Answer, Answers
      <4> QED
        BY <4>2 DEF Alike
    <3> QED
      BY <3>1, <3>2
  <2>3. p.c \in Connection /\ p.c.link
    BY <1>2, <2>2 DEF Answers, Alike
  <2>4. CASE p.ok
    <3>1. a \in Answers /\ Moves(q, p.c, a.ok, a.c)
      BY <2>1, <2>3, <2>4, ServerMoves
    <3> QED
      BY <2>2, <3>1 DEF Moves, Alike
  <2>5. CASE ~p.ok
    <3>1. a = p /\ q.verb = "query"
      BY <2>1, <2>2, <2>5 DEF Stmt
    <3>2. Moves(q, c, p.ok, p.c)
      BY <1>2, <2>2, <2>5, <3>1 DEF Moves, Alike
    <3> QED
      BY <2>2, <3>1, <3>2
  <2> QED
    BY <2>4, <2>5
<1> QED
  BY <1>1, <1>2

-----------------------------------------------------------------------------
(* One statement on all connections.                                       *)

Others(s, d, r) == \A e \in Db \ {d} : Alike(s[e], r[e])

\* What holds of a connection between statements.
Ready(c) == (~c.link => c.txn = "none") /\ (c.isBegin => c.dbc)

\* From c to b with a reconnection, or without one.
Ends(q, c, ok, b) ==
  /\ b.isBegin = c.isBegin /\ Ready(b)
  /\ c.isBegin /\ b.link => c.link
  /\ q.verb = "query" => /\ c.txn = "none" => b.txn = "none"
                         /\ c.isBegin /\ c.txn # "none" /\ b.link => b.txn # "none"
  /\ q.verb = "begin" => /\ ok => b.dbc /\ b.txn # "none"
                         /\ ~ok /\ c.txn = "none" => b.txn = "none"
  /\ q.verb = "rollback" => b.txn = "none"
  /\ q.verb = "commit" /\ ~BusyCommits => b.txn = "none"

Typed == dbType \in [Db -> Type] /\ dbExit \subseteq Db

Untouched(b) == b.isBegin = FALSE /\ b.txn = "none"

\* A new connection, or none, has no transaction (rim_pg_connect and the others).
LEMMA ConnectUntouched ==
  ASSUME Typed, NEW s \in Connections, NEW d \in Db, NEW g \in Connect(s, d)
  PROVE  /\ g \in Outcomes /\ Others(s, d, g.db) /\ Untouched(g.db[d])
         /\ g.ret # "null" /\ (g.ret = "ok" => g.db[d].dbc)
<1> DEFINE f == ForgetPrepared(s, d)
<1>1. f \in Connections /\ \A e \in Db : Alike(s[e], f[e])
  BY DEF ForgetPrepared, Connections, Connection, Alike
<1> HIDE DEF f
<1>2. ASSUME NEW up \in BOOLEAN
      PROVE  /\ Connected(s, d, up) \in Connections
             /\ Others(s, d, Connected(s, d, up))
             /\ Untouched(Connected(s, d, up)[d]) /\ Connected(s, d, up)[d].dbc
  <2> DEFINE n == [New(up) EXCEPT !.prep = f[d].prep]
  <2>1. n \in Connection /\ Untouched(n) /\ n.dbc
    BY <1>1 DEF New, Connections, Connection, Untouched
  <2>2. Connected(s, d, up) = [f EXCEPT ![d] = n]
    BY DEF Connected, f
  <2> HIDE DEF n
  <2> QED
    BY <1>1, <2>1, <2>2 DEF Connections, Others
<1>3. /\ Refused(s, d) \in Connections /\ Others(s, d, Refused(s, d))
      /\ Untouched(Refused(s, d)[d])
  <2> DEFINE r == Connected(s, d, FALSE)
  <2>1. r \in Connections /\ Others(s, d, r) /\ Untouched(r[d])
    BY <1>2
  <2>2. Refused(s, d) = [r EXCEPT ![d] = [r[d] EXCEPT !.dbc = FALSE]]
    BY DEF Refused
  <2> HIDE DEF r
  <2>3. [r[d] EXCEPT !.dbc = FALSE] \in Connection /\ Untouched([r[d] EXCEPT !.dbc = FALSE])
    BY <2>1 DEF Connections, Connection, Untouched
  <2> QED
    BY <2>1, <2>2, <2>3 DEF Connections, Others
<1>4. CASE g = Outcome(Connected(s, d, TRUE), "ok", {})
  BY <1>2, <1>4 DEF Outcome, Outcomes
<1>5. CASE g = Outcome(Connected(s, d, FALSE), "report", {})
  BY <1>2, <1>5 DEF Outcome, Outcomes
<1>6. CASE g = Outcome(Refused(s, d), "report", {})
  BY <1>3, <1>6 DEF Outcome, Outcomes
<1> QED
  BY <1>4, <1>5, <1>6 DEF Connect

\* The connection there is, or a new one (rim_get_db_connection).
LEMMA GetConnectionStep ==
  ASSUME Typed, NEW s \in Connections, NEW d \in Db, Ready(s[d]), NEW g \in GetConnection(s, d)
  PROVE  /\ g \in Outcomes /\ Others(s, d, g.db) /\ g.ret # "null"
         /\ g.ret = "ok" => g.db[d].dbc
         /\ (g.db = s /\ g.ret = "ok") \/ (~s[d].isBegin /\ Untouched(g.db[d]))
<1>1. CASE g \in Connect(s, d) /\ ~s[d].isBegin
  BY <1>1, ConnectUntouched
<1>2. CASE g = Outcome(s, "ok", {}) /\ s[d].dbc
  BY <1>2 DEF Outcome, Outcomes, Others, Alike
<1>3. s[d].isBegin \in BOOLEAN
  BY DEF Connections, Connection
<1> QED
  BY <1>1, <1>2, <1>3 DEF GetConnection, Ready

\* One execution (rim_pg_exec and the others, then rim_handle_error).
LEMMA AgainMoves ==
  ASSUME Typed, NEW s \in Connections, NEW d \in Db, Ready(s[d]), NEW q \in Stmt,
         NEW o \in Again(s, d, q)
  PROVE  /\ o \in Outcomes /\ Others(s, d, o.db)
         /\ Moves(q, s[d], o.ret = "ok", o.db[d])
<1>1. PICK a \in Exec(dbType[d], s[d], q), ret \in {"ok", "null", "report"} :
        /\ o = Outcome([s EXCEPT ![d] = a.c], ret, a.done)
        /\ ret \in IF a.ok THEN {"ok"} ELSE ErrorReturns(d)
  BY DEF Again, ErrorReturns
<1>2. a \in Answers /\ Moves(q, s[d], a.ok, a.c)
  BY ExecMoves DEF Typed, Connections, Ready
<1>3. (ret = "ok") <=> a.ok
  BY <1>1 DEF ErrorReturns
<1>4. Moves(q, s[d], ret = "ok", a.c)
  BY <1>2, <1>3 DEF Moves
<1>5. /\ [s EXCEPT ![d] = a.c] \in Connections
      /\ Others(s, d, [s EXCEPT ![d] = a.c]) /\ [s EXCEPT ![d] = a.c][d] = a.c
  BY <1>2 DEF Connections, Answers, Others, Alike
<1>6. o.db = [s EXCEPT ![d] = a.c] /\ o.ret = ret /\ o.done = a.done
  BY <1>1 DEF Outcome
<1>7. o \in Outcomes
  BY <1>1, <1>2, <1>5 DEF Outcome, Outcomes, Answers
<1> QED
  BY <1>4, <1>5, <1>6, <1>7

\* Two statements on d leave the other databases alone.
LEMMA OthersTransitive ==
  ASSUME NEW d \in Db, NEW s, NEW r, NEW u, Others(s, d, r), Others(r, d, u)
  PROVE  Others(s, d, u)
BY DEF Others, Alike

\* Without a flag, a connection that moved has a statement's end.
LEMMA MovesEnds ==
  ASSUME NEW c \in Connection, NEW b \in Connection, NEW q, NEW ok, Moves(q, c, ok, b),
         c.isBegin => c.dbc, ok => c.dbc
  PROVE  Ends(q, c, ok, b)
BY DEF Moves, Ends, Ready, Connection

\* After a new connection: the statement ends as if it had run there alone.
LEMMA FreshEnds ==
  ASSUME Typed, NEW s \in Connections, NEW d \in Db, NEW q \in Stmt,
         NEW c \in Connection, ~c.isBegin,
         NEW g \in GetConnection(s, d), Ready(s[d]), Untouched(s[d]), ~s[d].link,
         NEW o \in IF g.ret = "ok" THEN Again(g.db, d, q) ELSE {g}
  PROVE  o \in Outcomes /\ Others(s, d, o.db) /\ Ends(q, c, o.ret = "ok", o.db[d])
<1>1. /\ g \in Outcomes /\ Others(s, d, g.db) /\ Untouched(g.db[d])
      /\ g.ret = "ok" => g.db[d].dbc
  BY GetConnectionStep
<1>2. g.db \in Connections /\ g.db[d] \in Connection /\ Ready(g.db[d])
  BY <1>1 DEF Outcomes, Connections, Ready, Untouched
<1>3. CASE g.ret = "ok"
  <2>1. /\ o \in Outcomes /\ Others(g.db, d, o.db)
        /\ Moves(q, g.db[d], o.ret = "ok", o.db[d])
    BY <1>2, <1>3, AgainMoves
  <2>2. Ends(q, c, o.ret = "ok", o.db[d])
    BY <1>1, <1>2, <1>3, <2>1 DEF Ends, Moves, Untouched, Ready, Connection
  <2> QED
    BY <1>1, <2>1, <2>2, OthersTransitive
<1>4. CASE g.ret # "ok"
  <2>1. Ends(q, c, o.ret = "ok", o.db[d])
    BY <1>1, <1>2, <1>4 DEF Ends, Untouched, Ready, Connection
  <2> QED
    BY <1>1, <1>4, <2>1
<1> QED
  BY <1>3, <1>4

\* A connection that is closed (rim_end_connection).
LEMMA EndConnectionStep ==
  ASSUME NEW s \in Connections, NEW d \in Db
  PROVE  /\ EndConnection(s, d) \in Connections /\ Others(s, d, EndConnection(s, d))
         /\ Untouched(EndConnection(s, d)[d]) /\ ~EndConnection(s, d)[d].link
         /\ Ready(EndConnection(s, d)[d])
<1> DEFINE n == [NoConnection EXCEPT !.prep = s[d].prep]
<1>1. n \in Connection /\ Untouched(n) /\ ~n.link /\ Ready(n)
  BY DEF NoConnection, New, Connections, Connection, Untouched, Ready
<1>2. EndConnection(s, d) = [s EXCEPT ![d] = n]
  BY DEF EndConnection
<1> HIDE DEF n
<1> QED
  BY <1>1, <1>2 DEF Connections, Others, Alike

\* The retry leaves what a statement leaves (rim_execute_SQL).
LEMMA OnceEnds ==
  ASSUME Typed, NEW s \in Connections, NEW d \in Db, Ready(s[d]), s[d].dbc, NEW q \in Stmt,
         NEW o \in Once(s, d, q)
  PROVE  o \in Outcomes /\ Others(s, d, o.db) /\ Ends(q, s[d], o.ret = "ok", o.db[d])
<1>1. PICK a \in Again(s, d, q) :
        \/ o = a
        \/ /\ ~a.db[d].isBegin
           /\ \E r \in Reconnected(a.db, d, q) : o = [r EXCEPT !.done = @ \cup a.done]
  BY DEF Once, MayRetry
<1>2. a \in Outcomes /\ Others(s, d, a.db) /\ Moves(q, s[d], a.ret = "ok", a.db[d])
  BY AgainMoves
<1>3. s[d] \in Connection /\ a.db \in Connections /\ a.db[d] \in Connection
  BY <1>2 DEF Connections, Outcomes
<1>4. CASE o = a
  <2>1. Ends(q, s[d], a.ret = "ok", a.db[d])
    BY <1>2, <1>3, MovesEnds
  <2> QED
    BY <1>2, <1>4, <2>1
<1>5. ASSUME ~a.db[d].isBegin, NEW r \in Reconnected(a.db, d, q),
             o = [r EXCEPT !.done = @ \cup a.done]
      PROVE  o \in Outcomes /\ Others(s, d, o.db) /\ Ends(q, s[d], o.ret = "ok", o.db[d])
  <2> DEFINE u == EndConnection(a.db, d)
  <2>1. /\ u \in Connections /\ Others(a.db, d, u) /\ Untouched(u[d]) /\ ~u[d].link
        /\ Ready(u[d])
    BY <1>3, EndConnectionStep
  <2>2. PICK g \in GetConnection(u, d) : r \in IF g.ret = "ok" THEN Again(g.db, d, q) ELSE {g}
    BY <1>5 DEF Reconnected
  <2>3. ~s[d].isBegin
    BY <1>2, <1>5 DEF Moves
  <2> HIDE DEF u
  <2>4. r \in Outcomes /\ Others(u, d, r.db) /\ Ends(q, s[d], r.ret = "ok", r.db[d])
    BY <1>3, <2>1, <2>2, <2>3, FreshEnds
  <2>5. o \in Outcomes /\ o.db = r.db /\ o.ret = r.ret
    BY <1>2, <1>5, <2>4 DEF Outcomes
  <2>6. Others(s, d, r.db)
    BY <1>2, <2>1, <2>4, OthersTransitive
  <2> QED
    BY <2>4, <2>5, <2>6
<1> QED
  BY <1>1, <1>4, <1>5

\* A statement leaves the flag, a ready connection, the other databases, and a
\* transaction as Ends says, with or without a retry (rim_execute_SQL).
LEMMA ExecuteEnds ==
  ASSUME Typed, NEW s \in Connections, NEW d \in Db, Ready(s[d]), NEW q \in Stmt,
         NEW o \in ExecuteSQL(s, d, q)
  PROVE  o \in Outcomes /\ Others(s, d, o.db) /\ Ends(q, s[d], o.ret = "ok", o.db[d])
<1>1. PICK g \in GetConnection(s, d) : o \in IF g.ret = "ok" THEN Once(g.db, d, q) ELSE {g}
  BY DEF ExecuteSQL
<1>2. /\ g \in Outcomes /\ Others(s, d, g.db)
      /\ g.ret = "ok" => g.db[d].dbc
      /\ (g.db = s /\ g.ret = "ok") \/ (~s[d].isBegin /\ Untouched(g.db[d]))
  BY GetConnectionStep
<1>3. s[d] \in Connection /\ g.db \in Connections /\ g.db[d] \in Connection /\ Ready(g.db[d])
  BY <1>2 DEF Connections, Outcomes, Ready, Untouched
<1>4. CASE g.ret = "ok"
  <2>1. /\ o \in Outcomes /\ Others(g.db, d, o.db)
        /\ Ends(q, g.db[d], o.ret = "ok", o.db[d])
    BY <1>1, <1>2, <1>3, <1>4, OnceEnds
  <2>2. Ends(q, s[d], o.ret = "ok", o.db[d])
    BY <1>2, <1>3, <2>1 DEF Ends, Untouched, Connection
  <2> QED
    BY <1>2, <2>1, <2>2, OthersTransitive
<1>5. CASE g.ret # "ok"
  <2>1. o = g
    BY <1>1, <1>5
  <2>2. Ends(q, s[d], g.ret = "ok", g.db[d])
    BY <1>2, <1>3, <1>5 DEF Ends, Untouched, Ready, Connection
  <2> QED
    BY <1>2, <2>1, <2>2
<1> QED
  BY <1>4, <1>5

-----------------------------------------------------------------------------
(* The invariant.                                                          *)

\* Of one connection and the course of the transaction the program is in: what
\* InTransactionTruly says, and that none is open without the flag. The second
\* is what makes it inductive that requests are separate: the flag alone is what
\* the end of a request looks at.
Sound(c, k) ==
  /\ Ready(c)
  /\ ~Nests => /\ c.isBegin <=> k # "none"
               /\ c.isBegin /\ c.link => c.txn # "none"
  /\ ~Nests /\ ~BusyCommits /\ ~c.isBegin => c.txn = "none"

IInv ==
  /\ TypeOK
  /\ pc # "exit" => \A d \in Db : Sound(db[d], course[d])
  /\ pc = "exit" => db = Gone
  /\ pc \in {"idle", "shut"} => \A d \in Db : ~db[d].isBegin

\* What is prepared does not matter.
LEMMA AlikeSound ==
  ASSUME NEW c \in Connection, NEW b \in Connection, NEW k, Sound(c, k), Alike(c, b)
  PROVE  Sound(b, k)
BY DEF Sound, Alike, Ready, Connection

\* A process that begins, or is gone, has no connections and no transactions.
LEMMA GoneSound == Gone \in Connections /\ \A d \in Db : Sound(Gone[d], "none") /\ ~Gone[d].isBegin
<1>1. NoConnection \in Connection /\ ~NoConnection.isBegin /\ Sound(NoConnection, "none")
  BY DEF NoConnection, New, Connection, Sound, Ready
<1> QED
  BY <1>1 DEF Gone, Connections

\* The other databases stay sound.
LEMMA OthersSound ==
  ASSUME NEW d \in Db, NEW s \in Connections, NEW r \in Connections, Others(s, d, r),
         NEW ks \in [Db -> Course], NEW k, \A e \in Db \ {d} : Sound(s[e], ks[e]),
         Sound(r[d], k)
  PROVE  \A e \in Db : Sound(r[e], [ks EXCEPT ![d] = k][e])
<1>1. ASSUME NEW e \in Db \ {d}
      PROVE  Sound(r[e], [ks EXCEPT ![d] = k][e])
  BY <1>1, AlikeSound DEF Others, Connections
<1> QED
  BY <1>1

\* The start of the process (main).
LEMMA InitIInv == Init => IInv
<1> SUFFICES ASSUME Init PROVE IInv
  OBVIOUS
<1>1. db = Gone
  BY DEF Init, Gone
<1>2. TypeOK
  BY <1>1, GoneSound DEF Init, TypeOK, Connections, Course
<1> QED
  BY <1>1, <1>2, GoneSound DEF Init, IInv

\* The statements that are executed.
LEMMA VerbStmt ==
  /\ \A v \in {"begin", "commit", "rollback"} : Verb(v) \in Stmt /\ Verb(v).verb = v
  /\ \A w \in SUBSET Write, p \in BOOLEAN :
       LET q == [verb |-> "query", writes |-> w, prepared |-> p] IN q \in Stmt /\ q.verb = "query"
BY DEF Verb, Stmt

\* The flag is cleared first, then the transaction ends (rim_commit, rim_rollback).
LEMMA EndSound ==
  ASSUME IInv, pc # "exit", NEW d \in Db, NEW v \in {"commit", "rollback"},
         NEW o \in ExecuteSQL(SetBegin(db, d, FALSE), d, Verb(v))
  PROVE  o \in Outcomes /\ \A e \in Db : Sound(o.db[e], [course EXCEPT ![d] = "none"][e])
<1> DEFINE s == SetBegin(db, d, FALSE)
<1>1. /\ Typed /\ db \in Connections /\ course \in [Db -> Course]
      /\ \A e \in Db : Sound(db[e], course[e])
  BY DEF IInv, TypeOK, Typed, Connections
<1>2. /\ s \in Connections /\ s[d].isBegin = FALSE /\ Ready(s[d])
      /\ \A e \in Db \ {d} : s[e] = db[e]
  <2>1. db[d] \in Connection /\ Sound(db[d], course[d])
    BY <1>1 DEF Connections
  <2>2. /\ [db[d] EXCEPT !.isBegin = FALSE] \in Connection
        /\ [db[d] EXCEPT !.isBegin = FALSE].isBegin = FALSE
    BY <2>1 DEF Connection
  <2>3. Ready([db[d] EXCEPT !.isBegin = FALSE])
    BY <2>1, <2>2 DEF Connection, Sound, Ready
  <2>4. s = [db EXCEPT ![d] = [db[d] EXCEPT !.isBegin = FALSE]]
    BY <1>1 DEF SetBegin, Connections
  <2> QED
    BY <1>1, <2>2, <2>3, <2>4 DEF Connections
<1> HIDE DEF s
<1>3. /\ o \in Outcomes /\ Others(s, d, o.db)
      /\ Ends(Verb(v), s[d], o.ret = "ok", o.db[d])
  BY <1>1, <1>2, VerbStmt, ExecuteEnds DEF s
<1>4. Sound(o.db[d], "none")
  BY <1>2, <1>3, VerbStmt, DbAssumption DEF Ends, Sound
<1>5. o.db \in Connections
  BY <1>3 DEF Outcomes
<1> QED
  BY <1>1, <1>2, <1>3, <1>4, <1>5, OthersSound

\* The types of what the program is told.
LEMMA SayType ==
  ASSUME TypeOK, NEW writes, NEW what \in {"nothing", "written", "done", "committed", "maybe", "undone"},
         Say(writes, what)
  PROVE  said' \in [Write -> {"nothing", "written", "done", "committed", "maybe", "undone"}]
BY DEF TypeOK, Say

\* The types at the end of a transaction.
LEMMA OverType ==
  ASSUME TypeOK, NEW d \in Db, Over(d)
  PROVE  acked' \in [Db -> SUBSET Write] /\ course' \in [Db -> Course]
BY DEF TypeOK, Over, Course

\* The types when a statement returns or jumps.
LEMMA ReturnsType ==
  ASSUME TypeOK, NEW o \in Outcomes, Returns(o)
  PROVE  /\ durable' \subseteq Write /\ dbType' \in [Db -> Type] /\ dbExit' \subseteq Db
         /\ pc' \in {"run", "report"}
BY DEF TypeOK, Returns, Outcomes

\* rim_commit() keeps the invariant.
LEMMA CommitIInv ==
  ASSUME IInv, NEW d \in Db, Commit(d)
  PROVE  IInv'
<1>1. PICK o \in ExecuteSQL(SetBegin(db, d, FALSE), d, Verb("commit")) :
        /\ Returns(o) /\ db' = o.db
        /\ Say(IF o.ret = "ok" THEN acked[d] ELSE {},
               CASE course[d] = "quiet"  -> "done"
                 [] course[d] = "broken" -> "committed"
                 [] OTHER -> "maybe")
  BY DEF Commit
<1>2. Over(d) /\ pc = "run"
  BY DEF Commit
<1>3. o \in Outcomes /\ \A e \in Db : Sound(o.db[e], [course EXCEPT ![d] = "none"][e])
  BY <1>2, EndSound
<1>4. TypeOK'
  <2>1. said' \in [Write -> {"nothing", "written", "done", "committed", "maybe", "undone"}]
    <3>1. CASE course[d] = "quiet"
      BY <1>1, <3>1, SayType DEF IInv
    <3>2. CASE course[d] = "broken"
      BY <1>1, <3>2, SayType DEF IInv
    <3>3. CASE course[d] \notin {"quiet", "broken"}
      BY <1>1, <3>3, SayType DEF IInv
    <3> QED
      BY <3>1, <3>2, <3>3
  <2> QED
    BY <1>1, <1>2, <1>3, <2>1, OverType, ReturnsType DEF IInv, TypeOK, Outcomes, Connections
<1> QED
  BY <1>1, <1>2, <1>3, <1>4, ReturnsType DEF IInv, Over

\* rim_rollback() of the program keeps it.
LEMMA RollbackIInv ==
  ASSUME IInv, NEW d \in Db, Rollback(d)
  PROVE  IInv'
<1>1. PICK o \in ExecuteSQL(SetBegin(db, d, FALSE), d, Verb("rollback")) :
        /\ Returns(o) /\ db' = o.db
        /\ Say(IF o.ret = "ok" THEN acked[d] ELSE {}, "undone")
  BY DEF Rollback, RollbackOf
<1>2. Over(d) /\ pc = "run"
  BY DEF Rollback
<1>3. o \in Outcomes /\ \A e \in Db : Sound(o.db[e], [course EXCEPT ![d] = "none"][e])
  BY <1>2, EndSound
<1>4. TypeOK'
  BY <1>1, <1>2, <1>3, SayType, OverType, ReturnsType DEF IInv, TypeOK, Outcomes, Connections
<1> QED
  BY <1>1, <1>2, <1>3, <1>4, ReturnsType DEF IInv, Over

\* At the end of a request (rim_check_transaction).
LEMMA RollbackLeftIInv ==
  ASSUME IInv, NEW d \in Db, RollbackLeft(d)
  PROVE  IInv'
<1>1. PICK o \in ExecuteSQL(SetBegin(db, d, FALSE), d, Verb("rollback")) :
        /\ durable' = durable \cup o.done
        /\ \/ pc' = "exit" /\ db' = Gone
           \/ pc' \in {"report", "left"} /\ db' = o.db
  BY DEF RollbackLeft, RollbackOf
<1>2. /\ Over(d) /\ pc \in {"check", "left", "report"} /\ Say(acked[d], "undone")
      /\ UNCHANGED <<dbType, dbExit>>
  BY DEF RollbackLeft
<1>3. o \in Outcomes /\ \A e \in Db : Sound(o.db[e], [course EXCEPT ![d] = "none"][e])
  BY <1>2, EndSound
<1>4. TypeOK'
  BY <1>1, <1>2, <1>3, SayType, OverType, GoneSound DEF IInv, TypeOK, Outcomes, Connections
<1> QED
  BY <1>1, <1>2, <1>3, <1>4 DEF IInv, Over

\* A query keeps the flag and the transaction, or loses the connection.
LEMMA QueryIInv ==
  ASSUME IInv, NEW d \in Db, NEW w \in SUBSET Write, NEW p \in BOOLEAN, RunQuery(d, w, p)
  PROVE  IInv'
<1> DEFINE q == [verb |-> "query", writes |-> w, prepared |-> p]
<1>1. PICK o \in ExecuteSQL(db, d, q) :
        /\ Returns(o) /\ db' = o.db
        /\ acked' = [acked EXCEPT ![d] = IF o.ret = "ok" /\ course[d] # "none" THEN @ \cup w ELSE @]
        /\ course' = [course EXCEPT ![d] = IF course[d] # "none" /\ o.ret # "ok" THEN "failed" ELSE @]
        /\ Say(IF o.ret = "ok" /\ course[d] = "none" THEN w ELSE {}, "written")
  BY DEF RunQuery
<1>2. q \in Stmt /\ q.verb = "query"
  BY VerbStmt
<1> HIDE DEF q
<1>3. /\ Typed /\ db \in Connections /\ db[d] \in Connection /\ course \in [Db -> Course]
      /\ pc = "run" /\ \A e \in Db : Sound(db[e], course[e])
  BY DEF IInv, TypeOK, Typed, Connections, RunQuery
<1>4. o \in Outcomes /\ Others(db, d, o.db) /\ Ends(q, db[d], o.ret = "ok", o.db[d])
  BY <1>2, <1>3, ExecuteEnds DEF Sound
<1>5. PICK k \in Course : course' = [course EXCEPT ![d] = k] /\ (k = "none" <=> course[d] = "none")
  BY <1>1, <1>3 DEF Course
<1>6. o.db \in Connections /\ o.db[d] \in Connection
  BY <1>4 DEF Outcomes, Connections
<1>7. Sound(o.db[d], k)
  <2>1. o.db[d].isBegin <=> db[d].isBegin
    BY <1>4 DEF Ends
  <2>2. Ready(o.db[d])
    BY <1>4 DEF Ends
  <2>3. ASSUME ~Nests
        PROVE  /\ o.db[d].isBegin <=> k # "none"
               /\ o.db[d].isBegin /\ o.db[d].link => o.db[d].txn # "none"
    BY <1>2, <1>3, <1>4, <1>5, <2>1, <2>3 DEF Ends, Sound
  <2>4. ASSUME ~Nests, ~BusyCommits, ~o.db[d].isBegin
        PROVE  o.db[d].txn = "none"
    BY <1>2, <1>3, <1>4, <2>1, <2>4 DEF Ends, Sound
  <2> QED
    BY <2>2, <2>3, <2>4 DEF Sound
<1>8. \A e \in Db : Sound(o.db[e], course'[e])
  BY <1>3, <1>4, <1>5, <1>6, <1>7, OthersSound
<1>9. TypeOK'
  <2>1. acked' \in [Db -> SUBSET Write] /\ course' \in [Db -> Course]
    BY <1>1, <1>3, <1>5 DEF IInv, TypeOK, Course
  <2> QED
    BY <1>1, <1>6, <2>1, SayType, ReturnsType, <1>4 DEF IInv, TypeOK, Connections
<1> QED
  BY <1>1, <1>4, <1>8, <1>9, ReturnsType DEF IInv

\* Outside transactions a begin that succeeds opens one, on the connection it
\* succeeded on, and one that fails leaves none.
LEMMA BeginIInv ==
  ASSUME IInv, NEW d \in Db, BeginTransaction(d)
  PROVE  IInv'
<1> DEFINE q == Verb("begin")
<1>1. PICK o \in ExecuteSQL(db, d, q) :
        /\ Returns(o) /\ db' = Begun(o, d)
        /\ course' = [course EXCEPT ![d] = CASE o.ret = "ok" /\ @ = "none"  -> "quiet"
                                             [] o.ret # "ok" /\ @ # "none" -> "failed"
                                             [] OTHER -> @]
  BY DEF BeginTransaction
<1>2. q \in Stmt /\ q.verb = "begin"
  BY VerbStmt
<1> HIDE DEF q
<1>3. /\ Typed /\ db \in Connections /\ db[d] \in Connection /\ course \in [Db -> Course]
      /\ pc = "run" /\ \A e \in Db : Sound(db[e], course[e])
      /\ (Nests \/ ~db[d].isBegin) /\ UNCHANGED <<acked, said>>
  BY DEF IInv, TypeOK, Typed, Connections, BeginTransaction
<1>4. o \in Outcomes /\ Others(db, d, o.db) /\ Ends(q, db[d], o.ret = "ok", o.db[d])
  BY <1>2, <1>3, ExecuteEnds DEF Sound
<1>5. PICK k \in Course : /\ course' = [course EXCEPT ![d] = k]
                          /\ course[d] = "none" => (k # "none" <=> o.ret = "ok")
  BY <1>1, <1>3 DEF Course
<1>6. o.db \in Connections /\ o.db[d] \in Connection /\ o.ret \in {"ok", "null", "report"}
  BY <1>4 DEF Outcomes, Connections
<1>7. PICK is \in BOOLEAN : /\ db' = [o.db EXCEPT ![d] = [@ EXCEPT !.isBegin = is]]
                            /\ o.ret = "ok" => is
                            /\ o.ret # "ok" => ~is \/ db[d].isBegin
  <2>1. CASE o.ret = "ok"
    BY <1>1, <2>1 DEF Begun, SetBegin
  <2>2. CASE o.ret = "null"
    BY <1>1, <2>2 DEF Begun, SetBegin
  <2>3. CASE o.ret = "report"
    <3>1. db' = [o.db EXCEPT ![d] = [@ EXCEPT !.isBegin = db[d].isBegin]]
      BY <1>1, <1>4, <1>6, <2>3 DEF Begun, Ends, Connections, Connection
    <3> QED
      BY <1>3, <2>3, <3>1 DEF Connection
  <2> QED
    BY <1>6, <2>1, <2>2, <2>3
<1> DEFINE b == [o.db[d] EXCEPT !.isBegin = is]
<1>8. /\ b \in Connection /\ b.isBegin = is /\ b.txn = o.db[d].txn
      /\ b.link = o.db[d].link /\ b.dbc = o.db[d].dbc
  BY <1>6 DEF Connection
<1>9. db' = [o.db EXCEPT ![d] = b]
  BY <1>6, <1>7 DEF Connections
<1> HIDE DEF b
<1>10. db' \in Connections /\ Others(db, d, db') /\ db'[d] = b
  BY <1>4, <1>6, <1>8, <1>9 DEF Connections, Others
<1>11. Sound(b, k)
  <2>1. Ready(b)
    BY <1>2, <1>4, <1>7, <1>8 DEF Ends, Ready
  <2>2. ASSUME ~Nests
        PROVE  /\ b.isBegin <=> k # "none"
               /\ b.isBegin /\ b.link => b.txn # "none"
    BY <1>2, <1>3, <1>4, <1>5, <1>7, <1>8, <2>2 DEF Ends, Sound
  <2>3. ASSUME ~Nests, ~BusyCommits, ~b.isBegin
        PROVE  b.txn = "none"
    BY <1>2, <1>3, <1>4, <1>7, <1>8, <2>3 DEF Ends, Sound
  <2> QED
    BY <2>1, <2>2, <2>3 DEF Sound
<1>12. \A e \in Db : Sound(db'[e], course'[e])
  BY <1>3, <1>5, <1>10, <1>11, OthersSound
<1>13. TypeOK'
  <2>1. course' \in [Db -> Course]
    BY <1>3, <1>5
  <2>2. TypeOK /\ db' \in [Db -> Connection]
    BY <1>10 DEF IInv, Connections
  <2>3. /\ durable' \subseteq Write /\ dbType' \in [Db -> Type] /\ dbExit' \subseteq Db
        /\ pc' \in {"run", "report"}
    BY <1>1, <1>4, <2>2, ReturnsType
  <2> QED
    BY <1>3, <2>1, <2>2, <2>3 DEF TypeOK
<1> QED
  BY <1>1, <1>4, <1>12, <1>13, ReturnsType DEF IInv

\* The steps that execute no statement.
LEMMA OtherIInv ==
  ASSUME IInv, \/ \E d \in Db : DbError(d) \/ Break(d)
               \/ Accept \/ LeaveProgram \/ Checked \/ ErrorRequest \/ Finish \/ Kill \/ Respawn
  PROVE  IInv'
<1>1. CASE \E d \in Db : DbError(d)
  BY <1>1 DEF IInv, TypeOK, DbError
<1>2. ASSUME NEW d \in Db, Break(d)
      PROVE  IInv'
  <2>1. /\ db \in Connections /\ db[d] \in Connection /\ course \in [Db -> Course]
        /\ pc # "exit"
    BY <1>2, GoneSound DEF IInv, TypeOK, Connections, Break, Gone, NoConnection, New
  <2>2. Broken(db[d]) \in Connection /\ db' = [db EXCEPT ![d] = Broken(db[d])]
    BY <1>2, <2>1, ConnectionParts DEF Break
  <2>3. PICK k \in Course : /\ course' = [course EXCEPT ![d] = k]
                            /\ k = "none" <=> course[d] = "none"
    BY <1>2, <2>1 DEF Break, Course
  <2>4. Sound(Broken(db[d]), k)
    BY <2>1, <2>3 DEF IInv, Sound, Ready, Broken, Connection
  <2>5. \A e \in Db : Sound(db'[e], course'[e])
    BY <2>1, <2>2, <2>3, <2>4 DEF IInv, Connections
  <2>6. \A e \in Db : db'[e].isBegin = db[e].isBegin
    BY <2>1, <2>2 DEF Broken, Connections, Connection
  <2>7. TypeOK'
    BY <1>2, <2>1, <2>2, <2>3 DEF IInv, TypeOK, Break, Connections
  <2> QED
    BY <1>2, <2>1, <2>5, <2>6, <2>7 DEF IInv, Break
<1>3. CASE Accept \/ LeaveProgram
  BY <1>3 DEF IInv, TypeOK, Accept, LeaveProgram
<1>4. CASE Checked \/ ErrorRequest
  BY <1>4 DEF IInv, TypeOK, Checked, ErrorRequest, Jumps, InTransaction
<1>5. CASE Finish \/ Kill
  BY <1>5, GoneSound DEF IInv, TypeOK, Finish, Kill, Connections
<1>6. CASE Respawn
  <2>1. TypeOK'
    BY <1>6 DEF IInv, TypeOK, Respawn, Course
  <2>2. db' = Gone /\ pc' = "idle" /\ course' = [d \in Db |-> "none"]
    BY <1>6 DEF IInv, Respawn
  <2> QED
    BY <2>1, <2>2, GoneSound DEF IInv
<1> QED
  BY <1>1, <1>2, <1>3, <1>4, <1>5, <1>6

\* Every step keeps it.
LEMMA NextIInv == IInv /\ [Next]_vars => IInv'
<1> SUFFICES ASSUME IInv, [Next]_vars PROVE IInv'
  OBVIOUS
<1>1. ASSUME NEW d \in Db, NEW p \in BOOLEAN, NEW w \in Writes, RunQuery(d, w, p)
      PROVE  IInv'
  <2>1. w \in SUBSET Write
    BY <1>1 DEF Writes, Fresh
  <2> QED
    BY <1>1, <2>1, QueryIInv
<1>2. CASE UNCHANGED vars
  BY <1>2 DEF vars, IInv, TypeOK
<1> QED
  BY <1>1, <1>2, BeginIInv, CommitIInv, RollbackIInv, RollbackLeftIInv, OtherIInv
  DEF Next, Statement, EndOfRequest

\* The invariant of connections, flags and transactions holds in every state.
THEOREM Invariance == Spec => []IInv
BY InitIInv, NextIInv, PTL DEF Spec

-----------------------------------------------------------------------------
(* The properties.                                                         *)

\* The type invariant.
THEOREM TypeCorrect == Spec => []TypeOK
<1>1. IInv => TypeOK
  BY DEF IInv
<1> QED
  BY <1>1, Invariance, PTL

\* A program that is in a transaction runs no statement of it on a connection
\* made after the begin (rim_execute_SQL), if it does not nest transactions.
THEOREM TransactionsTrue == ASSUME Nests = FALSE PROVE Spec => []InTransactionTruly
<1>1. IInv => InTransactionTruly
  BY DEF IInv, Sound, Ready, InTransactionTruly
<1> QED
  BY <1>1, Invariance, PTL

\* No transaction reaches the next request, through any errors in its end
\* (rim_check_transaction, rim_report_error), if also SQLite does not answer
\* busy to a commit.
THEOREM RequestsApart ==
  ASSUME Nests = FALSE, BusyCommits = FALSE
  PROVE  Spec => []RequestsSeparate
<1>1. IInv => RequestsSeparate
  BY DEF IInv, Sound, RequestsSeparate
<1> QED
  BY <1>1, Invariance, PTL

-----------------------------------------------------------------------------
(* What becomes durable. One statement on one connection, as before.       *)

\* Without a transaction nothing is pending, and PostgreSQL and the others know
\* what there is a handle of.
Clean(c) ==
  /\ c.txn = "none" => c.pending = {}
  /\ ~c.link => c.txn = "none"
  /\ c.prep => c.named

\* From c to b, where "done" became durable.
Does(q, c, ok, b, done) ==
  /\ Clean(b)
  /\ ~c.link => ~ok /\ done = {} /\ b.pending \subseteq c.pending
  /\ q.verb = "begin" /\ c.txn = "none" => done = {} /\ b.pending = {} /\ (ok => b.txn = "open")
  /\ q.verb = "rollback" => done = {}
  /\ q.verb = "commit" => /\ done \subseteq c.pending
                          /\ c.link /\ c.txn = "open" /\ (ok \/ ~b.link) => done = c.pending
  /\ q.verb = "query" /\ c.txn = "none" => done \subseteq q.writes /\ (ok => done = q.writes)
  /\ q.verb = "query" /\ c.txn # "none" =>
       /\ done = {}
       /\ IF ok THEN b.link /\ b.txn = "open" /\ b.pending = c.pending \cup q.writes
                ELSE b.pending \subseteq c.pending

\* The parts of an answer.
LEMMA AnswerDoes ==
  ASSUME NEW q, NEW c, NEW ok \in BOOLEAN, NEW b, NEW done,
         NEW a, a = Answer(b, ok, done), Does(q, c, ok, b, done)
  PROVE  Does(q, c, ok, a.c, a.done)
<1>1. a.c = b /\ a.done = done
  BY DEF Answer
<1> QED
  BY <1>1

\* What success of a statement makes durable.
LEMMA SucceedsDoes ==
  ASSUME NEW t \in Type, NEW c \in Connection, c.link, Clean(c), NEW q \in Stmt,
         NEW a \in Succeeds(t, c, q)
  PROVE  Does(q, c, TRUE, a.c, a.done)
<1> SUFFICES \E b, done : a = Answer(b, TRUE, done) /\ Does(q, c, TRUE, b, done)
  BY AnswerDoes, TRUE \in BOOLEAN
<1> USE DEF Stmt, Type
<1>1. CASE q.verb = "begin"
  <2>1. a \in BeginSucceeds(t, c)
    BY <1>1 DEF Succeeds
  <2>2. CASE c.txn = "none" /\ a = Answer([c EXCEPT !.txn = "open"], TRUE, {})
    <3>1. Does(q, c, TRUE, [c EXCEPT !.txn = "open"], {})
      BY <1>1, <2>2 DEF Does, Clean, Connection
    <3> QED
      BY <2>2, <3>1
  <2>3. CASE c.txn # "none" /\ a = Answer(c, TRUE, {})
    <3>1. Does(q, c, TRUE, c, {})
      BY <1>1, <2>3 DEF Does
    <3> QED
      BY <2>3, <3>1
  <2>4. CASE c.txn # "none" /\ a = Answer([c EXCEPT !.pending = {}], TRUE, c.pending)
    <3>1. Does(q, c, TRUE, [c EXCEPT !.pending = {}], c.pending)
      BY <1>1, <2>4 DEF Does, Clean, Connection
    <3> QED
      BY <2>4, <3>1
  <2> QED
    BY <2>1, <2>2, <2>3, <2>4 DEF BeginSucceeds
<1>2. CASE q.verb = "commit"
  <2> DEFINE done == IF c.txn = "aborted" THEN {} ELSE c.pending
  <2>1. a = Answer(Closed(c), TRUE, done)
    BY <1>2 DEF Succeeds, CommitSucceeds
  <2>2. Does(q, c, TRUE, Closed(c), done)
    BY <1>2 DEF Does, Clean, Closed, Connection
  <2> QED
    BY <2>1, <2>2
<1>3. CASE q.verb = "rollback"
  <2>1. a = Answer(Closed(c), TRUE, {})
    BY <1>3 DEF Succeeds, RollbackSucceeds
  <2>2. Does(q, c, TRUE, Closed(c), {})
    BY <1>3 DEF Does, Clean, Closed, Connection
  <2> QED
    BY <2>1, <2>2
<1>4. CASE q.verb = "query"
  <2>1. a \in QuerySucceeds(c, q.writes)
    BY <1>4 DEF Succeeds
  <2>2. CASE c.txn = "none"
    <3>1. a = Answer(c, TRUE, q.writes)
      BY <2>1, <2>2 DEF QuerySucceeds
    <3>2. Does(q, c, TRUE, c, q.writes)
      BY <1>4, <2>2 DEF Does
    <3> QED
      BY <3>1, <3>2
  <2>3. CASE c.txn = "open"
    <3>1. a = Answer([c EXCEPT !.pending = @ \cup q.writes], TRUE, {})
      BY <2>1, <2>3 DEF QuerySucceeds
    <3>2. Does(q, c, TRUE, [c EXCEPT !.pending = @ \cup q.writes], {})
      BY <1>4, <2>3 DEF Does, Clean, Connection
    <3> QED
      BY <3>1, <3>2
  <2> QED
    BY <2>1, <2>2, <2>3 DEF QuerySucceeds, Connection
<1> QED
  BY <1>1, <1>2, <1>3, <1>4

\* Its failure makes nothing durable.
LEMMA FailsDoes ==
  ASSUME NEW t \in Type, NEW c \in Connection, c.link, Clean(c), NEW q \in Stmt,
         NEW a \in Fails(t, c, q)
  PROVE  Does(q, c, FALSE, a.c, a.done)
<1> SUFFICES \E b : a = Answer(b, FALSE, {}) /\ Does(q, c, FALSE, b, {})
  BY AnswerDoes, FALSE \in BOOLEAN
<1> USE DEF Stmt, Type
<1>1. CASE a = Answer(Failed(t, c), FALSE, {}) /\ q.verb \in {"begin", "query"}
  <2>1. Does(q, c, FALSE, Failed(t, c), {})
    BY <1>1 DEF Failed, Does, Clean, Connection
  <2> QED
    BY <1>1, <2>1
<1>2. CASE a = Answer(Closed(c), FALSE, {}) /\ q.verb = "commit"
  <2>1. Does(q, c, FALSE, Closed(c), {})
    BY <1>2 DEF Does, Clean, Closed, Connection
  <2> QED
    BY <1>2, <2>1
<1>3. CASE a = Answer(c, FALSE, {}) /\ q.verb \in {"commit", "rollback"}
  <2>1. Does(q, c, FALSE, c, {})
    BY <1>3 DEF Does
  <2> QED
    BY <1>3, <2>1
<1>4. CASE a = Answer([c EXCEPT !.unreset = @ \/ q.prepared], FALSE, {}) /\ q.verb = "query"
  <2> DEFINE b == [c EXCEPT !.unreset = @ \/ q.prepared]
  <2>1. Does(q, c, FALSE, b, {})
    BY <1>4 DEF Does, Clean, Connection
  <2>2. a = Answer(b, FALSE, {})
    BY <1>4
  <2> HIDE DEF b
  <2> QED
    BY <2>1, <2>2
<1>5. CASE q.verb = "begin"
  BY <1>1, <1>5 DEF Fails
<1>6. CASE q.verb = "commit"
  <2>1. CASE t # "lite"
    <3>1. a \in IF c.txn = "open" THEN {Answer(Closed(c), FALSE, {})} ELSE {}
      BY <1>6, <2>1 DEF Fails
    <3> QED
      BY <1>2, <1>6, <3>1
  <2>2. CASE t = "lite"
    <3>1. a \in IF c.txn = "none" \/ BusyCommits THEN {Answer(c, FALSE, {})} ELSE {}
      BY <1>6, <2>2 DEF Fails
    <3> QED
      BY <1>3, <1>6, <3>1
  <2> QED
    BY <2>1, <2>2
<1>7. CASE q.verb = "rollback"
  BY <1>3, <1>7 DEF Fails
<1>8. CASE q.verb = "query"
  BY <1>1, <1>4, <1>8 DEF Fails
<1> QED
  BY <1>5, <1>6, <1>7, <1>8

\* When the answer to a success is lost, what it made durable stays so.
LEMMA ServerDoes ==
  ASSUME NEW t \in Type, NEW c \in Connection, c.link, Clean(c), NEW q \in Stmt,
         NEW a \in Server(t, c, q)
  PROVE  Does(q, c, a.ok, a.c, a.done)
<1>1. CASE a \in Succeeds(t, c, q)
  <2>1. a.ok = TRUE /\ Does(q, c, TRUE, a.c, a.done)
    BY <1>1, SucceedsMoves, SucceedsDoes
  <2> QED
    BY <2>1
<1>2. CASE a \in Fails(t, c, q)
  <2>1. a.ok = FALSE /\ Does(q, c, FALSE, a.c, a.done)
    BY <1>2, FailsMoves, FailsDoes
  <2> QED
    BY <2>1
<1>3. CASE \E x \in Succeeds(t, c, q) : a = Answer(Broken(x.c), FALSE, x.done)
  <2>1. PICK x \in Succeeds(t, c, q) : a = Answer(Broken(x.c), FALSE, x.done)
    BY <1>3
  <2>2. x.c \in Connection /\ Does(q, c, TRUE, x.c, x.done)
    BY SucceedsMoves, SucceedsDoes DEF Answers
  <2>3. Does(q, c, FALSE, Broken(x.c), x.done)
    BY <2>2 DEF Does, Clean, Broken, Connection
  <2>4. a.ok = FALSE /\ a.c = Broken(x.c) /\ a.done = x.done
    BY <2>1 DEF Answer
  <2> QED
    BY <2>3, <2>4
<1> QED
  BY <1>1, <1>2, <1>3 DEF Server

\* Preparing makes nothing durable, and a handle is one of a statement the
\* connection knows.
LEMMA PrepareClean ==
  ASSUME NEW t \in Type, NEW c \in Connection, Clean(c), NEW a \in Prepare(t, c)
  PROVE  Clean(a.c) /\ a.c.pending = c.pending /\ (a.ok => a.c.txn = c.txn)
<1>1. CASE a = Answer(c, ~c.unreset, {})
  BY <1>1 DEF Answer
<1>2. CASE a = Answer(Failed(t, c), FALSE, {})
  <2>1. Clean(Failed(t, c)) /\ Failed(t, c).pending = c.pending
    BY DEF Failed, Clean, Connection
  <2>2. a.c = Failed(t, c) /\ a.ok = FALSE
    BY <1>2 DEF Answer
  <2> QED
    BY <2>1, <2>2
<1>3. CASE a = Answer([c EXCEPT !.prep = TRUE, !.unreset = FALSE, !.named = TRUE], TRUE, {})
  <2> DEFINE b == [c EXCEPT !.prep = TRUE, !.unreset = FALSE, !.named = TRUE]
  <2>1. Clean(b) /\ b.pending = c.pending /\ b.txn = c.txn
    BY DEF Clean, Connection
  <2>2. a.c = b
    BY <1>3 DEF Answer
  <2> HIDE DEF b
  <2> QED
    BY <2>1, <2>2
<1> QED
  BY <1>1, <1>2, <1>3 DEF Prepare

\* rim_pg_exec() and the others
LEMMA ExecDoes ==
  ASSUME NEW t \in Type, NEW c \in Connection, Clean(c), NEW q \in Stmt,
         NEW a \in Exec(t, c, q)
  PROVE  Does(q, c, a.ok, a.c, a.done)
<1>1. CASE ~c.link
  <2>1. a.c = c /\ a.ok = FALSE /\ a.done = {}
    BY <1>1 DEF Answer, Exec
  <2>2. Does(q, c, FALSE, c, {})
    BY <1>1 DEF Does, Clean
  <2> QED
    BY <2>1, <2>2
<1>2. CASE c.link
  <2>1. PICK p \in (IF q.prepared THEN Prepare(t, c) ELSE {Answer(c, TRUE, {})}) :
          a \in IF p.ok THEN Server(t, p.c, q) ELSE {p}
    BY <1>2 DEF Exec
  <2>2. CASE ~q.prepared
    <3>1. p.c = c /\ p.ok = TRUE
      BY <2>1, <2>2 DEF Answer
    <3> QED
      BY <1>2, <2>1, <3>1, ServerDoes
  <2>3. CASE q.prepared
    <3>1. p \in Prepare(t, c) /\ q.verb = "query"
      BY <2>1, <2>3 DEF Stmt
    <3>2. /\ p \in Answers /\ p.done = {} /\ Alike(c, p.c) /\ Clean(p.c)
          /\ p.c.pending = c.pending /\ (p.ok => p.c.txn = c.txn)
      BY <3>1, PrepareAlike, PrepareClean
    <3>3. p.c \in Connection /\ p.c.link /\ p.ok \in BOOLEAN
      BY <1>2, <3>2 DEF Answers, Alike
    <3>4. CASE p.ok
      <4>1. Does(q, p.c, a.ok, a.c, a.done)
        BY <2>1, <3>2, <3>3, <3>4, ServerDoes
      <4> QED
        BY <1>2, <3>1, <3>2, <3>3, <3>4, <4>1 DEF Does
    <3>5. CASE ~p.ok
      <4>1. a = p /\ a.ok = FALSE
        BY <2>1, <3>3, <3>5
      <4>2. Does(q, c, FALSE, p.c, {})
        BY <1>2, <3>1, <3>2, <3>3 DEF Does
      <4> QED
        BY <3>2, <4>1, <4>2
    <3> QED
      BY <3>4, <3>5
  <2> QED
    BY <2>2, <2>3
<1> QED
  BY <1>1, <1>2

-----------------------------------------------------------------------------
(* One statement on all connections: what becomes durable, and of which    *)
(* connection the handle is.                                               *)

\* Nothing changed but that a handle may be forgotten.
Keeping(c, b) ==
  /\ b.dbc = c.dbc /\ b.link = c.link /\ b.txn = c.txn /\ b.pending = c.pending
  /\ b.named = c.named /\ (b.prep => c.prep)

Rest(s, d, r) == \A e \in Db \ {d} : Keeping(s[e], r[e])

\* A connection on which nothing was done, or none.
Blank(b) == b.txn = "none" /\ b.pending = {} /\ ~b.prep

\* What a statement without a retry does on a new connection.
Anew(q, ok, b, done) ==
  /\ Clean(b) /\ (b.prep => b.dbc)
  /\ q.verb = "begin" => done = {} /\ b.pending = {} /\ (ok => b.txn = "open")
  /\ q.verb \in {"commit", "rollback"} => done = {}
  /\ q.verb = "query" => done \subseteq q.writes /\ (ok => done = q.writes)

\* What it does, retried or not. Where a commit was carried out and its answer
\* was lost, the retry has nothing to add.
Result(q, c, ok, b, done) ==
  /\ Clean(b) /\ (b.prep => b.dbc)
  /\ q.verb = "begin" /\ c.txn = "none" => done = {} /\ b.pending = {} /\ (ok => b.txn = "open")
  /\ q.verb = "rollback" => done = {}
  /\ q.verb = "commit" => /\ done \subseteq c.pending
                          /\ c.dbc /\ c.link /\ c.txn = "open" /\ ok => done = c.pending
  /\ q.verb = "query" /\ c.txn = "none" /\ ~c.isBegin =>
       done \subseteq q.writes /\ (ok => done = q.writes)
  /\ q.verb = "query" /\ c.isBegin /\ (c.link => c.txn # "none") =>
       /\ done = {}
       /\ IF ok THEN b.txn = "open" /\ b.pending = c.pending \cup q.writes
                ELSE b.pending \subseteq c.pending

\* Two steps that leave the others alone
LEMMA RestTransitive ==
  ASSUME NEW d \in Db, NEW s, NEW r, NEW u, Rest(s, d, r), Rest(r, d, u)
  PROVE  Rest(s, d, u)
BY DEF Rest, Keeping

\* A new connection has no handle: rim_db_prep(NULL) forgets it, and those of
\* the other databases of the type.
LEMMA ConnectBlank ==
  ASSUME Typed, NEW s \in Connections, NEW d \in Db, NEW g \in Connect(s, d)
  PROVE  Rest(s, d, g.db) /\ Blank(g.db[d]) /\ g.done = {} /\ (g.ret = "ok" => g.db[d].dbc)
<1> DEFINE f == ForgetPrepared(s, d)
<1>1. f \in Connections /\ f[d].prep = FALSE /\ \A e \in Db : Keeping(s[e], f[e])
  BY DEF ForgetPrepared, Connections, Connection, Keeping
<1> HIDE DEF f
<1>2. ASSUME NEW up \in BOOLEAN
      PROVE  /\ Connected(s, d, up) \in Connections
             /\ Rest(s, d, Connected(s, d, up))
             /\ Blank(Connected(s, d, up)[d]) /\ Connected(s, d, up)[d].dbc
  <2> DEFINE n == [New(up) EXCEPT !.prep = f[d].prep]
  <2>1. n \in Connection /\ Blank(n) /\ n.dbc
    BY <1>1 DEF New, Connections, Connection, Blank
  <2>2. Connected(s, d, up) = [f EXCEPT ![d] = n]
    BY DEF Connected, f
  <2> HIDE DEF n
  <2> QED
    BY <1>1, <2>1, <2>2 DEF Connections, Rest
<1>3. Rest(s, d, Refused(s, d)) /\ Blank(Refused(s, d)[d])
  <2> DEFINE r == Connected(s, d, FALSE)
  <2>1. r \in Connections /\ Rest(s, d, r) /\ Blank(r[d])
    BY <1>2
  <2>2. Refused(s, d) = [r EXCEPT ![d] = [r[d] EXCEPT !.dbc = FALSE]]
    BY DEF Refused
  <2> HIDE DEF r
  <2>3. [r[d] EXCEPT !.dbc = FALSE] \in Connection /\ Blank([r[d] EXCEPT !.dbc = FALSE])
    BY <2>1 DEF Connections, Connection, Blank
  <2> QED
    BY <2>1, <2>2, <2>3 DEF Connections, Rest
<1>4. CASE g = Outcome(Connected(s, d, TRUE), "ok", {})
  BY <1>2, <1>4 DEF Outcome
<1>5. CASE g = Outcome(Connected(s, d, FALSE), "report", {})
  BY <1>2, <1>5 DEF Outcome
<1>6. CASE g = Outcome(Refused(s, d), "report", {})
  BY <1>3, <1>6 DEF Outcome
<1> QED
  BY <1>4, <1>5, <1>6 DEF Connect

\* The connection there is, or a new one (rim_get_db_connection).
LEMMA GetConnectionBlank ==
  ASSUME Typed, NEW s \in Connections, NEW d \in Db, Ready(s[d]), NEW g \in GetConnection(s, d)
  PROVE  /\ Rest(s, d, g.db) /\ g.done = {}
         /\ \/ g.db = s /\ g.ret = "ok" /\ s[d].dbc
            \/ /\ ~s[d].dbc /\ ~s[d].isBegin
               /\ Blank(g.db[d]) /\ (g.ret = "ok" => g.db[d].dbc)
<1>1. s[d].isBegin \in BOOLEAN /\ s[d].dbc \in BOOLEAN
  BY DEF Connections, Connection
<1>2. CASE g \in Connect(s, d) /\ ~s[d].isBegin /\ ~s[d].dbc
  BY <1>2, ConnectBlank
<1>3. CASE g = Outcome(s, "ok", {}) /\ s[d].dbc
  BY <1>3 DEF Outcome, Rest, Keeping
<1> QED
  BY <1>1, <1>2, <1>3 DEF GetConnection, Ready

\* One execution
LEMMA AgainDoes ==
  ASSUME Typed, NEW s \in Connections, NEW d \in Db, Clean(s[d]), NEW q \in Stmt,
         NEW o \in Again(s, d, q)
  PROVE  Rest(s, d, o.db) /\ Does(q, s[d], o.ret = "ok", o.db[d], o.done)
<1>1. PICK a \in Exec(dbType[d], s[d], q), ret \in {"ok", "null", "report"} :
        /\ o = Outcome([s EXCEPT ![d] = a.c], ret, a.done)
        /\ ret \in IF a.ok THEN {"ok"} ELSE ErrorReturns(d)
  BY DEF Again, ErrorReturns
<1>2. Does(q, s[d], a.ok, a.c, a.done)
  BY ExecDoes DEF Typed, Connections
<1>3. (ret = "ok") <=> a.ok
  BY <1>1 DEF ErrorReturns
<1>4. Does(q, s[d], ret = "ok", a.c, a.done)
  BY <1>2, <1>3 DEF Does
<1>5. Rest(s, d, [s EXCEPT ![d] = a.c]) /\ [s EXCEPT ![d] = a.c][d] = a.c
  BY DEF Connections, Rest, Keeping
<1>6. o.db = [s EXCEPT ![d] = a.c] /\ o.ret = ret /\ o.done = a.done
  BY <1>1 DEF Outcome
<1> QED
  BY <1>4, <1>5, <1>6

\* On a new connection, or without one
LEMMA FreshAnew ==
  ASSUME Typed, NEW s \in Connections, NEW d \in Db, NEW q \in Stmt,
         Ready(s[d]), ~s[d].dbc, NEW g \in GetConnection(s, d),
         NEW o \in IF g.ret = "ok" THEN Again(g.db, d, q) ELSE {g}
  PROVE  Rest(s, d, o.db) /\ Anew(q, o.ret = "ok", o.db[d], o.done)
<1>1. /\ Rest(s, d, g.db) /\ g.done = {} /\ Blank(g.db[d]) /\ (g.ret = "ok" => g.db[d].dbc)
  BY GetConnectionBlank
<1>2. g.db \in Connections /\ g.db[d] \in Connection /\ Clean(g.db[d]) /\ Ready(g.db[d])
      /\ g.db[d].link \in BOOLEAN
  <2>1. g \in Outcomes
    BY GetConnectionStep
  <2>2. Untouched(g.db[d])
    BY GetConnectionStep
  <2> QED
    BY <1>1, <2>1, <2>2 DEF Outcomes, Connections, Connection, Clean, Blank, Ready, Untouched
<1>3. CASE g.ret = "ok"
  <2>1. /\ Rest(g.db, d, o.db) /\ Does(q, g.db[d], o.ret = "ok", o.db[d], o.done)
        /\ o.db[d].dbc = g.db[d].dbc
    BY <1>2, <1>3, AgainDoes, AgainMoves DEF Moves
  <2>2. Anew(q, o.ret = "ok", o.db[d], o.done)
    BY <1>1, <1>3, <2>1 DEF Anew, Does, Blank
  <2> QED
    BY <1>1, <2>1, <2>2, RestTransitive
<1>4. CASE g.ret # "ok"
  <2>1. o = g
    BY <1>4
  <2>2. Anew(q, o.ret = "ok", o.db[d], o.done)
    BY <1>1, <1>2, <1>4, <2>1 DEF Anew, Blank
  <2> QED
    BY <1>1, <2>1, <2>2
<1> QED
  BY <1>3, <1>4

\* One execution, where it is not retried
LEMMA DoesResult ==
  ASSUME NEW q \in Stmt, NEW c \in Connection, NEW b, NEW ok \in BOOLEAN, NEW done,
         Does(q, c, ok, b, done), c.dbc, b.dbc = c.dbc
  PROVE  Result(q, c, ok, b, done)
<1>1. CASE c.link
  BY <1>1 DEF Does, Result, Connection
<1>2. CASE ~c.link
  BY <1>2 DEF Does, Result, Connection
<1> QED
  BY <1>1, <1>2

\* And where it is: the answer "a" was no success, and the connection is lost.
LEMMA RetryResult ==
  ASSUME NEW q \in Stmt, NEW c \in Connection, ~c.isBegin, NEW b, NEW done, ~b.link,
         Does(q, c, FALSE, b, done),
         NEW ok \in BOOLEAN, NEW bb, NEW more, Anew(q, ok, bb, more)
  PROVE  Result(q, c, ok, bb, more \cup done)
<1>1. CASE q.verb = "begin"
  BY <1>1 DEF Does, Result, Anew
<1>2. CASE q.verb = "rollback"
  BY <1>2 DEF Does, Result, Anew
<1>3. CASE q.verb = "commit"
  BY <1>3 DEF Does, Result, Anew
<1>4. CASE q.verb = "query"
  BY <1>4 DEF Does, Result, Anew
<1> QED
  BY <1>1, <1>2, <1>3, <1>4 DEF Stmt

\* The retry is for a connection that was lost without a transaction.
LEMMA OnceResult ==
  ASSUME Typed, NEW s \in Connections, NEW d \in Db, Ready(s[d]), s[d].dbc, Clean(s[d]),
         NEW q \in Stmt, NEW o \in Once(s, d, q)
  PROVE  Rest(s, d, o.db) /\ Result(q, s[d], o.ret = "ok", o.db[d], o.done)
<1>1. PICK a \in Again(s, d, q) :
        \/ o = a
        \/ /\ a.ret # "ok" /\ ~a.db[d].isBegin /\ ~a.db[d].link
           /\ \E r \in Reconnected(a.db, d, q) : o = [r EXCEPT !.done = @ \cup a.done]
  BY DEF Once, MayRetry, Lost
<1>2. /\ a \in Outcomes /\ Rest(s, d, a.db) /\ Does(q, s[d], a.ret = "ok", a.db[d], a.done)
      /\ a.db[d].dbc = s[d].dbc /\ a.db[d].isBegin = s[d].isBegin
  <2>1. Rest(s, d, a.db) /\ Does(q, s[d], a.ret = "ok", a.db[d], a.done)
    BY AgainDoes
  <2>2. a \in Outcomes /\ Moves(q, s[d], a.ret = "ok", a.db[d])
    BY AgainMoves
  <2> QED
    BY <2>1, <2>2 DEF Moves
<1>3. s[d] \in Connection /\ a.db \in Connections
  BY <1>2 DEF Connections, Outcomes
<1>4. CASE o = a
  <2>1. Result(q, s[d], a.ret = "ok", a.db[d], a.done)
    BY <1>2, <1>3, DoesResult, (a.ret = "ok") \in BOOLEAN
  <2> QED
    BY <1>2, <1>4, <2>1
<1>5. ASSUME a.ret # "ok", ~a.db[d].isBegin, ~a.db[d].link,
             NEW r \in Reconnected(a.db, d, q), o = [r EXCEPT !.done = @ \cup a.done]
      PROVE  Rest(s, d, o.db) /\ Result(q, s[d], o.ret = "ok", o.db[d], o.done)
  <2> DEFINE u == EndConnection(a.db, d)
             n == [NoConnection EXCEPT !.prep = a.db[d].prep]
  <2>1. u \in Connections /\ Ready(u[d]) /\ Untouched(u[d]) /\ ~u[d].link
    BY <1>3, EndConnectionStep
  <2>2. ~n.dbc
    BY DEF NoConnection, New
  <2>3. u = [a.db EXCEPT ![d] = n]
    BY DEF EndConnection
  <2> HIDE DEF n
  <2>4. ~u[d].dbc /\ Rest(a.db, d, u)
    BY <1>3, <2>2, <2>3 DEF Connections, Rest, Keeping
  <2> HIDE DEF u
  <2>5. PICK g \in GetConnection(u, d) : r \in IF g.ret = "ok" THEN Again(g.db, d, q) ELSE {g}
    BY <1>5 DEF Reconnected, u
  <2>6. /\ Rest(u, d, r.db) /\ Anew(q, r.ret = "ok", r.db[d], r.done)
    BY <2>1, <2>4, <2>5, FreshAnew
  <2>7. r \in Outcomes
    BY <1>3, <2>1, <2>5, FreshEnds, <1>5, <1>2
  <2>8. o.db = r.db /\ o.ret = r.ret /\ o.done = r.done \cup a.done
    BY <1>5, <2>7 DEF Outcomes
  <2>9. Does(q, s[d], FALSE, a.db[d], a.done)
    BY <1>2, <1>5
  <2>10. Result(q, s[d], r.ret = "ok", r.db[d], r.done \cup a.done)
    BY <1>2, <1>3, <1>5, <2>6, <2>9, RetryResult, (r.ret = "ok") \in BOOLEAN
  <2>11. Rest(s, d, r.db)
    BY <1>2, <2>4, <2>6, RestTransitive
  <2> QED
    BY <2>8, <2>10, <2>11
<1> QED
  BY <1>1, <1>4, <1>5

\* rim_execute_SQL()
LEMMA ExecuteResult ==
  ASSUME Typed, NEW s \in Connections, NEW d \in Db, Ready(s[d]), Clean(s[d]),
         NEW q \in Stmt, NEW o \in ExecuteSQL(s, d, q)
  PROVE  Rest(s, d, o.db) /\ Result(q, s[d], o.ret = "ok", o.db[d], o.done)
<1>1. PICK g \in GetConnection(s, d) : o \in IF g.ret = "ok" THEN Once(g.db, d, q) ELSE {g}
  BY DEF ExecuteSQL
<1>2. /\ Rest(s, d, g.db) /\ g.done = {}
      /\ \/ g.db = s /\ g.ret = "ok" /\ s[d].dbc
         \/ /\ ~s[d].dbc /\ ~s[d].isBegin
            /\ Blank(g.db[d]) /\ (g.ret = "ok" => g.db[d].dbc)
  BY GetConnectionBlank
<1>3. CASE g.db = s /\ g.ret = "ok" /\ s[d].dbc
  <2>1. o \in Once(s, d, q)
    BY <1>1, <1>3
  <2> QED
    BY <1>3, <2>1, OnceResult
<1>4. CASE ~s[d].dbc /\ ~s[d].isBegin /\ Blank(g.db[d]) /\ (g.ret = "ok" => g.db[d].dbc)
  <2>1. /\ g \in Outcomes /\ ((g.db = s /\ g.ret = "ok") \/ Untouched(g.db[d]))
        /\ (g.ret = "ok" => g.db[d].dbc)
    BY GetConnectionStep
  <2>2. Untouched(g.db[d])
    BY <1>4, <2>1
  <2>3. /\ g.db \in Connections /\ g.db[d] \in Connection
        /\ Clean(g.db[d]) /\ Ready(g.db[d]) /\ ~g.db[d].isBegin
    BY <1>4, <2>1, <2>2 DEF Outcomes, Connections, Connection, Clean, Blank, Ready, Untouched
  <2>4. CASE g.ret = "ok"
    <3>1. Rest(g.db, d, o.db) /\ Result(q, g.db[d], o.ret = "ok", o.db[d], o.done)
      BY <1>1, <1>4, <2>3, <2>4, OnceResult
    <3>2. Result(q, s[d], o.ret = "ok", o.db[d], o.done)
      BY <1>4, <2>3, <3>1 DEF Result, Blank
    <3> QED
      BY <1>2, <3>1, <3>2, RestTransitive
  <2>5. CASE g.ret # "ok"
    <3>1. o = g
      BY <1>1, <2>5
    <3>2. Result(q, s[d], FALSE, g.db[d], {})
      BY <1>4, <2>3 DEF Result, Blank
    <3> QED
      BY <1>2, <2>5, <3>1, <3>2
  <2> QED
    BY <2>4, <2>5
<1> QED
  BY <1>2, <1>3, <1>4

-----------------------------------------------------------------------------
(* The handles of prepared statements.                                     *)

Handles(c) == Clean(c) /\ (c.prep => c.dbc)
AllHandles == \A d \in Db : Handles(db[d])

\* A statement begins with the flag as it is, or with the flag cleared
\* (rim_commit, rim_rollback).
Before(d, q) == IF q.verb \in {"commit", "rollback"} THEN SetBegin(db, d, FALSE) ELSE db

\* What a statement leaves in any state of the program.
LEMMA StatementResult ==
  ASSUME IInv, AllHandles, pc # "exit", NEW d \in Db, NEW q \in Stmt,
         NEW o \in ExecuteSQL(Before(d, q), d, q)
  PROVE  LET c == Before(d, q)[d]
         IN /\ c \in Connection /\ Ready(c)
            /\ c.dbc = db[d].dbc /\ c.link = db[d].link /\ c.txn = db[d].txn
            /\ c.pending = db[d].pending
            /\ c.isBegin = (IF q.verb \in {"commit", "rollback"} THEN FALSE ELSE db[d].isBegin)
            /\ o \in Outcomes /\ Ends(q, c, o.ret = "ok", o.db[d])
            /\ Result(q, c, o.ret = "ok", o.db[d], o.done)
            /\ \A e \in Db \ {d} : Keeping(db[e], o.db[e])
            /\ \A e \in Db : Handles(o.db[e])
<1> DEFINE s == Before(d, q)
           c == s[d]
<1>1. Typed /\ db \in Connections /\ db[d] \in Connection /\ Ready(db[d]) /\ Handles(db[d])
  BY DEF IInv, TypeOK, Typed, Connections, Sound, AllHandles
<1>2. /\ s \in Connections /\ \A e \in Db \ {d} : s[e] = db[e]
      /\ c \in Connection /\ Ready(c) /\ Handles(c)
      /\ c.dbc = db[d].dbc /\ c.link = db[d].link /\ c.txn = db[d].txn
      /\ c.pending = db[d].pending
      /\ c.isBegin = (IF q.verb \in {"commit", "rollback"} THEN FALSE ELSE db[d].isBegin)
  <2>1. CASE q.verb \in {"commit", "rollback"}
    <3> DEFINE b == [db[d] EXCEPT !.isBegin = FALSE]
    <3>1. /\ b \in Connection /\ Ready(b) /\ Handles(b)
          /\ b.dbc = db[d].dbc /\ b.link = db[d].link /\ b.txn = db[d].txn
          /\ b.pending = db[d].pending /\ b.isBegin = FALSE
      BY <1>1 DEF Connection, Ready, Handles, Clean
    <3>2. s = [db EXCEPT ![d] = b]
      BY <2>1 DEF Before, SetBegin
    <3> HIDE DEF b, s
    <3> QED
      BY <1>1, <2>1, <3>1, <3>2 DEF Connections
  <2>2. CASE q.verb \notin {"commit", "rollback"}
    BY <1>1, <2>2 DEF Before
  <2> QED
    BY <2>1, <2>2
<1>3. o \in ExecuteSQL(s, d, q)
  OBVIOUS
<1> HIDE DEF s
<1>4. o \in Outcomes /\ Ends(q, c, o.ret = "ok", o.db[d])
  BY <1>1, <1>2, <1>3, ExecuteEnds
<1>5. Rest(s, d, o.db) /\ Result(q, c, o.ret = "ok", o.db[d], o.done)
  BY <1>1, <1>2, <1>3, ExecuteResult DEF Handles
<1>6. \A e \in Db \ {d} : Keeping(db[e], o.db[e])
  BY <1>2, <1>5 DEF Rest
<1>7. \A e \in Db : Handles(o.db[e])
  <2>1. ASSUME NEW e \in Db \ {d} PROVE Handles(o.db[e])
    BY <1>6 DEF Keeping, Handles, Clean, AllHandles
  <2>2. Handles(o.db[d])
    BY <1>5 DEF Result, Handles
  <2> QED
    BY <2>1, <2>2
<1> QED
  BY <1>2, <1>4, <1>5, <1>6, <1>7 DEF s

\* A process that begins, or is gone, has no handles.
LEMMA GoneHandles == \A d \in Db : Handles(Gone[d]) /\ Gone[d].pending = {}
BY DEF Gone, NoConnection, New, Handles, Clean

\* begin-transaction sets or clears the flag, and nothing else of what the
\* statement left.
LEMMA BegunParts ==
  ASSUME NEW d \in Db, NEW o \in Outcomes
  PROVE  LET b == Begun(o, d)
         IN /\ b[d].dbc = o.db[d].dbc /\ b[d].link = o.db[d].link /\ b[d].txn = o.db[d].txn
            /\ b[d].pending = o.db[d].pending /\ b[d].prep = o.db[d].prep
            /\ b[d].named = o.db[d].named
            /\ \A e \in Db \ {d} : b[e] = o.db[e]
<1>1. o.db \in Connections /\ o.db[d] \in Connection /\ o.ret \in {"ok", "null", "report"}
  BY DEF Outcomes, Connections
<1>2. ASSUME NEW is \in BOOLEAN
      PROVE  LET b == SetBegin(o.db, d, is)
             IN /\ b[d].dbc = o.db[d].dbc /\ b[d].link = o.db[d].link /\ b[d].txn = o.db[d].txn
                /\ b[d].pending = o.db[d].pending /\ b[d].prep = o.db[d].prep
                /\ b[d].named = o.db[d].named
                /\ \A e \in Db \ {d} : b[e] = o.db[e]
  <2> DEFINE n == [o.db[d] EXCEPT !.isBegin = is]
  <2>1. /\ n.dbc = o.db[d].dbc /\ n.link = o.db[d].link /\ n.txn = o.db[d].txn
        /\ n.pending = o.db[d].pending /\ n.prep = o.db[d].prep /\ n.named = o.db[d].named
    BY <1>1 DEF Connection
  <2>2. SetBegin(o.db, d, is) = [o.db EXCEPT ![d] = n]
    BY DEF SetBegin
  <2> HIDE DEF n
  <2> QED
    BY <1>1, <2>1, <2>2 DEF Connections
<1>3. CASE o.ret = "ok"
  BY <1>2, <1>3 DEF Begun
<1>4. CASE o.ret = "null"
  BY <1>2, <1>4 DEF Begun
<1>5. CASE o.ret = "report"
  BY <1>5 DEF Begun
<1> QED
  BY <1>1, <1>3, <1>4, <1>5

\* The four actions that execute a statement
LEMMA Executes ==
  ASSUME NEW d \in Db,
         \/ \E p \in BOOLEAN, w \in Writes : RunQuery(d, w, p)
         \/ BeginTransaction(d) \/ Commit(d) \/ Rollback(d) \/ RollbackLeft(d)
  PROVE  /\ pc # "exit"
         /\ \E q \in Stmt : \E o \in ExecuteSQL(Before(d, q), d, q) :
              \/ db' = o.db \/ db' = Begun(o, d) \/ db' = Gone
<1>1. ASSUME NEW p \in BOOLEAN, NEW w \in Writes, RunQuery(d, w, p)
      PROVE  /\ pc # "exit"
             /\ \E q \in Stmt : \E o \in ExecuteSQL(Before(d, q), d, q) : db' = o.db
  <2> DEFINE q == [verb |-> "query", writes |-> w, prepared |-> p]
  <2>1. w \in SUBSET Write
    BY DEF Writes, Fresh
  <2>2. q \in Stmt /\ Before(d, q) = db
    BY <2>1, VerbStmt DEF Before
  <2> QED
    BY <1>1, <2>2 DEF RunQuery
<1>2. CASE BeginTransaction(d)
  <2>1. Verb("begin") \in Stmt /\ Before(d, Verb("begin")) = db
    BY VerbStmt DEF Before, Verb
  <2> QED
    BY <1>2, <2>1 DEF BeginTransaction
<1>3. ASSUME NEW v \in {"commit", "rollback"}
      PROVE  Verb(v) \in Stmt /\ Before(d, Verb(v)) = SetBegin(db, d, FALSE)
  BY VerbStmt DEF Before, Verb
<1>4. CASE Commit(d)
  BY <1>3, <1>4 DEF Commit
<1>5. CASE Rollback(d)
  BY <1>3, <1>5 DEF Rollback, RollbackOf
<1>6. CASE RollbackLeft(d)
  BY <1>3, <1>6 DEF RollbackLeft, RollbackOf
<1> QED
  BY <1>1, <1>2, <1>4, <1>5, <1>6

\* Every step leaves handles of the connections in use alone.
LEMMA HandlesKept == IInv /\ AllHandles /\ [Next]_vars => AllHandles'
<1> SUFFICES ASSUME IInv, AllHandles, [Next]_vars PROVE AllHandles'
  OBVIOUS
<1>1. ASSUME NEW d \in Db,
             \/ \E p \in BOOLEAN, w \in Writes : RunQuery(d, w, p)
             \/ BeginTransaction(d) \/ Commit(d) \/ Rollback(d) \/ RollbackLeft(d)
      PROVE  AllHandles'
  <2>1. pc # "exit"
    BY <1>1, Executes
  <2>2. PICK q \in Stmt : \E o \in ExecuteSQL(Before(d, q), d, q) :
          db' = o.db \/ db' = Begun(o, d) \/ db' = Gone
    BY <1>1, Executes
  <2>3. PICK o \in ExecuteSQL(Before(d, q), d, q) :
          db' = o.db \/ db' = Begun(o, d) \/ db' = Gone
    BY <2>2
  <2>4. o \in Outcomes /\ \A e \in Db : Handles(o.db[e])
    BY <2>1, <2>3, StatementResult
  <2>5. CASE db' = Begun(o, d)
    <3>1. Handles(db'[d]) /\ \A e \in Db \ {d} : db'[e] = o.db[e]
      BY <2>4, <2>5, BegunParts DEF Handles, Clean
    <3> QED
      BY <2>4, <3>1 DEF AllHandles
  <2> QED
    BY <2>3, <2>4, <2>5, GoneHandles DEF AllHandles
<1>2. ASSUME NEW d \in Db, Break(d)
      PROVE  AllHandles'
  <2>1. db \in Connections /\ db[d] \in Connection
    BY DEF IInv, TypeOK, Connections
  <2>2. Handles(Broken(db[d])) /\ db' = [db EXCEPT ![d] = Broken(db[d])]
    BY <1>2, <2>1 DEF Break, Broken, Handles, Clean, Connection, AllHandles
  <2> QED
    BY <2>1, <2>2 DEF AllHandles, Connections
<1>3. CASE db' = Gone
  BY <1>3, GoneHandles DEF AllHandles
<1>4. CASE UNCHANGED db
  BY <1>4 DEF AllHandles
<1>5. CASE \/ \E d \in Db : DbError(d)
           \/ Accept \/ LeaveProgram \/ Checked \/ ErrorRequest \/ Respawn
  BY <1>4, <1>5 DEF DbError, Accept, LeaveProgram, Checked, ErrorRequest, Jumps, Respawn
<1>6. CASE Finish \/ Kill
  BY <1>3, <1>4, <1>6 DEF Finish, Kill
<1>7. CASE UNCHANGED vars
  BY <1>4, <1>7 DEF vars
<1> QED
  BY <1>1, <1>2, <1>5, <1>6, <1>7 DEF Next, Statement, EndOfRequest

-----------------------------------------------------------------------------
(* What the program was told. While a transaction is quiet, what the       *)
(* program wrote in it is pending on the connection that began it; what it *)
(* wrote in any transaction is neither durable nor told of before its end. *)

Quiet(c, writes) ==
  c.dbc /\ c.link /\ c.txn = "open" /\ writes \subseteq c.pending

Pending ==
  \A d \in Db : /\ db[d].pending \subseteq acked[d]
                /\ pc # "exit" /\ course[d] = "quiet" => Quiet(db[d], acked[d])

Told ==
  /\ \A d \in Db : course[d] = "none" => acked[d] = {}
  /\ \A d \in Db : \A w \in acked[d] : w \notin durable /\ said[w] = "nothing"
  /\ \A d \in Db : \A e \in Db \ {d} : acked[d] \cap acked[e] = {}
  /\ DoneIsDurable /\ UndoneIsGone

\* A transaction ends: what was written in it and not told of is told of now.
LEMMA OverTold ==
  ASSUME TypeOK, Told, NEW d \in Db, Over(d),
         NEW done, done \subseteq acked[d], durable' = durable \cup done,
         NEW S, S \subseteq acked[d], NEW what, Say(S, what),
         what = "undone" => done = {},
         what \in {"written", "done"} => S \subseteq done
  PROVE  Told'
<1>1. /\ acked \in [Db -> SUBSET Write] /\ course \in [Db -> Course]
      /\ \A e \in Db : acked'[e] = (IF e = d THEN {} ELSE acked[e])
      /\ \A e \in Db : course'[e] = (IF e = d THEN "none" ELSE course[e])
  BY DEF TypeOK, Over
<1>2. S \subseteq Write /\ \A w \in Write : said'[w] = IF w \in S THEN what ELSE said[w]
  BY <1>1 DEF Say
<1>3. \A e \in Db : course'[e] = "none" => acked'[e] = {}
  BY <1>1 DEF Told
<1>4. ASSUME NEW e \in Db, NEW w \in acked'[e] PROVE w \notin durable' /\ said'[w] = "nothing"
  <2>1. e # d /\ w \in acked[e] /\ w \in Write /\ w \notin acked[d]
    BY <1>1, <1>4 DEF Told
  <2> QED
    BY <1>2, <2>1 DEF Told
<1>5. \A e \in Db : \A f \in Db \ {e} : acked'[e] \cap acked'[f] = {}
  BY <1>1 DEF Told
<1>6. ASSUME NEW w \in Write, said'[w] \in {"written", "done"} PROVE w \in durable'
  BY <1>2, <1>6 DEF Told, DoneIsDurable
<1>7. ASSUME NEW w \in Write, said'[w] = "undone" PROVE w \notin durable'
  <2>1. CASE w \in S
    BY <1>2, <1>7, <2>1 DEF Told
  <2>2. CASE w \notin S
    BY <1>2, <1>7, <2>2 DEF Told, UndoneIsGone
  <2> QED
    BY <2>1, <2>2
<1> QED
  BY <1>3, <1>4, <1>5, <1>6, <1>7 DEF Told, DoneIsDurable, UndoneIsGone

\* A transaction ends, and none is left on its connection.
LEMMA OverPending ==
  ASSUME TypeOK, Pending, NEW d \in Db, Over(d), pc # "exit",
         \/ pc' = "exit" /\ db' = Gone
         \/ /\ db'[d].pending = {}
            /\ \A e \in Db \ {d} : Keeping(db[e], db'[e])
  PROVE  Pending'
<1>1. /\ \A e \in Db : acked'[e] = (IF e = d THEN {} ELSE acked[e])
      /\ \A e \in Db : course'[e] = (IF e = d THEN "none" ELSE course[e])
  BY DEF TypeOK, Over
<1>2. CASE pc' = "exit" /\ db' = Gone
  BY <1>2, GoneHandles DEF Pending
<1>3. CASE db'[d].pending = {} /\ \A e \in Db \ {d} : Keeping(db[e], db'[e])
  BY <1>1, <1>3 DEF Pending, Keeping, Quiet
<1> QED
  BY <1>2, <1>3

\* In transactions that end the statement is a success, or the transaction is
\* gone all the same.
LEMMA EndResult ==
  ASSUME Nests = FALSE, BusyCommits = FALSE, IInv, AllHandles, pc # "exit", NEW d \in Db,
         NEW v \in {"commit", "rollback"},
         NEW o \in ExecuteSQL(SetBegin(db, d, FALSE), d, Verb(v))
  PROVE  /\ o.db[d].pending = {} /\ \A e \in Db \ {d} : Keeping(db[e], o.db[e])
         /\ v = "rollback" => o.done = {}
         /\ v = "commit" =>
              /\ o.done \subseteq db[d].pending
              /\ db[d].dbc /\ db[d].link /\ db[d].txn = "open" /\ o.ret = "ok" =>
                   o.done = db[d].pending
<1>1. Verb(v) \in Stmt /\ Verb(v).verb = v
  BY VerbStmt
<1>2. o \in ExecuteSQL(Before(d, Verb(v)), d, Verb(v))
  BY <1>1 DEF Before
<1> DEFINE c == Before(d, Verb(v))[d]
<1>3. /\ c.dbc = db[d].dbc /\ c.link = db[d].link /\ c.txn = db[d].txn
      /\ c.pending = db[d].pending
      /\ Ends(Verb(v), c, o.ret = "ok", o.db[d])
      /\ Result(Verb(v), c, o.ret = "ok", o.db[d], o.done)
      /\ \A e \in Db \ {d} : Keeping(db[e], o.db[e])
  BY <1>1, <1>2, StatementResult
<1> HIDE DEF c
<1>4. o.db[d].txn = "none"
  BY <1>1, <1>3 DEF Ends
<1> QED
  BY <1>1, <1>3, <1>4 DEF Result, Clean

\* commit-transaction
LEMMA CommitTold ==
  ASSUME Nests = FALSE, BusyCommits = FALSE, IInv, AllHandles, Pending, Told,
         NEW d \in Db, Commit(d)
  PROVE  Pending' /\ Told'
<1> DEFINE what == CASE course[d] = "quiet"  -> "done"
                     [] course[d] = "broken" -> "committed"
                     [] OTHER -> "maybe"
<1>0. /\ course[d] = "quiet" => what = "done"
      /\ course[d] = "broken" => what = "committed"
      /\ course[d] \notin {"quiet", "broken"} => what = "maybe"
  OBVIOUS
<1>1. PICK o \in ExecuteSQL(SetBegin(db, d, FALSE), d, Verb("commit")) :
        Returns(o) /\ db' = o.db /\ Say(IF o.ret = "ok" THEN acked[d] ELSE {}, what)
  BY ZenonT(30) DEF Commit
<1> HIDE DEF what
<1>2. Over(d) /\ pc = "run" /\ TypeOK
  BY DEF Commit, IInv
<1>3. /\ o.db[d].pending = {} /\ \A e \in Db \ {d} : Keeping(db[e], o.db[e])
      /\ o.done \subseteq db[d].pending
      /\ db[d].dbc /\ db[d].link /\ db[d].txn = "open" /\ o.ret = "ok" => o.done = db[d].pending
  BY <1>2, EndResult
<1>4. Pending'
  BY <1>1, <1>2, <1>3, OverPending
<1> DEFINE S == IF o.ret = "ok" THEN acked[d] ELSE {}
<1>5. S \subseteq acked[d] /\ o.done \subseteq acked[d] /\ durable' = durable \cup o.done
  <2>1. db[d].pending \subseteq acked[d]
    BY DEF Pending
  <2>2. durable' = durable \cup o.done
    BY <1>1 DEF Returns
  <2> QED
    BY <1>3, <2>1, <2>2
<1>6. CASE course[d] = "quiet"
  <2>1. Say(S, "done")
    BY <1>0, <1>1, <1>6
  <2>2. Quiet(db[d], acked[d])
    BY <1>2, <1>6 DEF Pending
  <2>3. S \subseteq o.done
    BY <1>3, <2>2 DEF Quiet
  <2> QED
    BY <1>2, <1>4, <1>5, <2>1, <2>3, OverTold
<1>7. CASE course[d] = "broken"
  <2>1. Say(S, "committed")
    BY <1>0, <1>1, <1>7
  <2> HIDE DEF S
  <2> QED
    BY <1>2, <1>4, <1>5, <2>1, OverTold
<1>8. CASE course[d] \notin {"quiet", "broken"}
  <2>1. Say(S, "maybe")
    BY <1>0, <1>1, <1>8
  <2> HIDE DEF S
  <2> QED
    BY <1>2, <1>4, <1>5, <2>1, OverTold
<1> QED
  BY <1>6, <1>7, <1>8

\* rollback-transaction, and the end of a request
LEMMA RollbackTold ==
  ASSUME Nests = FALSE, BusyCommits = FALSE, IInv, AllHandles, Pending, Told,
         NEW d \in Db, Rollback(d) \/ RollbackLeft(d)
  PROVE  Pending' /\ Told'
<1>1. PICK o \in ExecuteSQL(SetBegin(db, d, FALSE), d, Verb("rollback")) :
        /\ durable' = durable \cup o.done
        /\ db' = o.db \/ (db' = Gone /\ pc' = "exit")
        /\ Say(acked[d], "undone") \/ Say({}, "undone")
  BY DEF Rollback, RollbackLeft, RollbackOf, Returns
<1>2. Over(d) /\ pc # "exit" /\ TypeOK
  BY DEF Rollback, RollbackLeft, IInv
<1>3. /\ o.db[d].pending = {} /\ \A e \in Db \ {d} : Keeping(db[e], o.db[e])
      /\ o.done = {}
  BY <1>2, EndResult
<1>4. Pending'
  BY <1>1, <1>2, <1>3, OverPending
<1>5. PICK S \in SUBSET acked[d] : Say(S, "undone")
  BY <1>1
<1> QED
  BY <1>1, <1>2, <1>3, <1>4, <1>5, OverTold

\* run-query: outside transactions its success is told of and durable; in one
\* it adds to what is pending, or the transaction is quiet no more.
LEMMA QueryTold ==
  ASSUME Nests = FALSE, BusyCommits = FALSE, IInv, AllHandles, Pending, Told,
         NEW d \in Db, NEW w \in Writes, NEW p \in BOOLEAN, RunQuery(d, w, p)
  PROVE  Pending' /\ Told'
<1> DEFINE q == [verb |-> "query", writes |-> w, prepared |-> p]
<1>1. PICK o \in ExecuteSQL(db, d, q) :
        /\ Returns(o) /\ db' = o.db
        /\ acked' = [acked EXCEPT ![d] = IF o.ret = "ok" /\ course[d] # "none" THEN @ \cup w ELSE @]
        /\ course' = [course EXCEPT ![d] = IF course[d] # "none" /\ o.ret # "ok" THEN "failed" ELSE @]
        /\ Say(IF o.ret = "ok" /\ course[d] = "none" THEN w ELSE {}, "written")
  BY DEF RunQuery
<1>2. w \in SUBSET Write /\ w \subseteq Fresh
  BY DEF Writes, Fresh
<1>3. /\ w \cap durable = {}
      /\ \A x \in w : x \in Write /\ said[x] = "nothing"
      /\ \A e \in Db : w \cap acked[e] = {}
  BY <1>2 DEF Fresh
<1>4. q \in Stmt /\ q.verb = "query" /\ q.writes = w
  BY <1>2, VerbStmt
<1>5. Before(d, q) = db
  BY <1>4 DEF Before
<1> HIDE DEF q
<1>6. /\ acked \in [Db -> SUBSET Write] /\ course \in [Db -> Course] /\ db[d] \in Connection
      /\ pc = "run" /\ Sound(db[d], course[d]) /\ durable' = durable \cup o.done
  BY <1>1 DEF IInv, TypeOK, RunQuery, Returns
<1>7. /\ Ends(q, db[d], o.ret = "ok", o.db[d]) /\ Result(q, db[d], o.ret = "ok", o.db[d], o.done)
      /\ \A e \in Db \ {d} : Keeping(db[e], o.db[e])
  BY <1>4, <1>5, <1>6, StatementResult
<1>8. CASE course[d] = "none"
  <2>1. db[d].txn = "none" /\ ~db[d].isBegin
    BY <1>6, <1>8 DEF Sound
  <2>2. o.done \subseteq w /\ (o.ret = "ok" => o.done = w) /\ o.db[d].pending = {}
    BY <1>4, <1>7, <2>1 DEF Ends, Result, Clean
  <2>3. acked' = acked /\ course' = course
    BY <1>1, <1>6, <1>8
  <2>4. PICK S \in SUBSET o.done : Say(S, "written")
    BY <1>1, <1>8, <2>2
  <2>5. \A x \in Write : said'[x] = IF x \in S THEN "written" ELSE said[x]
    BY <2>4 DEF Say
  <2>6. Pending'
    BY <1>1, <1>6, <1>7, <1>8, <2>2, <2>3 DEF Pending, Keeping, Quiet
  <2>7. \A e \in Db : \A x \in acked'[e] : x \notin durable' /\ said'[x] = "nothing"
    BY <1>3, <1>6, <2>2, <2>3, <2>5 DEF Told
  <2>8. ASSUME NEW x \in Write, said'[x] \in {"written", "done"} PROVE x \in durable'
    BY <1>6, <2>5, <2>8 DEF Told, DoneIsDurable
  <2>9. ASSUME NEW x \in Write, said'[x] = "undone" PROVE x \notin durable'
    <3>1. said[x] = "undone"
      BY <2>5, <2>9
    <3> QED
      BY <1>3, <1>6, <2>2, <3>1 DEF Told, UndoneIsGone
  <2> QED
    BY <2>3, <2>6, <2>7, <2>8, <2>9 DEF Told, DoneIsDurable, UndoneIsGone
<1>9. CASE course[d] # "none"
  <2>1. db[d].isBegin /\ (db[d].link => db[d].txn # "none")
    BY <1>6, <1>9 DEF Sound
  <2>2. /\ o.done = {} /\ Clean(o.db[d]) /\ o.db[d].dbc
        /\ IF o.ret = "ok" THEN o.db[d].txn = "open" /\ o.db[d].pending = db[d].pending \cup w
                           ELSE o.db[d].pending \subseteq db[d].pending
    BY <1>4, <1>7, <2>1 DEF Result, Ends, Ready
  <2>3. durable' = durable
    BY <1>6, <2>2
  <2>4. \A x \in Write : said'[x] = said[x]
    <3>1. Say({}, "written")
      BY <1>1, <1>9
    <3> QED
      BY <3>1 DEF Say
  <2>5. /\ \A e \in Db : acked'[e] = IF e = d /\ o.ret = "ok" THEN acked[d] \cup w ELSE acked[e]
        /\ \A e \in Db : course'[e] = IF e = d /\ o.ret # "ok" THEN "failed" ELSE course[e]
    BY <1>1, <1>6, <1>9
  <2>6. Pending'
    <3>1. ASSUME NEW e \in Db \ {d}
          PROVE  /\ o.db[e].pending \subseteq acked'[e]
                 /\ course'[e] = "quiet" => Quiet(o.db[e], acked'[e])
      BY <1>6, <1>7, <2>5, <3>1 DEF Pending, Keeping, Quiet
    <3>2. db[d].pending \subseteq acked[d] /\ (course[d] = "quiet" => acked[d] \subseteq db[d].pending)
      BY <1>6 DEF Pending, Quiet
    <3>3. CASE o.ret = "ok"
      <4>1. o.db[d].pending \subseteq acked'[d]
        BY <2>2, <2>5, <3>2, <3>3
      <4>2. o.db[d].link
        BY <2>2, <3>3 DEF Clean
      <4>3. course'[d] = "quiet" => Quiet(o.db[d], acked'[d])
        BY <2>2, <2>5, <3>2, <3>3, <4>2 DEF Quiet
      <4> QED
        BY <1>1, <3>1, <4>1, <4>3 DEF Pending
    <3>4. CASE o.ret # "ok"
      <4>1. o.db[d].pending \subseteq acked'[d] /\ course'[d] = "failed"
        BY <2>2, <2>5, <3>2, <3>4
      <4> QED
        BY <1>1, <3>1, <4>1 DEF Pending
    <3> QED
      BY <3>3, <3>4
  <2>7. \A e \in Db : course'[e] = "none" => acked'[e] = {}
    BY <1>9, <2>5 DEF Told
  <2>8. \A e \in Db : \A x \in acked'[e] : x \notin durable' /\ said'[x] = "nothing"
    BY <1>3, <1>6, <2>3, <2>4, <2>5 DEF Told
  <2>9. \A e \in Db : \A f \in Db \ {e} : acked'[e] \cap acked'[f] = {}
    BY <1>3, <2>5 DEF Told
  <2> QED
    BY <2>3, <2>4, <2>6, <2>7, <2>8, <2>9 DEF Told, DoneIsDurable, UndoneIsGone
<1> QED
  BY <1>8, <1>9

\* begin-transaction, where none is begun: a success opens one, with nothing
\* pending.
LEMMA BeginTold ==
  ASSUME Nests = FALSE, BusyCommits = FALSE, IInv, AllHandles, Pending, Told,
         NEW d \in Db, BeginTransaction(d)
  PROVE  Pending' /\ Told'
<1> DEFINE q == Verb("begin")
<1>1. PICK o \in ExecuteSQL(db, d, q) :
        /\ Returns(o) /\ db' = Begun(o, d)
        /\ course' = [course EXCEPT ![d] = CASE o.ret = "ok" /\ @ = "none"  -> "quiet"
                                             [] o.ret # "ok" /\ @ # "none" -> "failed"
                                             [] OTHER -> @]
  BY DEF BeginTransaction
<1>2. q \in Stmt /\ q.verb = "begin"
  BY VerbStmt
<1>3. Before(d, q) = db
  BY <1>2 DEF Before
<1> HIDE DEF q
<1>4. /\ course \in [Db -> Course] /\ db[d] \in Connection /\ pc = "run"
      /\ Sound(db[d], course[d]) /\ ~db[d].isBegin
      /\ durable' = durable \cup o.done /\ UNCHANGED <<acked, said>>
  BY <1>1 DEF IInv, TypeOK, BeginTransaction, Returns
<1>5. course[d] = "none" /\ db[d].txn = "none" /\ acked[d] = {}
  BY <1>4 DEF Sound, Told
<1>6. /\ o \in Outcomes /\ Ends(q, db[d], o.ret = "ok", o.db[d])
      /\ Result(q, db[d], o.ret = "ok", o.db[d], o.done)
      /\ \A e \in Db \ {d} : Keeping(db[e], o.db[e])
  BY <1>2, <1>3, <1>4, StatementResult
<1>7. /\ o.done = {} /\ o.db[d].pending = {}
      /\ o.ret = "ok" => o.db[d].dbc /\ o.db[d].link /\ o.db[d].txn = "open"
  BY <1>2, <1>5, <1>6 DEF Result, Ends, Clean
<1>8. /\ db'[d].dbc = o.db[d].dbc /\ db'[d].link = o.db[d].link /\ db'[d].txn = o.db[d].txn
      /\ db'[d].pending = o.db[d].pending
      /\ \A e \in Db \ {d} : db'[e] = o.db[e]
  BY <1>1, <1>6, BegunParts
<1>9. /\ \A e \in Db \ {d} : course'[e] = course[e]
      /\ o.ret # "ok" => course'[d] = "none"
  <2>1. PICK k : /\ course' = [course EXCEPT ![d] = k]
                 /\ o.ret # "ok" => k = "none"
    BY <1>1, <1>4, <1>5
  <2> QED
    BY <1>4, <2>1
<1>10. Pending'
  <2>1. ASSUME NEW e \in Db \ {d}
        PROVE  /\ db'[e].pending \subseteq acked'[e]
               /\ course'[e] = "quiet" => Quiet(db'[e], acked'[e])
    BY <1>4, <1>6, <1>8, <1>9, <2>1 DEF Pending, Keeping, Quiet
  <2>2. /\ db'[d].pending \subseteq acked'[d]
        /\ course'[d] = "quiet" => Quiet(db'[d], acked'[d])
    BY <1>4, <1>5, <1>7, <1>8, <1>9 DEF Quiet
  <2> QED
    BY <2>1, <2>2 DEF Pending
<1>11. durable' = durable
  BY <1>4, <1>7
<1>12. \A e \in Db : course'[e] = "none" => acked'[e] = {}
  BY <1>4, <1>5, <1>9 DEF Told
<1> QED
  BY <1>4, <1>10, <1>11, <1>12 DEF Told, DoneIsDurable, UndoneIsGone

\* The steps that execute no statement. A process that is gone takes what was
\* pending with it, and the one that follows begins no transaction of its own.
LEMMA OtherTold ==
  ASSUME IInv, Pending, Told,
         \/ \E d \in Db : DbError(d) \/ Break(d)
         \/ Accept \/ LeaveProgram \/ Checked \/ ErrorRequest \/ Finish \/ Kill \/ Respawn
         \/ UNCHANGED vars
  PROVE  Pending' /\ Told'
<1>1. CASE /\ UNCHANGED <<durable, acked, course, said>>
           /\ (db' = db /\ pc # "exit") \/ (db' = Gone /\ pc' = "exit")
  BY <1>1, GoneHandles DEF Pending, Told, DoneIsDurable, UndoneIsGone
<1>2. CASE \/ \E d \in Db : DbError(d)
           \/ Accept \/ LeaveProgram \/ Checked \/ ErrorRequest \/ Finish \/ Kill
  <2>1. /\ UNCHANGED <<durable, acked, course, said>>
        /\ (db' = db /\ pc # "exit") \/ (db' = Gone /\ pc' = "exit")
    BY <1>2 DEF DbError, Accept, LeaveProgram, Checked, ErrorRequest, Jumps, Finish, Kill
  <2> QED
    BY <1>1, <2>1
<1>3. ASSUME NEW d \in Db, Break(d)
      PROVE  Pending' /\ Told'
  <2>1. /\ db \in Connections /\ course \in [Db -> Course] /\ UNCHANGED <<pc, durable, acked, said>>
        /\ db' = [db EXCEPT ![d] = Broken(db[d])]
    BY <1>3 DEF IInv, TypeOK, Connections, Break
  <2>2. PICK k : course' = [course EXCEPT ![d] = k] /\ k # "quiet" /\ (k = "none" => course[d] = "none")
    <3> DEFINE k == IF course[d] = "quiet" THEN "broken" ELSE course[d]
    <3>1. course' = [course EXCEPT ![d] = k]
      BY <1>3, <2>1 DEF Break
    <3>2. k # "quiet" /\ (k = "none" => course[d] = "none")
      OBVIOUS
    <3> HIDE DEF k
    <3> QED
      BY <3>1, <3>2
  <2>3. Broken(db[d]).pending = {}
    BY <2>1 DEF Broken, Connections, Connection
  <2>4. db'[d].pending = {} /\ course'[d] # "quiet"
    BY <2>1, <2>2, <2>3 DEF Connections
  <2>5. \A e \in Db \ {d} : db'[e] = db[e] /\ course'[e] = course[e]
    BY <2>1, <2>2 DEF Connections
  <2>6. Pending'
    BY <2>1, <2>4, <2>5 DEF Pending
  <2>7. \A e \in Db : course'[e] = "none" => acked'[e] = {}
    BY <2>1, <2>2, <2>5 DEF Told
  <2> QED
    BY <2>1, <2>6, <2>7 DEF Told, DoneIsDurable, UndoneIsGone
<1>4. CASE Respawn
  <2>1. db' = Gone /\ \A e \in Db : acked'[e] = {} /\ course'[e] = "none"
    BY <1>4 DEF IInv, Respawn
  <2>2. durable' = durable /\ said' = said
    BY <1>4 DEF Respawn
  <2> QED
    BY <2>1, <2>2, GoneHandles DEF Pending, Told, DoneIsDurable, UndoneIsGone
<1>5. CASE UNCHANGED vars
  BY <1>5 DEF vars, Pending, Told, DoneIsDurable, UndoneIsGone
<1> QED
  BY <1>2, <1>3, <1>4, <1>5

\* The start: nothing is pending, durable or said.
LEMMA InitTold == Init => AllHandles /\ Pending /\ Told
<1> SUFFICES ASSUME Init PROVE AllHandles /\ Pending /\ Told
  OBVIOUS
<1>1. db = Gone /\ durable = {}
  BY DEF Init, Gone
<1>2. /\ \A d \in Db : acked[d] = {} /\ course[d] = "none"
      /\ \A w \in Write : said[w] = "nothing"
  BY DEF Init
<1> QED
  BY <1>1, <1>2, GoneHandles DEF AllHandles, Pending, Told, DoneIsDurable, UndoneIsGone

\* Every step keeps it.
LEMMA ToldKept ==
  ASSUME Nests = FALSE, BusyCommits = FALSE
  PROVE  IInv /\ AllHandles /\ Pending /\ Told /\ [Next]_vars => Pending' /\ Told'
<1> SUFFICES ASSUME IInv, AllHandles, Pending, Told, [Next]_vars PROVE Pending' /\ Told'
  OBVIOUS
<1>1. CASE \E d \in Db : \E p \in BOOLEAN, w \in Writes : RunQuery(d, w, p)
  BY <1>1, QueryTold
<1>2. CASE \E d \in Db : BeginTransaction(d)
  BY <1>2, BeginTold
<1>3. CASE \E d \in Db : Commit(d)
  BY <1>3, CommitTold
<1>4. CASE \E d \in Db : Rollback(d) \/ RollbackLeft(d)
  BY <1>4, RollbackTold
<1>5. CASE \/ \E d \in Db : DbError(d) \/ Break(d)
           \/ Accept \/ LeaveProgram \/ Checked \/ ErrorRequest \/ Finish \/ Kill \/ Respawn
           \/ UNCHANGED vars
  BY <1>5, OtherTold
<1> QED
  BY <1>1, <1>2, <1>3, <1>4, <1>5 DEF Next, Statement, EndOfRequest

\* The handle of a prepared statement is one of a statement that the connection
\* in use knows, whatever the program does and whatever connection is lost: no
\* statement runs with a handle of the connection before.
THEOREM HandlesHere == Spec => []PreparedHere
<1>1. Init => IInv /\ AllHandles
  BY InitIInv, InitTold
<1>2. IInv /\ AllHandles /\ [Next]_vars => IInv' /\ AllHandles'
  BY NextIInv, HandlesKept
<1>3. AllHandles => PreparedHere
  BY DEF AllHandles, Handles, Clean, PreparedHere
<1> QED
  BY <1>1, <1>2, <1>3, PTL DEF Spec

\* What the program was told is true to what is durable, in every state.
LEMMA ToldInvariance ==
  ASSUME Nests = FALSE, BusyCommits = FALSE
  PROVE  Spec => []Told
<1>1. Init => IInv /\ AllHandles /\ Pending /\ Told
  BY InitIInv, InitTold
<1>2. IInv /\ AllHandles /\ Pending /\ Told /\ [Next]_vars
        => IInv' /\ AllHandles' /\ Pending' /\ Told'
  BY NextIInv, HandlesKept, ToldKept
<1> QED
  BY <1>1, <1>2, PTL DEF Spec

\* What the program was told is done is durable, for a program that nests no
\* transactions and a SQLite that is not busy at a commit; a statement outside
\* transactions is retried when the connection is lost (rim_retry_db), and
\* answers are lost after the server carried the statement out.
THEOREM DoneStays ==
  ASSUME Nests = FALSE, BusyCommits = FALSE
  PROVE  Spec => []DoneIsDurable
<1>1. Told => DoneIsDurable
  BY DEF Told
<1> QED
  BY <1>1, ToldInvariance, PTL

\* What was rolled back, by the program (rim_rollback) or at the end of its
\* request (rim_check_transaction), is gone, under the same assumptions.
THEOREM UndoneStays ==
  ASSUME Nests = FALSE, BusyCommits = FALSE
  PROVE  Spec => []UndoneIsGone
<1>1. Told => UndoneIsGone
  BY DEF Told
<1> QED
  BY <1>1, ToldInvariance, PTL
=============================================================================
