------------------------------- MODULE MrimShm -------------------------------
(***************************************************************************)
(* How the invocations of mrim on the command line and the resident        *)
(* manager talk, src/mrim.c: two words of shared memory, each atomic but   *)
(* never written together, and a file lock that says who is the manager.   *)
(*                                                                         *)
(* A tool is an invocation: a client (mrim -m ...) or the original process *)
(* of a start, which forks a server. The server takes the lock or finds it *)
(* taken, and tells the original process so over the same two words that   *)
(* carry the commands of clients. What a command does to the workers is    *)
(* MrimWorkers; here it is one step.                                       *)
(***************************************************************************)
EXTENDS FiniteSets

CONSTANTS
  Tool,     \* invocations that may run at the same time
  Server,   \* processes forked by starts
  Nobody,   \* no server
  Ask,      \* what clients may ask for
  Admin,    \* "many": tools run at any time; "sequential": one at a time;
            \* "waits": and only once a server that started is in its loop
  Slow,     \* a wait may run out of tries although the answer would come
  Crashes   \* a server may be killed

ASSUME ShmAssumption ==
  /\ Nobody \notin Server
  /\ Ask \subseteq {"start", "stop", "restart", "quit", "status"}
  /\ Admin \in {"many", "sequential", "waits"}
  /\ Slow \in BOOLEAN /\ Crashes \in BOOLEAN

VARIABLES
  command, data1,  \* the shared memory
  lock,            \* the server that holds the lock on the lock file
  tool,            \* per tool: where it stands, what it asks, how it ended
  srv,             \* per server: where it stands, and what checkshm() read
  done             \* history: the tools whose command a server carried out

vars == <<command, data1, lock, tool, srv, done>>

Code == {"COMMAND", "DONE", "DONEBAD", "OKAY", "DONESTARTUP", "DONESTARTUP0"}
Data == Ask \cup {"start", "okay", "okay_started", "okay_running"}

\* Where a server is established: past the lock and before giving it up.
Established == {"bind", "hello1", "hello2", "hello3", "reset", "started",
                "load1", "load2", "serve", "reply", "unlock"}
Resident(s) == srv[s].pc \in Established
InLoop(s) == srv[s].pc \in {"load1", "load2", "serve", "reply"}

Answered == command # "COMMAND"
\* sleepabit() ran out of tries: nobody is there to answer, or it is Slow.
GivesUp(nobodyThere) == Slow \/ nobodyThere

ToolAt(t, from) == tool[t].pc = from
ToolTo(t, to) == tool' = [tool EXCEPT ![t].pc = to]
ToolSays(t, to, how) == tool' = [tool EXCEPT ![t].pc = to, ![t].out = how]
Ends(t, how) == ToolSays(t, "end", how)
SrvAt(s, from) == srv[s].pc = from
SrvTo(s, to) == srv' = [srv EXCEPT ![s].pc = to]

-----------------------------------------------------------------------------
(* Invoking mrim.                                                          *)

Busy == {t \in Tool : tool[t].pc \notin {"none", "end"}}
MayInvoke ==
  /\ Admin # "many" => Busy = {}
  /\ Admin = "waits" => \A s \in Server : srv[s].pc = "none" \/ InLoop(s)

\* mrim -m c
Invoke(t, c) ==
  /\ tool[t].pc \in {"none", "end"} /\ MayInvoke
  /\ tool' = [tool EXCEPT ![t] = [pc |-> "look", ask |-> c, out |-> "none", kid |-> Nobody]]
  /\ done' = done \ {t}
  /\ UNCHANGED <<command, data1, lock, srv>>

\* mrim, as a server
InvokeServer(t) ==
  /\ tool[t].pc \in {"none", "end"} /\ MayInvoke
  /\ tool' = [tool EXCEPT ![t] = [pc |-> "getshm", ask |-> "start", out |-> "none", kid |-> Nobody]]
  /\ done' = done \ {t}
  /\ UNCHANGED <<command, data1, lock, srv>>

-----------------------------------------------------------------------------
(* A client: cli_getshm(comm, 0).                                          *)

\* srvhere(RIM_CHECKLOCK)
Look(t) ==
  /\ ToolAt(t, "look")
  /\ CASE lock # Nobody                              -> ToolTo(t, "wait")
       [] lock = Nobody /\ tool[t].ask \in {"stop", "status"} -> Ends(t, "error")
       [] lock = Nobody /\ tool[t].ask = "quit"      -> Ends(t, "ok")
       [] OTHER                                      -> ToolTo(t, "wait")
  /\ UNCHANGED <<command, data1, lock, srv, done>>

\* A command of somebody else is waited for.
Wait(t) ==
  /\ ToolAt(t, "wait")
  /\ \/ Answered /\ ToolTo(t, "data")
     \/ ~Answered /\ GivesUp(lock = Nobody) /\ Ends(t, "error")
  /\ UNCHANGED <<command, data1, lock, srv, done>>

SendData(t) ==
  /\ ToolAt(t, "data")
  /\ data1' = tool[t].ask
  /\ ToolTo(t, "send")
  /\ UNCHANGED <<command, lock, srv, done>>

SendCommand(t) ==
  /\ ToolAt(t, "send")
  /\ command' = "COMMAND"
  /\ ToolTo(t, "poll")
  /\ UNCHANGED <<data1, lock, srv, done>>

\* command and data1 are loaded one after the other; only status uses data1.
PollAnswered(t) ==
  /\ ToolAt(t, "poll") /\ Answered
  /\ CASE command = "DONEBAD"      -> Ends(t, "error")
       [] tool[t].ask = "status"   -> ToolTo(t, "print")
       [] tool[t].ask = "quit"     -> ToolTo(t, "leave")
       [] OTHER                    -> Ends(t, "ok")
  /\ UNCHANGED <<command, data1, lock, srv, done>>

PrintStatus(t) ==
  /\ ToolAt(t, "print")
  /\ Ends(t, IF data1 = "okay" THEN "ok" ELSE "not running")
  /\ UNCHANGED <<command, data1, lock, srv, done>>

\* No answer: the load of command that decides how to end, then the reset.
PollGivesUp(t) ==
  /\ ToolAt(t, "poll") /\ ~Answered /\ GivesUp(lock = Nobody)
  /\ ToolTo(t, "late")
  /\ UNCHANGED <<command, data1, lock, srv, done>>

\* Mutant: no client reports that it got no answer.
LateLoadSilent(t) ==
  /\ ToolAt(t, "late")
  /\ ToolSays(t, "reset", "ok")
  /\ UNCHANGED <<command, data1, lock, srv, done>>
LateLoad(t) ==
  /\ ToolAt(t, "late")
  /\ ToolSays(t, "reset", IF Answered THEN "ok" ELSE "error")
  /\ UNCHANGED <<command, data1, lock, srv, done>>

\* Mutant: a command nobody answered stays in shared memory.
LateResetNot(t) ==
  /\ ToolAt(t, "reset")
  /\ ToolTo(t, IF tool[t].ask = "quit" THEN "leave" ELSE "end")
  /\ UNCHANGED <<command, data1, lock, srv, done>>
LateReset(t) ==
  /\ ToolAt(t, "reset")
  /\ command' = "DONE"
  /\ ToolTo(t, IF tool[t].ask = "quit" THEN "leave" ELSE "end")
  /\ UNCHANGED <<data1, lock, srv, done>>

\* wait_server_end(); a client that asked to quit reports no error.
Leave(t) ==
  /\ ToolAt(t, "leave") /\ (lock = Nobody \/ Slow)
  /\ Ends(t, "ok")
  /\ UNCHANGED <<command, data1, lock, srv, done>>

Client(t) == Look(t) \/ Wait(t) \/ SendData(t) \/ SendCommand(t) \/ PollAnswered(t)
             \/ PrintStatus(t) \/ PollGivesUp(t) \/ LateLoad(t) \/ LateReset(t) \/ Leave(t)

-----------------------------------------------------------------------------
(* The original process of a start.                                        *)

\* getshm()
GetShm(t) ==
  /\ ToolAt(t, "getshm")
  /\ command' = "DONE"
  /\ ToolTo(t, "fork")
  /\ UNCHANGED <<data1, lock, srv, done>>

\* The service's executable is missing, or fork() fails.
CannotStart(t) ==
  /\ ToolAt(t, "fork")
  /\ Ends(t, "error")
  /\ UNCHANGED <<command, data1, lock, srv, done>>

\* The store before the fork, and the fork.
Fork(t, s) ==
  /\ ToolAt(t, "fork") /\ srv[s].pc = "none"
  /\ command' = "DONE"
  /\ tool' = [tool EXCEPT ![t].pc = "okay", ![t].kid = s]
  /\ srv' = [srv EXCEPT ![s].pc = "okay"]
  /\ UNCHANGED <<data1, lock, done>>

\* Both processes store RIM_OKAY after the fork.
StartOkay(t) ==
  /\ ToolAt(t, "okay")
  /\ command' = "OKAY"
  /\ ToolTo(t, "child")
  /\ UNCHANGED <<data1, lock, srv, done>>

\* whatisprocess(): a child that ended is collected, and its status read.
ChildOver(t) == srv[tool[t].kid].pc \in {"exit2", "over"}
StartChild(t) ==
  /\ ToolAt(t, "child")
  /\ IF ChildOver(t)
     THEN /\ ToolSays(t, "check", IF SrvAt(tool[t].kid, "exit2") THEN "running" ELSE "error")
          /\ srv' = [srv EXCEPT ![tool[t].kid].pc = "none"]
     ELSE ToolTo(t, "seen") /\ UNCHANGED srv
  /\ UNCHANGED <<command, data1, lock, done>>

StartSeen(t) ==
  /\ ToolAt(t, "seen")
  /\ ToolSays(t, "check", CASE command = "DONESTARTUP"  -> "started"
                            [] command = "DONESTARTUP0" -> "running"
                            [] OTHER                    -> "none")
  /\ UNCHANGED <<command, data1, lock, srv, done>>

\* What checkshm(false) answers; a process without workers does nothing else.
\* RIM_QUIT gets no answer.
\* Mutant: both messages of the child get the same answer.
StartAnswerSame(d) ==
  CASE d \in {"okay_started", "okay_running"} -> "DONESTARTUP"
    [] d \in {"start", "stop", "restart", "status"} -> "DONE"
    [] d = "quit" -> command
    [] OTHER -> "DONEBAD"
StartAnswer(d) ==
  CASE d = "okay_started" -> "DONESTARTUP"
    [] d = "okay_running" -> "DONESTARTUP0"
    [] d \in {"start", "stop", "restart", "status"} -> "DONE"
    [] d = "quit" -> command
    [] OTHER -> "DONEBAD"

\* After checkshm(false) a process that knows the outcome exits.
AfterCheck(t) == ToolTo(t, IF tool[t].out # "none" THEN "end" ELSE "sleep")

\* checkshm(false); between its loads and its store others may step.
StartLoad(t) ==
  /\ ToolAt(t, "check")
  /\ IF Answered THEN AfterCheck(t) ELSE ToolTo(t, "load")
  /\ UNCHANGED <<command, data1, lock, srv, done>>

StartReply(t) ==
  /\ ToolAt(t, "load")
  /\ command' = StartAnswer(data1)
  /\ data1' = IF data1 = "status" THEN "okay" ELSE data1
  /\ AfterCheck(t)
  /\ UNCHANGED <<lock, srv, done>>

StartSleep(t) ==
  /\ ToolAt(t, "sleep")
  /\ \/ ToolTo(t, "child")
     \/ Slow /\ Ends(t, "error")
  /\ UNCHANGED <<command, data1, lock, srv, done>>

Starter(t) == GetShm(t) \/ CannotStart(t) \/ (\E s \in Server : Fork(t, s)) \/ StartOkay(t) \/ StartChild(t)
              \/ StartSeen(t) \/ StartLoad(t) \/ StartReply(t) \/ StartSleep(t)

-----------------------------------------------------------------------------
(* The forked server.                                                      *)

ServerOkay(s) ==
  /\ SrvAt(s, "okay")
  /\ command' = "OKAY"
  /\ SrvTo(s, "lock")
  /\ UNCHANGED <<data1, lock, tool, done>>

\* srvhere(RIM_LOCK)
ServerLock(s) ==
  /\ SrvAt(s, "lock")
  /\ IF lock = Nobody THEN lock' = s /\ SrvTo(s, "bind")
                      ELSE SrvTo(s, "late1") /\ UNCHANGED lock
  /\ UNCHANGED <<command, data1, tool, done>>

\* The socket is bound, or is not, and the first workers are started.
ServerBind(s) ==
  /\ SrvAt(s, "bind")
  /\ \/ SrvTo(s, "hello1") /\ UNCHANGED lock
     \/ SrvTo(s, "over") /\ lock' = Nobody
  /\ UNCHANGED <<command, data1, tool, done>>

\* cli_getshm(..., 1). A check of the lock opens and closes the lock file,
\* and closing it would drop the server's own lock: only clients check.
\* Mutant: everybody checks.
CheckedByAll(s) == lock' = IF lock = s THEN Nobody ELSE lock
Checked(s) == UNCHANGED lock

TellData(s) ==
  /\ srv[s].pc \in {"hello1", "late1"}
  /\ Checked(s)
  /\ data1' = IF SrvAt(s, "hello1") THEN "okay_started" ELSE "okay_running"
  /\ SrvTo(s, IF SrvAt(s, "hello1") THEN "hello2" ELSE "late2")
  /\ UNCHANGED <<command, tool, done>>

TellCommand(s) ==
  /\ srv[s].pc \in {"hello2", "late2"}
  /\ command' = "COMMAND"
  /\ SrvTo(s, IF SrvAt(s, "hello2") THEN "hello3" ELSE "late3")
  /\ UNCHANGED <<data1, lock, tool, done>>

\* An unknown message ends the server.
TellAnswered(s) ==
  /\ srv[s].pc \in {"hello3", "late3"} /\ Answered
  /\ CASE command = "DONEBAD"   -> SrvTo(s, "over") /\ lock' = IF lock = s THEN Nobody ELSE lock
       [] SrvAt(s, "hello3")    -> SrvTo(s, "started") /\ UNCHANGED lock
       [] OTHER                 -> SrvTo(s, "exit2") /\ UNCHANGED lock
  /\ UNCHANGED <<command, data1, tool, done>>

TellGivesUp(s) ==
  /\ srv[s].pc \in {"hello3", "late3"} /\ ~Answered /\ Slow
  /\ SrvTo(s, IF SrvAt(s, "hello3") THEN "reset" ELSE "latereset")
  /\ UNCHANGED <<command, data1, lock, tool, done>>

TellReset(s) ==
  /\ srv[s].pc \in {"reset", "latereset"}
  /\ command' = "DONE"
  /\ SrvTo(s, IF SrvAt(s, "reset") THEN "started" ELSE "exit2")
  /\ UNCHANGED <<data1, lock, tool, done>>

\* The answer is stored again, in case nobody gave it.
ServerStarted(s) ==
  /\ SrvAt(s, "started")
  /\ command' = "DONESTARTUP"
  /\ SrvTo(s, "load1")
  /\ UNCHANGED <<data1, lock, tool, done>>

\* No original process waits for the server.
ParentOver(s) == \A t \in Tool : tool[t].kid = s => tool[t].pc = "end"

\* A server that ended and that no original process waits for is nobody's.
ServerForgotten(s) ==
  /\ srv[s].pc \in {"exit2", "over"} /\ ParentOver(s)
  /\ SrvTo(s, "none")
  /\ UNCHANGED <<command, data1, lock, tool, done>>

\* checkshm(true): command is loaded, and then data1.
LoadCommand(s) ==
  /\ SrvAt(s, "load1") /\ ~Answered
  /\ SrvTo(s, "load2")
  /\ UNCHANGED <<command, data1, lock, tool, done>>

LoadData(s) ==
  /\ SrvAt(s, "load2")
  /\ srv' = [srv EXCEPT ![s] = [pc |-> IF data1 \in {"okay_started", "okay_running"}
                                       THEN "load1" ELSE "serve", data |-> data1]]
  /\ UNCHANGED <<command, data1, lock, tool, done>>

\* The tools the command of this turn comes from: their data1 is stored, and
\* perhaps their command too.
Served(s) == {t \in Tool : tool[t].pc \in {"send", "poll", "late", "reset"} /\ tool[t].ask = srv[s].data}

\* The work on the workers, in MrimWorkers.
Serve(s) ==
  /\ SrvAt(s, "serve") /\ srv[s].data \in {"start", "stop", "restart"}
  /\ done' = done \cup Served(s)
  /\ SrvTo(s, "reply")
  /\ UNCHANGED <<command, data1, lock, tool>>

\* Mutant: the branch of the command stores no answer.
ServeReplyNot(s) ==
  /\ SrvAt(s, "reply")
  /\ SrvTo(s, "load1")
  /\ UNCHANGED <<command, data1, lock, tool, done>>
ServeReply(s) ==
  /\ SrvAt(s, "reply")
  /\ command' = "DONE"
  /\ SrvTo(s, "load1")
  /\ UNCHANGED <<data1, lock, tool, done>>

\* RIM_STATUS: the answer goes to data1, then command is stored.
ServeStatus(s) ==
  /\ SrvAt(s, "serve") /\ srv[s].data = "status"
  /\ data1' = "okay"
  /\ done' = done \cup Served(s)
  /\ SrvTo(s, "reply")
  /\ UNCHANGED <<command, lock, tool>>

ServeBad(s) ==
  /\ SrvAt(s, "serve") /\ srv[s].data = "okay"
  /\ command' = "DONEBAD"
  /\ SrvTo(s, "load1")
  /\ UNCHANGED <<data1, lock, tool, done>>

\* RIM_QUIT answers first, since the shared memory is left then.
ServeQuit(s) ==
  /\ SrvAt(s, "serve") /\ srv[s].data = "quit"
  /\ command' = "DONE"
  /\ done' = done \cup Served(s)
  /\ SrvTo(s, "unlock")
  /\ UNCHANGED <<data1, lock, tool>>

ServerExit(s) ==
  /\ SrvAt(s, "unlock")
  /\ lock' = IF lock = s THEN Nobody ELSE lock
  /\ SrvTo(s, "over")
  /\ UNCHANGED <<command, data1, tool, done>>

ServerStep(s) ==
  \/ ServerOkay(s) \/ ServerLock(s) \/ ServerBind(s) \/ TellData(s) \/ TellCommand(s)
  \/ TellAnswered(s) \/ TellGivesUp(s) \/ TellReset(s) \/ ServerStarted(s) \/ ServerForgotten(s)
  \/ LoadCommand(s) \/ LoadData(s) \/ Serve(s) \/ ServeReply(s) \/ ServeStatus(s)
  \/ ServeBad(s) \/ ServeQuit(s) \/ ServerExit(s)

\* A kill takes the lock away; the original process may still wait.
Kill(s) ==
  /\ Crashes /\ srv[s].pc \notin {"none", "exit2", "over"}
  /\ SrvTo(s, "over")
  /\ lock' = IF lock = s THEN Nobody ELSE lock
  /\ UNCHANGED <<command, data1, tool, done>>

Next == \/ \E t \in Tool : \/ \E c \in Ask : Invoke(t, c)
                           \/ InvokeServer(t) \/ Client(t) \/ Starter(t)
        \/ \E s \in Server : ServerStep(s) \/ Kill(s)

\* The shared memory is there from an earlier run; it is never removed.
Init ==
  /\ command = "DONE" /\ data1 = "okay"
  /\ lock = Nobody
  /\ tool = [t \in Tool |-> [pc |-> "none", ask |-> "start", out |-> "none", kid |-> Nobody]]
  /\ srv = [s \in Server |-> [pc |-> "none", data |-> "okay"]]
  /\ done = {}

\* Every process that can step does: each only computes and sleeps.
Fairness ==
  /\ \A t \in Tool : WF_vars(Client(t) \/ Starter(t))
  /\ \A s \in Server : WF_vars(ServerStep(s))

Spec == Init /\ [][Next]_vars
FairSpec == Spec /\ Fairness

-----------------------------------------------------------------------------
(* Properties.                                                             *)

ToolPc == {"none", "end", "look", "wait", "data", "send", "poll", "print", "leave", "late",
           "reset", "getshm", "fork", "okay", "child", "seen", "check", "load",
           "sleep"}
Outcome == {"none", "ok", "error", "not running", "started", "running"}
ToolRecord == [pc : ToolPc, ask : Ask \cup {"start"}, kid : Server \cup {Nobody}, out : Outcome]
ServerRecord ==
  [pc : Established \cup {"none", "okay", "lock", "late1", "late2", "late3", "latereset",
                         "exit2", "over"},
   data : Data]

TypeOK ==
  /\ command \in Code /\ data1 \in Data
  /\ lock \in Server \cup {Nobody}
  /\ tool \in [Tool -> ToolRecord]
  /\ srv \in [Server -> ServerRecord]
  /\ done \in SUBSET Tool

\* There is never more than one process manager: whoever is past srvhere()
\* holds the lock, however starts, kills and commands interleave.
OneResident == \A s \in Server : Resident(s) => lock = s

\* A client that reports success of a start, stop or restart had it carried
\* out: the handshake is the confirmation that the job is done.
ReplyMeansDone ==
  \A t \in Tool :
    (ToolAt(t, "end") /\ tool[t].out = "ok" /\ tool[t].ask \in {"start", "stop", "restart"})
      => t \in done

\* A start that reports success started the manager, and one that reports a
\* running manager did not: the exit codes 0 and 1 of the manual.
ExitTellsStart ==
  \A t \in Tool : tool[t].pc = "check" =>
    /\ tool[t].out = "started" =>
         srv[tool[t].kid].pc \notin {"late1", "late2", "late3", "latereset", "exit2"}
    /\ tool[t].out = "running" => ~Resident(tool[t].kid)

\* When nobody waits for an answer no command is left in shared memory that
\* the next manager would take for one of its own.
NothingPending ==
  (Busy = {} /\ \A s \in Server : srv[s].pc \in {"none", "load1"}) => Answered

\* Every invocation of mrim ends, and without a timeout when a manager runs.
ToolsEnd == \A t \in Tool : []<>(tool[t].pc \in {"none", "end"})

=============================================================================
