---------------------------- MODULE MrimShmProofs ----------------------------
(* Proofs about MrimShm, for every set of tools and servers: the types and *)
(* the one manager however tools are run; what replies, exit codes and the *)
(* words left in memory mean for one administrator who waits.              *)
EXTENDS MrimShm, TLAPS

\* What the steps are shown to preserve.
IInv == TypeOK /\ OneResident

\* A step that leaves the servers and the lock alone keeps OneResident.
LEMMA SameServers ==
  ASSUME OneResident, UNCHANGED <<lock, srv>>
  PROVE  OneResident'
BY DEF OneResident, Resident

\* What the steps of a tool do to its record keeps the type.
LEMMA Moves ==
  ASSUME tool \in [Tool -> ToolRecord], NEW t \in Tool, NEW to \in ToolPc, ToolTo(t, to)
  PROVE  tool' \in [Tool -> ToolRecord]
BY DEF ToolTo, ToolRecord

\* The same where it knows how it ended.
LEMMA Says ==
  ASSUME tool \in [Tool -> ToolRecord], NEW t \in Tool, NEW to \in ToolPc, NEW how \in Outcome,
         ToolSays(t, to, how)
  PROVE  tool' \in [Tool -> ToolRecord]
BY DEF ToolSays, ToolRecord

\* The same where it ends.
LEMMA IsEnd ==
  ASSUME tool \in [Tool -> ToolRecord], NEW t \in Tool, NEW how \in Outcome, Ends(t, how)
  PROVE  tool' \in [Tool -> ToolRecord]
BY Says DEF Ends, ToolPc

\* The initial state satisfies the invariant: no server exists.
LEMMA InitInv == Init => IInv
BY ShmAssumption DEF Init, IInv, TypeOK, OneResident, Resident, Established, Code, Data,
   ToolRecord, ToolPc, Outcome, ServerRecord

\* Invoking mrim keeps the invariant.
LEMMA InvokeInv ==
  ASSUME IInv, NEW t \in Tool, (\E c \in Ask : Invoke(t, c)) \/ InvokeServer(t)
  PROVE  IInv'
<1>1. TypeOK'
  <2>1. CASE \E c \in Ask : Invoke(t, c)
    <3>1. PICK c \in Ask : Invoke(t, c)
      BY <2>1
    <3>2. [pc |-> "look", ask |-> c, out |-> "none", kid |-> Nobody] \in ToolRecord
      BY DEF ToolRecord, ToolPc, Outcome
    <3>3. QED BY <3>1, <3>2 DEF IInv, TypeOK, Invoke
  <2>2. CASE InvokeServer(t)
    BY <2>2 DEF IInv, TypeOK, InvokeServer, ToolRecord, ToolPc, Outcome
  <2>3. QED BY <2>1, <2>2
<1>2. UNCHANGED <<lock, srv>>
  BY DEF Invoke, InvokeServer
<1>3. QED BY <1>1, <1>2, SameServers DEF IInv

\* The steps of a client keep the invariant.
LEMMA ClientInv ==
  ASSUME IInv, NEW t \in Tool, Client(t)
  PROVE  IInv'
<1> USE DEF ToolAt, ToolPc, Outcome
<1>0. tool \in [Tool -> ToolRecord] /\ tool[t].ask \in Ask \cup {"start"}
  BY DEF IInv, TypeOK, ToolRecord
<1>1. TypeOK'
  <2>1. tool' \in [Tool -> ToolRecord]
    <3>1. CASE Look(t)
      BY <3>1, <1>0, Moves, Says, IsEnd DEF Look
    <3>2. CASE Wait(t)
      BY <3>2, <1>0, Moves, Says, IsEnd DEF Wait
    <3>3. CASE SendData(t) \/ SendCommand(t)
      BY <3>3, <1>0, Moves, Says, IsEnd DEF SendData, SendCommand
    <3>4. CASE PollAnswered(t)
      BY <3>4, <1>0, Moves, Says, IsEnd DEF PollAnswered
    <3>5. CASE PrintStatus(t) \/ PollGivesUp(t)
      BY <3>5, <1>0, Moves, Says, IsEnd DEF PrintStatus, PollGivesUp
    <3>6. CASE LateLoad(t) \/ LateReset(t) \/ Leave(t)
      BY <3>6, <1>0, Moves, Says, IsEnd DEF LateLoad, LateReset, Leave
    <3>7. QED BY <3>1, <3>2, <3>3, <3>4, <3>5, <3>6 DEF Client
  <2>2. command' \in Code /\ data1' \in Data
    BY <1>0 DEF IInv, TypeOK, Client, Look, Wait, SendData, SendCommand, PollAnswered, PrintStatus,
       PollGivesUp, LateLoad, LateReset, Leave, Code, Data
  <2>3. UNCHANGED <<lock, srv, done>>
    BY DEF Client, Look, Wait, SendData, SendCommand, PollAnswered, PrintStatus,
       PollGivesUp, LateLoad, LateReset, Leave
  <2>4. QED BY <2>1, <2>2, <2>3 DEF IInv, TypeOK
<1>2. UNCHANGED <<lock, srv>>
  BY DEF Client, Look, Wait, SendData, SendCommand, PollAnswered, PrintStatus, PollGivesUp,
     LateLoad, LateReset, Leave
<1>3. QED BY <1>1, <1>2, SameServers DEF IInv

\* The steps of the original process of a start keep the invariant: the only
\* server it touches is one that does not hold the lock.
LEMMA StarterInv ==
  ASSUME IInv, NEW t \in Tool, Starter(t)
  PROVE  IInv'
<1> USE DEF ToolAt, ToolPc, Outcome
<1>0. tool \in [Tool -> ToolRecord]
  BY DEF IInv, TypeOK
<1>1. CASE \E s \in Server : Fork(t, s)
  <2>1. PICK s \in Server : Fork(t, s)
    BY <1>1
  <2>2. tool' \in [Tool -> ToolRecord]
    <3>1. [tool[t] EXCEPT !.pc = "okay", !.kid = s] \in ToolRecord
      BY <1>0 DEF ToolRecord
    <3>2. tool' = [tool EXCEPT ![t] = [tool[t] EXCEPT !.pc = "okay", !.kid = s]]
      <4> HIDE DEF ToolPc, Outcome, ToolAt
      <4> QED BY <2>1, <1>0, Zenon DEF Fork
    <3>3. QED BY <3>1, <3>2, <1>0
  <2>3. TypeOK'
    BY <2>1, <2>2 DEF IInv, TypeOK, Fork, ServerRecord, Code
  <2>4. OneResident'
    BY <2>1 DEF IInv, TypeOK, OneResident, Resident, Established, Fork
  <2>5. QED BY <2>3, <2>4 DEF IInv
<1>2. CASE StartChild(t) /\ ChildOver(t)
  <2>1. tool' \in [Tool -> ToolRecord]
    BY <1>2, <1>0, Moves, Says, IsEnd DEF StartChild
  <2>2. UNCHANGED <<command, data1, lock, done>>
    BY <1>2 DEF StartChild
  <2>3. srv' = [srv EXCEPT ![tool[t].kid].pc = "none"]
    BY <1>2 DEF StartChild
  <2> HIDE DEF ToolPc, Outcome
  <2>4. TypeOK'
    BY <2>1, <2>2, <2>3 DEF IInv, TypeOK, ServerRecord
  <2>5. OneResident'
    BY <2>2, <2>3 DEF IInv, TypeOK, OneResident, Resident, Established, ServerRecord
  <2>6. QED BY <2>4, <2>5 DEF IInv
<1>3. CASE (StartChild(t) /\ ~ChildOver(t)) \/ GetShm(t) \/ CannotStart(t) \/ StartOkay(t) \/ StartSeen(t)
           \/ StartLoad(t) \/ StartReply(t) \/ StartSleep(t)
  <2>1. tool' \in [Tool -> ToolRecord]
    <3>1. CASE (StartChild(t) /\ ~ChildOver(t)) \/ GetShm(t) \/ CannotStart(t) \/ StartOkay(t) \/ StartSleep(t)
      BY <3>1, <1>0, Moves, Says, IsEnd DEF StartChild, GetShm, CannotStart, StartOkay, StartSleep
    <3>2. CASE StartSeen(t)
      BY <3>2, <1>0, Moves, Says, IsEnd DEF StartSeen
    <3>3. CASE StartLoad(t)
      BY <3>3, <1>0, Moves DEF StartLoad, AfterCheck
    <3>4. CASE StartReply(t)
      BY <3>4, <1>0, Moves DEF StartReply, AfterCheck
    <3>5. QED BY <1>3, <3>1, <3>2, <3>3, <3>4
  <2>2. command' \in Code /\ data1' \in Data
    BY <1>3 DEF IInv, TypeOK, StartChild, GetShm, CannotStart, StartOkay, StartSeen, StartLoad, StartReply,
       StartSleep, StartAnswer, Code, Data
  <2>3. UNCHANGED <<lock, srv, done>>
    BY <1>3 DEF StartChild, GetShm, CannotStart, StartOkay, StartSeen, StartLoad, StartReply, StartSleep
  <2>4. TypeOK'
    BY <2>1, <2>2, <2>3 DEF IInv, TypeOK
  <2>5. QED BY <2>3, <2>4, SameServers DEF IInv
<1>4. QED BY <1>1, <1>2, <1>3 DEF Starter

\* The steps of a server keep the invariant: it is established only by taking
\* a lock that nobody holds, and gives the lock up when it ends.
LEMMA ServerInv ==
  ASSUME IInv, NEW s \in Server, ServerStep(s) \/ Kill(s)
  PROVE  IInv'
<1> USE DEF IInv, TypeOK, OneResident, Resident, Established, ServerRecord, SrvAt, SrvTo
<1>1. CASE ServerOkay(s) \/ ServerLock(s) \/ ServerBind(s)
  BY <1>1, ShmAssumption DEF ServerOkay, ServerLock, ServerBind, Code
<1>2. CASE TellData(s) \/ TellCommand(s)
  BY <1>2 DEF TellData, TellCommand, Checked, Code, Data
<1>3. CASE TellAnswered(s)
  BY <1>3 DEF TellAnswered
<1>4. CASE TellGivesUp(s) \/ TellReset(s) \/ ServerStarted(s) \/ ServerForgotten(s)
  BY <1>4 DEF TellGivesUp, TellReset, ServerStarted, ServerForgotten, Code
<1>5. CASE LoadCommand(s) \/ LoadData(s)
  BY <1>5 DEF LoadCommand, LoadData
<1>6. CASE Serve(s) \/ ServeReply(s) \/ ServeStatus(s)
  BY <1>6 DEF Serve, ServeReply, ServeStatus, Served, Code, Data
<1>7. CASE ServeBad(s) \/ ServeQuit(s) \/ ServerExit(s)
  BY <1>7 DEF ServeBad, ServeQuit, ServerExit, Served, Code
<1>8. CASE Kill(s)
  BY <1>8 DEF Kill
<1>9. QED
  BY <1>1, <1>2, <1>3, <1>4, <1>5, <1>6, <1>7, <1>8 DEF ServerStep

\* Every step keeps the invariant.
LEMMA NextInv == IInv /\ [Next]_vars => IInv'
<1> SUFFICES ASSUME IInv, [Next]_vars
             PROVE  IInv'
  OBVIOUS
<1>1. CASE Next
  BY <1>1, InvokeInv, ClientInv, StarterInv, ServerInv DEF Next
<1>2. CASE UNCHANGED vars
  BY <1>2 DEF vars, IInv, TypeOK, OneResident, Resident
<1>3. QED BY <1>1, <1>2

\* There is never more than one resident process manager, for any number of
\* invocations and forked servers, with waits that run out and kills: a
\* process past srvhere() holds the lock file.
THEOREM AtMostOneManager == Spec => []OneResident
<1>1. IInv => OneResident
  BY DEF IInv
<1>2. QED
  BY <1>1, InitInv, NextInv, PTL DEF Spec

\* The types of both words, the lock and all processes.
THEOREM TypeCorrect == Spec => []TypeOK
<1>1. IInv => TypeOK
  BY DEF IInv
<1>2. QED
  BY <1>1, InitInv, NextInv, PTL DEF Spec

\* Two servers past the lock are the same server.
COROLLARY ManagersAgree ==
  ASSUME OneResident, NEW r \in Server, NEW s \in Server, Resident(r), Resident(s)
  PROVE  r = s
BY DEF OneResident

-----------------------------------------------------------------------------
(* One administrator who waits: what the two words and the places of the   *)
(* processes say of each other.                                            *)

\* What a server that comes up says of itself.
Hello == {"okay_started", "okay_running"}

Rests(t) == tool[t].pc \in {"none", "end"}
ServersIn(S) == \A s \in Server : srv[s].pc \in S

\* A manager in its loop that is about to load data1 takes it for a command
\* only if it is not what a start left there.
LoadsHello == \A s \in Server : SrvAt(s, "load2") => data1 \in Hello

\* Nobody runs mrim: no command is left, and a server that is not in its loop
\* yet has been answered.
Between ==
  /\ Answered /\ LoadsHello
  /\ ServersIn({"none", "over", "exit2", "unlock", "load1", "load2", "hello3", "started", "late3"})

\* A client is there, and no start: what may be in data1, and what the manager
\* may have loaded from it.
Asked(t) == {tool[t].ask} \cup IF tool[t].ask = "status" THEN {"okay"} ELSE {}
Idle(s) == srv[s].pc \notin {"load2", "serve", "reply"}

Calling(t) ==
  /\ ServersIn({"none", "over", "unlock", "load1", "load2", "serve", "reply"})
  /\ \/ /\ tool[t].pc \in {"look", "wait", "data"}
        /\ Answered /\ LoadsHello
        /\ ServersIn({"none", "over", "unlock", "load1", "load2"})
     \/ /\ tool[t].pc \in {"send", "poll"}
        /\ data1 \in Asked(t)
        /\ \A s \in Server : /\ SrvAt(s, "serve") => srv[s].data \in Asked(t)
                             /\ SrvAt(s, "reply") => t \in done
        /\ ToolAt(t, "send") => Answered
        /\ ToolAt(t, "poll") /\ Answered =>
             /\ \A s \in Server : Idle(s)
             /\ tool[t].ask \in {"start", "stop", "restart"} => t \in done
     \/ /\ tool[t].pc \in {"print", "leave"}
        /\ Answered /\ \A s \in Server : Idle(s)
        /\ tool[t].ask \notin {"start", "stop", "restart"}
     \/ /\ tool[t].pc \in {"late", "reset"}
        /\ lock = Nobody
        /\ ToolAt(t, "late") => ~Answered
        /\ ToolAt(t, "reset") => tool[t].out = "error"

\* A start that has not forked.
Starting(t) ==
  /\ tool[t].pc \in {"getshm", "fork"} /\ tool[t].out = "none"
  /\ Answered /\ LoadsHello
  /\ ServersIn({"none", "over", "unlock", "load1", "load2"})

\* What the two words say while an original process waits for a server.
Words(pc) ==
  /\ pc \in {"okay", "lock", "bind", "hello1", "late1"} => command \in {"DONE", "OKAY"}
  /\ pc = "hello2" => command \in {"DONE", "OKAY"} /\ data1 = "okay_started"
  /\ pc = "late2" => command \in {"DONE", "OKAY"} /\ data1 = "okay_running"
  /\ pc = "hello3" => command \in {"COMMAND", "OKAY", "DONESTARTUP"} /\ data1 = "okay_started"
  /\ pc = "late3" => command \in {"COMMAND", "OKAY", "DONESTARTUP0"} /\ data1 = "okay_running"
  /\ pc \in {"started", "load1"} => command \in {"OKAY", "DONESTARTUP"}
  /\ pc = "exit2" => command \in {"OKAY", "DONESTARTUP0"}
  /\ pc \in {"over", "none"} => Answered \/ data1 \in Hello
  /\ pc \in {"okay", "lock", "bind", "hello1", "late1", "hello2", "late2", "hello3", "late3",
             "started", "load1", "exit2", "over", "none"}

\* What it found out about the server.
Found(out, pc) ==
  /\ out \in {"none", "started", "running", "error"}
  /\ out = "started" => pc \in {"hello3", "started", "load1", "over", "none"}
  /\ out = "running" => pc \in {"late3", "exit2", "over", "none"}
  /\ out = "error" => pc = "none"

ForkedOf(t, k) ==
  /\ tool[t].pc \in {"okay", "child", "seen", "check", "load", "sleep"}
  /\ k \in Server
  /\ Words(srv[k].pc) /\ Found(tool[t].out, srv[k].pc)
  /\ \A s \in Server \ {k} : srv[s].pc \in {"none", "over", "unlock", "load1", "load2"}
  /\ LoadsHello
  /\ SrvAt(k, "none") => tool[t].pc \in {"check", "load"} /\ tool[t].out # "none"
  /\ tool[t].pc \in {"okay", "child", "seen", "sleep"} => tool[t].out = "none"
  /\ ToolAt(t, "load") => ~Answered
Forked(t) == ForkedOf(t, tool[t].kid)

AdminInv ==
  /\ ReplyMeansDone
  /\ (\A t \in Tool : Rests(t)) => Between
  /\ \A t \in Tool : ~Rests(t) =>
       /\ \A u \in Tool \ {t} : Rests(u)
       /\ Calling(t) \/ Starting(t) \/ Forked(t)

-----------------------------------------------------------------------------
(* The steps of tools.                                                     *)

\* A server that goes somewhere, and nobody else.
LEMMA ServerGoes ==
  ASSUME TypeOK, NEW s \in Server, NEW to, SrvTo(s, to)
  PROVE  /\ srv'[s].pc = to /\ srv'[s].data = srv[s].data
         /\ \A r \in Server \ {s} : srv'[r] = srv[r]
BY DEF TypeOK, ServerRecord, SrvTo

\* A tool that goes somewhere, and nobody else.
LEMMA ToolGoes ==
  ASSUME TypeOK, NEW t \in Tool, NEW to, ToolTo(t, to)
  PROVE  /\ tool'[t].pc = to /\ tool'[t].ask = tool[t].ask /\ tool'[t].out = tool[t].out
         /\ tool'[t].kid = tool[t].kid
         /\ \A u \in Tool \ {t} : tool'[u] = tool[u]
BY DEF TypeOK, ToolRecord, ToolTo

\* A tool that goes somewhere and knows how it ends.
LEMMA ToolGoesWith ==
  ASSUME TypeOK, NEW t \in Tool, NEW to, NEW how, ToolSays(t, to, how)
  PROVE  /\ tool'[t].pc = to /\ tool'[t].ask = tool[t].ask /\ tool'[t].out = how
         /\ tool'[t].kid = tool[t].kid
         /\ \A u \in Tool \ {t} : tool'[u] = tool[u]
BY DEF TypeOK, ToolRecord, ToolSays

\* A step of the one tool that runs.
LEMMA ToolKeeps ==
  ASSUME AdminInv, NEW t \in Tool, ~Rests(t), done' = done,
         \A u \in Tool \ {t} : tool'[u] = tool[u],
         Rests(t)' => /\ Between'
                      /\ (tool'[t].out = "ok" /\ tool'[t].ask \in {"start", "stop", "restart"}) => t \in done,
         ~Rests(t)' => (Calling(t) \/ Starting(t) \/ Forked(t))'
  PROVE  AdminInv'
<1>1. \A u \in Tool \ {t} : Rests(u) /\ Rests(u)'
  BY DEF AdminInv, Rests
<1>2. ReplyMeansDone'
  BY DEF AdminInv, ReplyMeansDone, ToolAt, Rests
<1> QED
  BY <1>1, <1>2 DEF AdminInv

\* A step of a server.
LEMMA ServersKeep ==
  ASSUME AdminInv, tool' = tool, done \subseteq done',
         (\A t \in Tool : Rests(t)) => Between',
         \A t \in Tool : ~Rests(t) => (Calling(t) \/ Starting(t) \/ Forked(t))'
  PROVE  AdminInv'
<1>1. ReplyMeansDone'
  BY DEF AdminInv, ReplyMeansDone, ToolAt
<1>2. \A t \in Tool : Rests(t)' <=> Rests(t)
  BY DEF Rests
<1> QED
  BY <1>1, <1>2 DEF AdminInv

\* An invocation comes when nobody runs mrim and the manager is in its loop.
LEMMA InvokeAdmin ==
  ASSUME Admin = "waits", IInv, AdminInv, NEW t \in Tool,
         (\E c \in Ask : Invoke(t, c)) \/ InvokeServer(t)
  PROVE  AdminInv'
<1>1. /\ \A u \in Tool : Rests(u)
      /\ \A s \in Server : SrvAt(s, "none") \/ InLoop(s)
      /\ UNCHANGED <<command, data1, lock, srv>> /\ done' = done \ {t}
  BY DEF Invoke, InvokeServer, MayInvoke, Busy, Rests, SrvAt
<1>2. Between
  BY <1>1 DEF AdminInv
<1>3. \A u \in Tool \ {t} : tool'[u] = tool[u]
  BY DEF Invoke, InvokeServer, IInv, TypeOK
<1>4. tool'[t].pc \in {"look", "getshm"} /\ tool'[t].out = "none"
  BY DEF Invoke, InvokeServer, IInv, TypeOK
<1>5. ServersIn({"none", "load1", "load2"})
  BY <1>1, <1>2 DEF Between, ServersIn, InLoop, SrvAt
<1>6. (Calling(t) \/ Starting(t))'
  BY <1>1, <1>2, <1>4, <1>5 DEF Between, Calling, Starting, ServersIn, LoadsHello, Answered, SrvAt
<1>7. ReplyMeansDone'
  BY <1>1, <1>3, <1>4 DEF AdminInv, ReplyMeansDone, ToolAt
<1> QED
  BY <1>1, <1>3, <1>4, <1>6, <1>7 DEF AdminInv, Rests

\* The steps of a client. It ends with a success only when the manager answered
\* its command.
LEMMA ClientAdmin ==
  ASSUME Slow = FALSE, IInv, AdminInv, NEW t \in Tool, Client(t)
  PROVE  AdminInv'
<1> USE DEF ToolAt
<1>0. TypeOK /\ OneResident /\ tool[t].ask \in Ask \cup {"start"}
  BY DEF IInv, TypeOK, ToolRecord
<1>1. /\ tool[t].pc \in {"look", "wait", "data", "send", "poll", "print", "leave", "late", "reset"}
      /\ UNCHANGED <<lock, srv, done>>
  BY DEF Client, Look, Wait, SendData, SendCommand, PollAnswered, PrintStatus, PollGivesUp,
     LateLoad, LateReset, Leave
<1>2. ~Rests(t) /\ Calling(t)
  BY <1>1 DEF AdminInv, Rests, Starting, Forked, ForkedOf
<1>3. \A S : ServersIn(S)' <=> ServersIn(S)
  BY <1>1 DEF ServersIn
<1>4. CASE Look(t)
  <2>1. /\ tool'[t].pc \in {"wait", "end"} /\ \A u \in Tool \ {t} : tool'[u] = tool[u]
        /\ tool'[t].pc = "end" /\ tool'[t].out = "ok" => tool'[t].ask \notin {"start", "stop", "restart"}
    BY <1>0, <1>4, ToolGoes, ToolGoesWith DEF Look, Ends
  <2>2. Answered /\ LoadsHello /\ ServersIn({"none", "over", "unlock", "load1", "load2"})
    BY <1>2, <1>4 DEF Calling, Look
  <2>3. UNCHANGED <<command, data1>>
    BY <1>4 DEF Look
  <2> QED
    BY <1>1, <1>2, <2>1, <2>2, <2>3, ToolKeeps
    DEF Rests, Between, Calling, ServersIn, LoadsHello, Answered, SrvAt
<1>5. CASE Wait(t)
  <2>1. Answered /\ LoadsHello /\ ServersIn({"none", "over", "unlock", "load1", "load2"})
    BY <1>2, <1>5 DEF Calling, Wait
  <2>2. tool'[t].pc = "data" /\ \A u \in Tool \ {t} : tool'[u] = tool[u]
    BY <1>0, <1>5, <2>1, ToolGoes DEF Wait
  <2>3. UNCHANGED <<command, data1>>
    BY <1>5 DEF Wait
  <2> QED
    BY <1>1, <1>2, <2>1, <2>2, <2>3, ToolKeeps
    DEF Rests, Calling, ServersIn, LoadsHello, Answered, SrvAt
<1>6. CASE SendData(t)
  <2>1. Answered /\ ServersIn({"none", "over", "unlock", "load1", "load2"})
    BY <1>2, <1>6 DEF Calling, SendData
  <2>2. /\ tool'[t].pc = "send" /\ tool'[t].ask = tool[t].ask
        /\ \A u \in Tool \ {t} : tool'[u] = tool[u]
    BY <1>0, <1>6, ToolGoes DEF SendData
  <2>3. command' = command /\ data1' = tool[t].ask
    BY <1>6 DEF SendData
  <2> QED
    BY <1>1, <1>2, <2>1, <2>2, <2>3, ToolKeeps
    DEF Rests, Calling, ServersIn, Asked, Answered, SrvAt
<1>7. CASE SendCommand(t)
  <2>1. /\ tool'[t].pc = "poll" /\ tool'[t].ask = tool[t].ask
        /\ \A u \in Tool \ {t} : tool'[u] = tool[u]
    BY <1>0, <1>7, ToolGoes DEF SendCommand
  <2>2. command' = "COMMAND" /\ data1' = data1
    BY <1>7 DEF SendCommand
  <2> QED
    BY <1>1, <1>2, <1>7, <2>1, <2>2, ToolKeeps
    DEF SendCommand, Rests, Calling, ServersIn, Asked, Answered, SrvAt
<1>8. CASE PollAnswered(t)
  <2>1. /\ Answered /\ \A s \in Server : Idle(s)
        /\ tool[t].ask \in {"start", "stop", "restart"} => t \in done
        /\ ServersIn({"none", "over", "unlock", "load1", "load2", "serve", "reply"})
    BY <1>2, <1>8 DEF Calling, PollAnswered
  <2>2. /\ tool'[t].pc \in {"print", "leave", "end"} /\ tool'[t].ask = tool[t].ask
        /\ tool'[t].pc # "end" => tool[t].ask \notin {"start", "stop", "restart"}
        /\ \A u \in Tool \ {t} : tool'[u] = tool[u]
    <3>1. CASE Ends(t, "error") \/ Ends(t, "ok")
      BY <1>0, <3>1, ToolGoesWith DEF Ends
    <3>2. CASE ToolTo(t, "print") /\ tool[t].ask = "status"
      BY <1>0, <3>2, ToolGoes
    <3>3. CASE ToolTo(t, "leave") /\ tool[t].ask = "quit"
      BY <1>0, <3>3, ToolGoes
    <3> QED
      BY <1>8, <3>1, <3>2, <3>3 DEF PollAnswered
  <2>3. UNCHANGED <<command, data1>>
    BY <1>8 DEF PollAnswered
  <2> QED
    BY <1>1, <1>2, <2>1, <2>2, <2>3, ToolKeeps
    DEF Rests, Between, Calling, Idle, ServersIn, LoadsHello, Answered, SrvAt
<1>9. CASE PrintStatus(t) \/ Leave(t)
  <2>1. /\ Answered /\ \A s \in Server : Idle(s)
        /\ tool[t].ask \notin {"start", "stop", "restart"}
        /\ ServersIn({"none", "over", "unlock", "load1", "load2", "serve", "reply"})
    BY <1>2, <1>9 DEF Calling, PrintStatus, Leave
  <2>2. /\ tool'[t].pc = "end" /\ tool'[t].ask = tool[t].ask
        /\ \A u \in Tool \ {t} : tool'[u] = tool[u]
    BY <1>0, <1>9, ToolGoesWith DEF Ends, PrintStatus, Leave
  <2>3. UNCHANGED <<command, data1>>
    BY <1>9 DEF PrintStatus, Leave
  <2> QED
    BY <1>1, <1>2, <2>1, <2>2, <2>3, ToolKeeps
    DEF Rests, Between, Idle, ServersIn, LoadsHello, Answered, SrvAt
<1>10. CASE PollGivesUp(t)
  <2>1. ~Answered /\ lock = Nobody /\ UNCHANGED <<command, data1>>
    BY <1>10 DEF PollGivesUp, GivesUp
  <2>2. tool'[t].pc = "late" /\ \A u \in Tool \ {t} : tool'[u] = tool[u]
    BY <1>0, <1>10, ToolGoes DEF PollGivesUp
  <2>3. Calling(t)'
    BY <1>1, <1>2, <2>1, <2>2 DEF Calling, ServersIn, Answered
  <2> QED
    BY <1>1, <1>2, <2>2, <2>3, ToolKeeps DEF Rests
<1>11. CASE LateLoad(t)
  <2>1. ~Answered /\ lock = Nobody /\ UNCHANGED <<command, data1>>
    BY <1>2, <1>11 DEF LateLoad, Calling
  <2>2. /\ tool'[t].pc = "reset" /\ tool'[t].out = "error"
        /\ \A u \in Tool \ {t} : tool'[u] = tool[u]
    BY <1>0, <1>11, <2>1, ToolGoesWith DEF LateLoad
  <2>3. Calling(t)'
    BY <1>1, <1>2, <2>1, <2>2 DEF Calling, ServersIn
  <2> QED
    BY <1>1, <1>2, <2>2, <2>3, ToolKeeps DEF Rests
<1>12. CASE LateReset(t)
  <2>1. lock = Nobody /\ tool[t].out = "error"
    BY <1>2, <1>12 DEF LateReset, Calling
  <2>2. ServersIn({"none", "over"})
    BY <1>0, <1>2, <2>1, ShmAssumption DEF Calling, ServersIn, OneResident, Resident, Established
  <2>3. /\ tool'[t].pc \in {"leave", "end"} /\ tool'[t].out = "error"
        /\ tool'[t].ask = tool[t].ask
        /\ tool'[t].pc = "leave" => tool[t].ask = "quit"
        /\ \A u \in Tool \ {t} : tool'[u] = tool[u]
    <3>1. PICK to : ToolTo(t, to) /\ to \in {"leave", "end"} /\ (to = "leave" => tool[t].ask = "quit")
      BY <1>12 DEF LateReset
    <3> QED
      BY <1>0, <2>1, <3>1, ToolGoes
  <2>4. command' = "DONE"
    BY <1>12 DEF LateReset
  <2> QED
    BY <1>1, <1>2, <2>2, <2>3, <2>4, ToolKeeps
    DEF Rests, Between, Calling, Idle, ServersIn, LoadsHello, Answered, SrvAt
<1> QED
  BY <1>4, <1>5, <1>6, <1>7, <1>8, <1>9, <1>10, <1>11, <1>12 DEF Client

\* The original process of a start. It ends when it knows what became of its
\* server, and then the two words are its answer to it.
LEMMA StarterAdmin ==
  ASSUME Slow = FALSE, IInv, AdminInv, NEW t \in Tool, Starter(t)
  PROVE  AdminInv'
<1> USE DEF ToolAt
<1>0. TypeOK /\ command \in Code
  BY DEF IInv, TypeOK
<1>1. /\ tool[t].pc \in {"getshm", "fork", "okay", "child", "seen", "check", "load", "sleep"}
      /\ UNCHANGED <<lock, done>>
  BY DEF Starter, GetShm, CannotStart, Fork, StartOkay, StartChild, StartSeen, StartLoad, StartReply, StartSleep
<1>2. ~Rests(t) /\ (Starting(t) \/ Forked(t))
  BY <1>1 DEF AdminInv, Rests, Calling
<1>3. CASE GetShm(t)
  <2>1. Starting(t)
    BY <1>2, <1>3 DEF Forked, ForkedOf, GetShm
  <2>2. tool'[t].pc = "fork" /\ tool'[t].out = tool[t].out /\ \A u \in Tool \ {t} : tool'[u] = tool[u]
    BY <1>0, <1>3, ToolGoes DEF GetShm
  <2>3. command' = "DONE" /\ UNCHANGED <<data1, srv>>
    BY <1>3 DEF GetShm
  <2>4. Starting(t)'
    BY <2>1, <2>2, <2>3 DEF Starting, Answered, LoadsHello, ServersIn, SrvAt
  <2> QED
    BY <1>1, <1>2, <2>2, <2>4, ToolKeeps DEF Rests
<1>4. CASE CannotStart(t)
  <2>1. Starting(t)
    BY <1>2, <1>4 DEF Forked, ForkedOf, CannotStart
  <2>2. /\ tool'[t].pc = "end" /\ tool'[t].out = "error"
        /\ \A u \in Tool \ {t} : tool'[u] = tool[u]
    BY <1>0, <1>4, ToolGoesWith DEF CannotStart, Ends
  <2>3. UNCHANGED <<command, data1, srv>>
    BY <1>4 DEF CannotStart
  <2>4. Between'
    BY <2>1, <2>3 DEF Starting, Between, Answered, LoadsHello, ServersIn, SrvAt
  <2> QED
    BY <1>1, <1>2, <2>2, <2>4, ToolKeeps DEF Rests
<1>5. ASSUME NEW k \in Server, Fork(t, k)
      PROVE  AdminInv'
  <2>1. Starting(t)
    BY <1>2, <1>5 DEF Forked, ForkedOf, Fork
  <2>2. /\ tool'[t].pc = "okay" /\ tool'[t].kid = k /\ tool'[t].out = tool[t].out
        /\ \A u \in Tool \ {t} : tool'[u] = tool[u]
    BY <1>0, <1>5 DEF Fork, TypeOK, ToolRecord
  <2>3. /\ srv'[k].pc = "okay" /\ \A r \in Server \ {k} : srv'[r] = srv[r]
        /\ command' = "DONE" /\ data1' = data1
    BY <1>0, <1>5 DEF Fork, TypeOK, ServerRecord
  <2>4. ForkedOf(t, k)'
    BY <2>1, <2>2, <2>3 DEF ForkedOf, Starting, Words, Found, LoadsHello, ServersIn, SrvAt
  <2> QED
    BY <1>1, <1>2, <2>2, <2>4, ToolKeeps DEF Rests, Forked
<1>6. CASE tool[t].pc \notin {"getshm", "fork"}
  <2>0. PICK k \in Server : k = tool[t].kid /\ ForkedOf(t, k)
    BY <1>2, <1>6 DEF Forked, ForkedOf, Starting
  <2>1. ForkedOf(t, k)
    BY <2>0
  <2>2. Found(tool[t].out, srv[k].pc)
    BY <2>1 DEF ForkedOf
  <2>3. ASSUME tool'[t].kid = k, \A u \in Tool \ {t} : tool'[u] = tool[u],
               Rests(t)' => Between' /\ tool'[t].out # "ok",
               ~Rests(t)' => ForkedOf(t, k)'
        PROVE  AdminInv'
    BY <1>1, <1>2, <2>3, ToolKeeps DEF Forked
  <2>4. CASE StartOkay(t)
    <3>1. /\ tool'[t].pc = "child" /\ tool'[t].kid = k /\ tool'[t].out = tool[t].out
          /\ \A u \in Tool \ {t} : tool'[u] = tool[u]
      BY <1>0, <2>0, <2>4, ToolGoes DEF StartOkay
    <3>2. command' = "OKAY" /\ UNCHANGED <<data1, srv>>
      BY <2>4 DEF StartOkay
    <3>3. ForkedOf(t, k)'
      BY <2>1, <2>4, <3>1, <3>2 DEF StartOkay, ForkedOf, Words, Found, LoadsHello, Answered, SrvAt
    <3> QED
      BY <2>3, <3>1, <3>3 DEF Rests
  <2>5. CASE StartChild(t) /\ ChildOver(t)
    <3>1. /\ tool'[t].pc = "check" /\ tool'[t].kid = k
          /\ tool'[t].out = IF SrvAt(k, "exit2") THEN "running" ELSE "error"
          /\ \A u \in Tool \ {t} : tool'[u] = tool[u]
      BY <1>0, <2>0, <2>5, ToolGoesWith DEF StartChild
    <3>2. /\ srv[k].pc \in {"exit2", "over"}
          /\ srv'[k].pc = "none" /\ \A r \in Server \ {k} : srv'[r] = srv[r]
          /\ UNCHANGED <<command, data1>>
      BY <1>0, <2>0, <2>2, <2>5 DEF StartChild, ChildOver, TypeOK, ServerRecord
    <3>3. ForkedOf(t, k)'
      BY <2>1, <3>1, <3>2 DEF ForkedOf, Words, Found, LoadsHello, Answered, SrvAt
    <3> QED
      BY <2>3, <3>1, <3>3 DEF Rests
  <2>6. CASE StartChild(t) /\ ~ChildOver(t)
    <3>1. /\ tool'[t].pc = "seen" /\ tool'[t].kid = k /\ tool'[t].out = tool[t].out
          /\ \A u \in Tool \ {t} : tool'[u] = tool[u]
      BY <1>0, <2>0, <2>6, ToolGoes DEF StartChild
    <3>2. UNCHANGED <<command, data1, srv>>
      BY <2>6 DEF StartChild
    <3>3. ForkedOf(t, k)'
      BY <2>1, <2>6, <3>1, <3>2 DEF StartChild, ForkedOf, Words, Found, LoadsHello, Answered, SrvAt
    <3> QED
      BY <2>3, <3>1, <3>3 DEF Rests
  <2>7. CASE StartSeen(t)
    <3>1. PICK how : /\ ToolSays(t, "check", how)
                     /\ \/ command = "DONESTARTUP" /\ how = "started"
                        \/ command = "DONESTARTUP0" /\ how = "running"
                        \/ how = "none"
      BY <2>7 DEF StartSeen
    <3>2. /\ tool'[t].pc = "check" /\ tool'[t].kid = k /\ tool'[t].out = how
          /\ \A u \in Tool \ {t} : tool'[u] = tool[u]
      BY <1>0, <2>0, <3>1, ToolGoesWith
    <3>3. UNCHANGED <<command, data1, srv>>
      BY <2>7 DEF StartSeen
    <3>4. Found(how, srv[k].pc)
      BY <2>1, <3>1 DEF ForkedOf, Words, Found
    <3>5. ForkedOf(t, k)'
      BY <2>1, <2>7, <3>2, <3>3, <3>4 DEF StartSeen, ForkedOf, Words, Found, LoadsHello, Answered, SrvAt
    <3> QED
      BY <2>3, <3>2, <3>5 DEF Rests
  <2>8. CASE StartSleep(t)
    <3>1. /\ tool'[t].pc = "child" /\ tool'[t].kid = k /\ tool'[t].out = tool[t].out
          /\ \A u \in Tool \ {t} : tool'[u] = tool[u]
      BY <1>0, <2>0, <2>8, ToolGoes DEF StartSleep
    <3>2. UNCHANGED <<command, data1, srv>>
      BY <2>8 DEF StartSleep
    <3>3. ForkedOf(t, k)'
      BY <2>1, <2>8, <3>1, <3>2 DEF StartSleep, ForkedOf, Words, Found, LoadsHello, Answered, SrvAt
    <3> QED
      BY <2>3, <3>1, <3>3 DEF Rests
  <2>9. CASE StartLoad(t) /\ ~Answered
    <3>1. /\ tool'[t].pc = "load" /\ tool'[t].kid = k /\ tool'[t].out = tool[t].out
          /\ \A u \in Tool \ {t} : tool'[u] = tool[u]
      BY <1>0, <2>0, <2>9, ToolGoes DEF StartLoad
    <3>2. UNCHANGED <<command, data1, srv>>
      BY <2>9 DEF StartLoad
    <3>3. ForkedOf(t, k)'
      BY <2>1, <2>9, <3>1, <3>2 DEF ForkedOf, Words, Found, LoadsHello, Answered, SrvAt
    <3> QED
      BY <2>3, <3>1, <3>3 DEF Rests
  <2>10. ASSUME AfterCheck(t), Answered', UNCHANGED <<data1, srv>>, Words(srv[k].pc)',
                tool[t].pc \in {"check", "load"}
         PROVE  AdminInv'
    <3>1. /\ tool'[t].pc = (IF tool[t].out # "none" THEN "end" ELSE "sleep")
          /\ tool'[t].kid = k /\ tool'[t].out = tool[t].out
          /\ \A u \in Tool \ {t} : tool'[u] = tool[u]
      BY <1>0, <2>0, <2>10, ToolGoes DEF AfterCheck
    <3>2. CASE tool[t].out = "none"
      <4>1. ForkedOf(t, k)'
        BY <2>1, <2>10, <3>1, <3>2 DEF ForkedOf, Found, LoadsHello, SrvAt
      <4> QED
        BY <2>3, <3>1, <3>2, <4>1 DEF Rests
    <3>3. CASE tool[t].out # "none"
      <4>1. /\ srv[k].pc \in {"hello3", "started", "load1", "over", "none", "late3", "exit2"}
            /\ tool[t].out # "ok"
        BY <2>2, <3>3 DEF Found
      <4>2. ServersIn({"none", "over", "exit2", "unlock", "load1", "load2", "hello3", "started", "late3"})
        BY <2>1, <4>1 DEF ForkedOf, ServersIn
      <4>3. Between'
        BY <2>1, <2>10, <4>2 DEF ForkedOf, Between, LoadsHello, ServersIn, SrvAt
      <4> QED
        BY <2>3, <3>1, <3>3, <4>1, <4>3 DEF Rests
    <3> QED
      BY <3>2, <3>3
  <2>11. CASE StartLoad(t) /\ Answered
    <3>1. AfterCheck(t) /\ UNCHANGED <<command, data1, srv>>
      BY <2>11 DEF StartLoad
    <3>2. Words(srv[k].pc)' /\ Answered'
      BY <2>1, <2>11, <3>1 DEF ForkedOf, Words, Answered
    <3> QED
      BY <2>10, <2>11, <3>1, <3>2 DEF StartLoad
  <2>12. CASE StartReply(t)
    <3>1. ~Answered /\ command' = StartAnswer(data1) /\ UNCHANGED srv /\ AfterCheck(t)
      BY <2>1, <2>12 DEF ForkedOf, StartReply
    <3>2. CASE data1 = "okay_started"
      <4>1. command' = "DONESTARTUP" /\ data1' = data1
        BY <2>12, <3>1, <3>2 DEF StartReply, StartAnswer
      <4>2. Words(srv[k].pc)' /\ Answered'
        BY <2>1, <3>1, <3>2, <4>1 DEF ForkedOf, Words, Answered
      <4> QED
        BY <2>10, <2>12, <3>1, <4>1, <4>2 DEF StartReply
    <3>3. CASE data1 = "okay_running"
      <4>1. command' = "DONESTARTUP0" /\ data1' = data1
        BY <2>12, <3>1, <3>3 DEF StartReply, StartAnswer
      <4>2. Words(srv[k].pc)' /\ Answered'
        BY <2>1, <3>1, <3>3, <4>1 DEF ForkedOf, Words, Answered
      <4> QED
        BY <2>10, <2>12, <3>1, <4>1, <4>2 DEF StartReply
    <3>4. data1 \in Hello
      BY <2>1, <3>1 DEF ForkedOf, Words, Answered, Hello
    <3> QED
      BY <3>2, <3>3, <3>4 DEF Hello
  <2>13. StartOkay(t) \/ StartChild(t) \/ StartSeen(t) \/ StartLoad(t) \/ StartReply(t) \/ StartSleep(t)
    BY <1>6 DEF Starter, GetShm, CannotStart, Fork
  <2> QED
    BY <2>4, <2>5, <2>6, <2>7, <2>8, <2>9, <2>11, <2>12, <2>13
<1>7. CASE tool[t].pc \in {"getshm", "fork"}
  <2>1. GetShm(t) \/ CannotStart(t) \/ \E k \in Server : Fork(t, k)
    BY <1>7 DEF Starter, StartOkay, StartChild, StartSeen, StartLoad, StartReply, StartSleep
  <2> QED
    BY <1>3, <1>4, <1>5, <2>1
<1> QED
  BY <1>6, <1>7

-----------------------------------------------------------------------------
(* The steps of servers.                                                   *)

\* What a server does at the places where it may be while a client runs, or a
\* start that is not its own.
LEMMA SettledSteps ==
  ASSUME IInv, NEW s \in Server, ServerStep(s) \/ Kill(s),
         srv[s].pc \in {"none", "over", "exit2", "unlock", "load1", "load2", "serve", "reply"}
  PROVE  /\ \A r \in Server \ {s} : srv'[r] = srv[r]
         /\ tool' = tool
         /\ \/ srv'[s].pc \in {"none", "over"} /\ UNCHANGED <<command, data1, done>>
               /\ (lock' = lock \/ lock' = Nobody)
            \/ /\ SrvAt(s, "load1") /\ ~Answered /\ srv'[s].pc = "load2"
               /\ UNCHANGED <<command, data1, lock, done>>
            \/ /\ SrvAt(s, "load2") /\ srv'[s].data = data1
               /\ srv'[s].pc = (IF data1 \in Hello THEN "load1" ELSE "serve")
               /\ UNCHANGED <<command, data1, lock, done>>
            \/ /\ SrvAt(s, "serve") /\ srv[s].data \in {"start", "stop", "restart", "status"}
               /\ srv'[s].pc = "reply" /\ done' = done \cup Served(s)
               /\ data1' = (IF srv[s].data = "status" THEN "okay" ELSE data1)
               /\ UNCHANGED <<command, lock>>
            \/ /\ SrvAt(s, "reply") /\ srv'[s].pc = "load1" /\ command' = "DONE"
               /\ UNCHANGED <<data1, lock, done>>
            \/ /\ SrvAt(s, "serve") /\ srv[s].data = "okay" /\ srv'[s].pc = "load1"
               /\ command' = "DONEBAD" /\ UNCHANGED <<data1, lock, done>>
            \/ /\ SrvAt(s, "serve") /\ srv[s].data = "quit" /\ srv'[s].pc = "unlock"
               /\ command' = "DONE" /\ done' = done \cup Served(s) /\ UNCHANGED <<data1, lock>>
<1>0. TypeOK
  BY DEF IInv
<1> USE DEF SrvAt
<1>1. CASE Kill(s) \/ ServerExit(s) \/ ServerForgotten(s)
  BY <1>0, <1>1, ServerGoes DEF Kill, ServerExit, ServerForgotten
<1>2. CASE LoadCommand(s)
  BY <1>0, <1>2, ServerGoes DEF LoadCommand
<1>3. CASE LoadData(s)
  BY <1>0, <1>3 DEF LoadData, TypeOK, Hello
<1>4. CASE Serve(s)
  BY <1>0, <1>4, ServerGoes DEF Serve
<1>5. CASE ServeStatus(s)
  BY <1>0, <1>5, ServerGoes DEF ServeStatus
<1>6. CASE ServeReply(s)
  BY <1>0, <1>6, ServerGoes DEF ServeReply
<1>7. CASE ServeBad(s)
  BY <1>0, <1>7, ServerGoes DEF ServeBad
<1>8. CASE ServeQuit(s)
  BY <1>0, <1>8, ServerGoes DEF ServeQuit
<1>9. ServerStep(s) => \/ ServerExit(s) \/ ServerForgotten(s) \/ LoadCommand(s) \/ LoadData(s) \/ Serve(s)
                       \/ ServeStatus(s) \/ ServeReply(s) \/ ServeBad(s) \/ ServeQuit(s)
  BY DEF ServerStep, ServerOkay, ServerLock, ServerBind, TellData, TellCommand, TellAnswered,
     TellGivesUp, TellReset, ServerStarted
<1> QED
  BY <1>1, <1>2, <1>3, <1>4, <1>5, <1>6, <1>7, <1>8, <1>9

\* What a server does that comes up.
LEMMA ComingSteps ==
  ASSUME Slow = FALSE, IInv, NEW s \in Server, ServerStep(s) \/ Kill(s),
         srv[s].pc \in {"okay", "lock", "bind", "hello1", "late1", "hello2", "late2", "hello3", "late3",
                        "started"}
  PROVE  /\ \A r \in Server \ {s} : srv'[r] = srv[r]
         /\ tool' = tool /\ done' = done
         /\ \/ srv'[s].pc = "over" /\ UNCHANGED <<command, data1>>
            \/ /\ SrvAt(s, "okay") /\ srv'[s].pc = "lock" /\ command' = "OKAY" /\ data1' = data1
            \/ /\ SrvAt(s, "lock") /\ srv'[s].pc \in {"bind", "late1"} /\ UNCHANGED <<command, data1>>
            \/ /\ SrvAt(s, "bind") /\ srv'[s].pc = "hello1" /\ UNCHANGED <<command, data1>>
            \/ /\ SrvAt(s, "hello1") /\ srv'[s].pc = "hello2"
               /\ data1' = "okay_started" /\ command' = command
            \/ /\ SrvAt(s, "late1") /\ srv'[s].pc = "late2"
               /\ data1' = "okay_running" /\ command' = command
            \/ /\ SrvAt(s, "hello2") /\ srv'[s].pc = "hello3" /\ command' = "COMMAND" /\ data1' = data1
            \/ /\ SrvAt(s, "late2") /\ srv'[s].pc = "late3" /\ command' = "COMMAND" /\ data1' = data1
            \/ /\ SrvAt(s, "hello3") /\ Answered /\ srv'[s].pc = "started" /\ UNCHANGED <<command, data1>>
            \/ /\ SrvAt(s, "late3") /\ Answered /\ srv'[s].pc = "exit2" /\ UNCHANGED <<command, data1>>
            \/ /\ SrvAt(s, "started") /\ srv'[s].pc = "load1" /\ command' = "DONESTARTUP" /\ data1' = data1
<1>0. TypeOK
  BY DEF IInv
<1> USE DEF SrvAt
<1>1. CASE Kill(s)
  BY <1>0, <1>1, ServerGoes DEF Kill
<1>2. CASE ServerOkay(s)
  BY <1>0, <1>2, ServerGoes DEF ServerOkay
<1>3. CASE ServerLock(s)
  BY <1>0, <1>3, ServerGoes DEF ServerLock
<1>4. CASE ServerBind(s)
  BY <1>0, <1>4, ServerGoes DEF ServerBind
<1>5. CASE TellData(s)
  BY <1>0, <1>5, ServerGoes DEF TellData
<1>6. CASE TellCommand(s)
  BY <1>0, <1>6, ServerGoes DEF TellCommand
<1>7. CASE TellAnswered(s)
  <2>1. SrvTo(s, "over") \/ (SrvAt(s, "hello3") /\ SrvTo(s, "started")) \/ (SrvAt(s, "late3") /\ SrvTo(s, "exit2"))
    BY <1>7 DEF TellAnswered
  <2> QED
    BY <1>0, <1>7, <2>1, ServerGoes DEF TellAnswered
<1>8. CASE ServerStarted(s)
  BY <1>0, <1>8, ServerGoes DEF ServerStarted
<1>9. ServerStep(s) => \/ ServerOkay(s) \/ ServerLock(s) \/ ServerBind(s) \/ TellData(s)
                       \/ TellCommand(s) \/ TellAnswered(s) \/ ServerStarted(s)
  BY DEF ServerStep, TellGivesUp, TellReset, ServerForgotten, LoadCommand, LoadData, Serve,
     ServeStatus, ServeReply, ServeBad, ServeQuit, ServerExit
<1> QED
  BY <1>1, <1>2, <1>3, <1>4, <1>5, <1>6, <1>7, <1>8, <1>9

\* A server that moves while nobody runs mrim.
LEMMA BetweenStep ==
  ASSUME Slow = FALSE, IInv, Between, NEW s \in Server, ServerStep(s) \/ Kill(s)
  PROVE  Between' /\ tool' = tool /\ done \subseteq done'
<1> USE DEF SrvAt
<1>1. CASE srv[s].pc \in {"none", "over", "exit2", "unlock", "load1", "load2"}
  <2>1. /\ \A r \in Server \ {s} : srv'[r] = srv[r]
        /\ tool' = tool /\ UNCHANGED <<command, data1, done>>
        /\ srv'[s].pc \in {"none", "over", "load1"}
    BY <1>1, SettledSteps DEF Between, LoadsHello
  <2> QED
    BY <2>1 DEF Between, LoadsHello, ServersIn, Answered
<1>2. CASE srv[s].pc \in {"hello3", "started", "late3"}
  <2>1. /\ \A r \in Server \ {s} : srv'[r] = srv[r]
        /\ tool' = tool /\ UNCHANGED <<data1, done>> /\ Answered'
        /\ srv'[s].pc \in {"over", "started", "exit2", "load1"}
    BY <1>2, ComingSteps DEF Between, Answered
  <2> QED
    BY <2>1 DEF Between, LoadsHello, ServersIn
<1> QED
  BY <1>1, <1>2 DEF Between, ServersIn

\* The manager that has been there when a start comes has nothing to do: at most
\* it loads what the server that comes up tells the original process.
LEMMA BystanderStep ==
  ASSUME IInv, LoadsHello, Answered \/ data1 \in Hello, NEW s \in Server, ServerStep(s) \/ Kill(s),
         srv[s].pc \in {"none", "over", "unlock", "load1", "load2"}
  PROVE  /\ \A r \in Server \ {s} : srv'[r] = srv[r]
         /\ UNCHANGED <<tool, command, data1, done>> /\ LoadsHello'
         /\ srv'[s].pc \in {"none", "over", "load1", "load2"}
<1> USE DEF SrvAt
<1>1. /\ \A r \in Server \ {s} : srv'[r] = srv[r]
      /\ tool' = tool /\ UNCHANGED <<command, data1, done>>
      /\ srv'[s].pc \in {"none", "over", "load1"} \/ (~Answered /\ srv'[s].pc = "load2")
  BY SettledSteps DEF LoadsHello
<1> QED
  BY <1>1 DEF LoadsHello

\* While a client runs
LEMMA CallingStep ==
  ASSUME IInv, NEW t \in Tool, Calling(t), NEW s \in Server, ServerStep(s) \/ Kill(s)
  PROVE  Calling(t)' /\ tool' = tool /\ done \subseteq done'
<1> USE DEF SrvAt, ToolAt
<1>0. srv[s].pc \in {"none", "over", "unlock", "load1", "load2", "serve", "reply"}
  BY DEF Calling, ServersIn
<1>a. /\ \A r \in Server \ {s} : srv'[r] = srv[r]
      /\ tool' = tool
  BY <1>0, SettledSteps
<1>1. CASE srv'[s].pc \in {"none", "over"}
  <2>1. UNCHANGED <<command, data1, done>> /\ (lock' = lock \/ lock' = Nobody)
    BY <1>0, <1>1, SettledSteps DEF Hello
  <2> QED
    BY <1>a, <1>1, <2>1 DEF Calling, LoadsHello, ServersIn, Answered, Asked, Idle
<1>2. CASE SrvAt(s, "load1") /\ srv'[s].pc \notin {"none", "over"}
  <2>1. ~Answered /\ srv'[s].pc = "load2" /\ UNCHANGED <<command, data1, lock, done>>
    BY <1>0, <1>2, SettledSteps
  <2> QED
    BY <1>a, <1>2, <2>1 DEF Calling, LoadsHello, ServersIn, Answered, Asked, Idle
<1>3. CASE SrvAt(s, "load2") /\ srv'[s].pc \notin {"none", "over"}
  <2>1. /\ srv'[s].data = data1 /\ srv'[s].pc = (IF data1 \in Hello THEN "load1" ELSE "serve")
        /\ UNCHANGED <<command, data1, lock, done>>
    BY <1>0, <1>3, SettledSteps
  <2> QED
    BY <1>a, <1>3, <2>1 DEF Calling, LoadsHello, ServersIn, Answered, Asked, Idle
<1>4. CASE srv[s].pc \in {"serve", "reply"} /\ srv'[s].pc \notin {"none", "over"}
  <2>1. /\ tool[t].pc \in {"send", "poll"} /\ data1 \in Asked(t)
        /\ SrvAt(s, "serve") => srv[s].data \in Asked(t)
        /\ SrvAt(s, "reply") => t \in done
        /\ ToolAt(t, "send") => Answered
        /\ ToolAt(t, "poll") => ~Answered
    <3>1. Resident(s)
      BY <1>4 DEF Resident, Established
    <3>2. lock # Nobody
      BY <3>1, ShmAssumption DEF IInv, OneResident
    <3> QED
      BY <1>4, <3>2 DEF Calling, ServersIn, Idle
  <2>2. \A r \in Server \ {s} : srv[r].pc \in {"none", "over"}
    BY <1>4 DEF IInv, OneResident, Resident, Established, Calling, ServersIn
  <2>3. CASE SrvAt(s, "reply")
    <3>1. srv'[s].pc = "load1" /\ command' = "DONE" /\ UNCHANGED <<data1, lock, done>>
      BY <1>0, <1>4, <2>3, SettledSteps
    <3> QED
      BY <1>a, <2>1, <2>2, <2>3, <3>1 DEF Calling, ServersIn, Answered, Asked, Idle
  <2>4. CASE SrvAt(s, "serve") /\ srv'[s].pc = "reply"
    <3>1. /\ srv[s].data \in {"start", "stop", "restart", "status"}
          /\ done' = done \cup Served(s)
          /\ data1' = (IF srv[s].data = "status" THEN "okay" ELSE data1)
          /\ UNCHANGED <<command, lock>>
      BY <1>0, <2>4, SettledSteps
    <3>2. srv[s].data = tool[t].ask
      BY <2>1, <2>4, <3>1 DEF Asked
    <3>3. t \in done'
      BY <2>1, <3>1, <3>2 DEF Served
    <3>4. data1' \in Asked(t)
      BY <2>1, <3>1, <3>2 DEF Asked
    <3> QED
      BY <1>a, <2>1, <2>2, <2>4, <3>1, <3>3, <3>4 DEF Calling, ServersIn, Answered, Asked, Idle
  <2>5. CASE SrvAt(s, "serve") /\ srv'[s].pc = "load1"
    <3>1. srv[s].data = "okay" /\ command' = "DONEBAD" /\ UNCHANGED <<data1, lock, done>>
      BY <1>0, <2>5, SettledSteps
    <3>2. tool[t].ask \in {"okay", "status"}
      BY <2>1, <2>5, <3>1 DEF Asked
    <3> QED
      BY <1>a, <2>1, <2>2, <2>5, <3>1, <3>2 DEF Calling, ServersIn, Answered, Asked, Idle
  <2>6. CASE SrvAt(s, "serve") /\ srv'[s].pc = "unlock"
    <3>1. srv[s].data = "quit" /\ command' = "DONE" /\ done \subseteq done' /\ UNCHANGED <<data1, lock>>
      BY <1>0, <2>6, SettledSteps
    <3>2. tool[t].ask = "quit"
      BY <2>1, <2>6, <3>1 DEF Asked
    <3> QED
      BY <1>a, <2>1, <2>2, <2>6, <3>1, <3>2 DEF Calling, ServersIn, Answered, Asked, Idle
  <2>7. SrvAt(s, "serve") => srv'[s].pc \in {"none", "over", "reply", "load1", "unlock"}
    BY <1>0, SettledSteps
  <2> QED
    BY <1>4, <2>3, <2>4, <2>5, <2>6, <2>7
<1>5. srv[s].pc \in {"none", "over", "unlock"} => srv'[s].pc \in {"none", "over"}
  BY <1>0, SettledSteps
<1> QED
  BY <1>0, <1>1, <1>2, <1>3, <1>4, <1>5

\* While a start has not forked
LEMMA StartingStep ==
  ASSUME IInv, NEW t \in Tool, Starting(t), NEW s \in Server, ServerStep(s) \/ Kill(s)
  PROVE  Starting(t)' /\ tool' = tool /\ done \subseteq done'
<1>1. srv[s].pc \in {"none", "over", "unlock", "load1", "load2"} /\ LoadsHello /\ Answered
  BY DEF Starting, ServersIn
<1>2. /\ \A r \in Server \ {s} : srv'[r] = srv[r]
      /\ UNCHANGED <<tool, command, data1, done>> /\ LoadsHello'
      /\ srv'[s].pc \in {"none", "over", "load1", "load2"}
  BY <1>1, BystanderStep
<1> QED
  BY <1>1, <1>2 DEF Starting, ServersIn, Answered

\* While its original process waits for it, a server comes up or finds the lock
\* taken; it is collected only by the original process.
LEMMA ForkedStep ==
  ASSUME Slow = FALSE, IInv, NEW t \in Tool, NEW k \in Server, k = tool[t].kid, ForkedOf(t, k),
         NEW s \in Server, ServerStep(s) \/ Kill(s)
  PROVE  ForkedOf(t, k)' /\ tool' = tool /\ done \subseteq done'
<1> USE DEF SrvAt, ToolAt
<1>1. /\ Words(srv[k].pc) /\ Found(tool[t].out, srv[k].pc) /\ LoadsHello
      /\ Answered \/ data1 \in Hello
      /\ srv[k].pc \in {"okay", "lock", "bind", "hello1", "late1", "hello2", "late2", "hello3", "late3",
                        "started", "load1", "exit2", "over", "none"}
  BY DEF ForkedOf, Words, Answered, Hello
<1>2. CASE s # k
  <2>1. srv[s].pc \in {"none", "over", "unlock", "load1", "load2"}
    BY <1>2 DEF ForkedOf
  <2>2. /\ \A r \in Server \ {s} : srv'[r] = srv[r]
        /\ UNCHANGED <<tool, command, data1, done>> /\ LoadsHello'
        /\ srv'[s].pc \in {"none", "over", "load1", "load2"}
    BY <1>1, <2>1, BystanderStep
  <2> QED
    BY <1>2, <2>2 DEF ForkedOf, Words, Answered
<1>3. CASE s = k /\ srv[k].pc \in {"load1", "exit2", "over", "none"}
  <2>1. ~ServerForgotten(s)
    BY <1>3 DEF ServerForgotten, ParentOver, ForkedOf
  <2>2. srv[k].pc \in {"load1"} /\ Kill(s)
    BY <1>1, <1>3, <2>1 DEF Words, Answered, Kill, ServerStep, ServerOkay, ServerLock, ServerBind, TellData,
       TellCommand, TellAnswered, TellGivesUp, TellReset, ServerStarted, LoadCommand, LoadData, Serve,
       ServeReply, ServeStatus, ServeBad, ServeQuit, ServerExit
  <2>3. /\ \A r \in Server \ {s} : srv'[r] = srv[r]
        /\ srv'[s].pc = "over" /\ UNCHANGED <<tool, command, data1, done>>
    BY <2>2, ServerGoes DEF Kill, IInv
  <2> QED
    BY <1>1, <1>3, <2>2, <2>3 DEF ForkedOf, Words, Found, LoadsHello, Answered
<1>4. CASE s = k /\ srv[k].pc \in {"okay", "lock", "bind", "hello1", "late1", "hello2", "late2", "hello3",
                                   "late3", "started"}
  <2>1. /\ \A r \in Server \ {s} : srv'[r] = srv[r]
        /\ tool' = tool /\ done' = done
    BY <1>4, ComingSteps
  <2>2. Found(tool[t].out, srv'[k].pc)
    BY <1>1, <1>4, ComingSteps DEF Found
  <2>3. /\ Words(srv[k].pc)' /\ srv'[k].pc # "none" /\ srv'[k].pc # "load2"
    <3>1. CASE srv'[k].pc = "over"
      <4>1. UNCHANGED <<command, data1>>
        BY <1>4, <3>1, ComingSteps
      <4> QED
        BY <1>1, <3>1, <4>1 DEF Words, Answered, Hello
    <3>2. CASE srv[k].pc \in {"okay", "lock", "bind"} /\ srv'[k].pc # "over"
      <4>1. /\ srv'[k].pc \in {"lock", "bind", "hello1", "late1"}
            /\ command' \in {command, "OKAY"}
        BY <1>4, <3>2, ComingSteps
      <4> QED
        BY <1>1, <3>2, <4>1 DEF Words
    <3>3. CASE srv[k].pc \in {"hello1", "late1"} /\ srv'[k].pc # "over"
      <4>1. /\ SrvAt(k, "hello1") => srv'[k].pc = "hello2" /\ data1' = "okay_started"
            /\ SrvAt(k, "late1") => srv'[k].pc = "late2" /\ data1' = "okay_running"
            /\ command' = command
        BY <1>4, <3>3, ComingSteps
      <4> QED
        BY <1>1, <3>3, <4>1 DEF Words
    <3>4. CASE srv[k].pc \in {"hello2", "late2"} /\ srv'[k].pc # "over"
      <4>1. /\ SrvAt(k, "hello2") => srv'[k].pc = "hello3"
            /\ SrvAt(k, "late2") => srv'[k].pc = "late3"
            /\ command' = "COMMAND" /\ data1' = data1
        BY <1>4, <3>4, ComingSteps
      <4> QED
        BY <1>1, <3>4, <4>1 DEF Words
    <3>5. CASE srv[k].pc \in {"hello3", "late3", "started"} /\ srv'[k].pc # "over"
      <4>1. /\ SrvAt(k, "hello3") => srv'[k].pc = "started" /\ Answered /\ command' = command
            /\ SrvAt(k, "late3") => srv'[k].pc = "exit2" /\ Answered /\ command' = command
            /\ SrvAt(k, "started") => srv'[k].pc = "load1" /\ command' = "DONESTARTUP"
            /\ data1' = data1
        BY <1>4, <3>5, ComingSteps
      <4> QED
        BY <1>1, <3>5, <4>1 DEF Words, Answered
    <3> QED
      BY <1>4, <3>1, <3>2, <3>3, <3>4, <3>5
  <2>4. data1 \in Hello => data1' \in Hello
    BY <1>4, ComingSteps DEF Hello
  <2>5. LoadsHello'
    BY <1>1, <1>4, <2>1, <2>3, <2>4 DEF LoadsHello
  <2>6. ToolAt(t, "load") => ~Answered'
    BY <1>1, <1>4, ComingSteps DEF ForkedOf, Answered, Words
  <2> QED
    BY <1>1, <1>4, <2>1, <2>2, <2>3, <2>5, <2>6 DEF ForkedOf
<1> QED
  BY <1>1, <1>2, <1>3, <1>4

\* The steps of the servers keep the invariant.
LEMMA ServerAdmin ==
  ASSUME Slow = FALSE, IInv, AdminInv, NEW s \in Server, ServerStep(s) \/ Kill(s)
  PROVE  AdminInv'
<1>1. CASE \A t \in Tool : Rests(t)
  <2>1. Between' /\ tool' = tool /\ done \subseteq done'
    BY <1>1, BetweenStep DEF AdminInv
  <2> QED
    BY <1>1, <2>1, ServersKeep
<1>2. ASSUME NEW t \in Tool, ~Rests(t)
      PROVE  AdminInv'
  <2>1. \A u \in Tool : ~Rests(u) => u = t
    BY <1>2 DEF AdminInv
  <2>2. (Calling(t) \/ Starting(t) \/ Forked(t))' /\ tool' = tool /\ done \subseteq done'
    <3>1. CASE Calling(t)
      BY <3>1, CallingStep
    <3>2. CASE Starting(t)
      BY <3>2, StartingStep
    <3>3. CASE Forked(t)
      <4>1. PICK k \in Server : k = tool[t].kid /\ ForkedOf(t, k)
        BY <3>3 DEF Forked, ForkedOf
      <4>2. ForkedOf(t, k)' /\ tool' = tool /\ done \subseteq done'
        BY <4>1, ForkedStep
      <4> QED
        BY <4>1, <4>2 DEF Forked
    <3> QED
      BY <1>2, <3>1, <3>2, <3>3 DEF AdminInv
  <2> QED
    BY <1>2, <2>1, <2>2, ServersKeep
<1> QED
  BY <1>1, <1>2

\* The memory as an earlier run left it holds no command.
LEMMA InitAdmin == Init => AdminInv
BY DEF Init, AdminInv, ReplyMeansDone, Rests, Between, Answered, LoadsHello, ServersIn, SrvAt, ToolAt

\* Every step keeps the invariant.
LEMMA NextAdmin ==
  ASSUME Admin = "waits", Slow = FALSE
  PROVE  IInv /\ AdminInv /\ [Next]_vars => AdminInv'
<1> SUFFICES ASSUME IInv, AdminInv, [Next]_vars PROVE AdminInv'
  OBVIOUS
<1>1. CASE UNCHANGED vars
  BY <1>1 DEF vars, AdminInv, ReplyMeansDone, Rests, Between, Calling, Starting, Forked, ForkedOf, Words,
     Found, Answered, LoadsHello, ServersIn, Asked, Idle, SrvAt, ToolAt
<1> QED
  BY <1>1, InvokeAdmin, ClientAdmin, StarterAdmin, ServerAdmin DEF Next

\* With one administrator who waits for the manager it always holds.
LEMMA AdminInvariance ==
  ASSUME Admin = "waits", Slow = FALSE
  PROVE  Spec => []AdminInv
BY InitInv, NextInv, InitAdmin, NextAdmin, PTL DEF Spec

\* A start, stop or restart that the client reports as a success was carried out
\* (cli_getshm), for one administrator who waits until the manager is in its
\* loop, whatever is killed: any number of invocations after each other.
THEOREM SuccessMeansDone ==
  ASSUME Admin = "waits", Slow = FALSE
  PROVE  Spec => []ReplyMeansDone
<1>1. AdminInv => ReplyMeansDone
  BY DEF AdminInv
<1> QED
  BY <1>1, AdminInvariance, PTL

\* Under the same assumptions the exit code of a start (whatisprocess and
\* checkshm(false) in main) tells whether its server became the manager.
THEOREM ExitIsTold ==
  ASSUME Admin = "waits", Slow = FALSE
  PROVE  Spec => []ExitTellsStart
<1>1. AdminInv => ExitTellsStart
  <2> SUFFICES ASSUME AdminInv, NEW t \in Tool, tool[t].pc = "check"
               PROVE  /\ tool[t].out = "started" =>
                           srv[tool[t].kid].pc \notin {"late1", "late2", "late3", "latereset", "exit2"}
                      /\ tool[t].out = "running" => ~Resident(tool[t].kid)
    BY DEF ExitTellsStart
  <2>1. ForkedOf(t, tool[t].kid)
    BY DEF AdminInv, Rests, Calling, Starting, Forked
  <2> QED
    BY <2>1 DEF ForkedOf, Found, Resident, Established
<1> QED
  BY <1>1, AdminInvariance, PTL

\* And no command is left in shared memory when nobody waits for its answer:
\* cli_getshm takes back what nobody answered, and a start answers its server
\* even if that was killed.
THEOREM NothingStays ==
  ASSUME Admin = "waits", Slow = FALSE
  PROVE  Spec => []NothingPending
<1>1. AdminInv => NothingPending
  BY DEF AdminInv, NothingPending, Busy, Rests, Between
<1> QED
  BY <1>1, AdminInvariance, PTL

=============================================================================
