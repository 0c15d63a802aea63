------------------------------- MODULE RimCli --------------------------------
(***************************************************************************)
(* The client of src/rcli.c: call-remote makes one FastCGI call per        *)
(* thread and waits for all of them. A call connects, sends its request    *)
(* and reads records until the one that ends the request. It looks at the  *)
(* time after connecting and after an operation on the socket that did not *)
(* do all it was asked for, never after one that did.                      *)
(*                                                                         *)
(* The server is external: it sends any records, any part of one, closes   *)
(* the connection at any time or stays silent. An interrupted operation is *)
(* tried again; that a closed connection is not found out while errno is   *)
(* EINTR from before is left out, and so is the time of the name lookup.   *)
(***************************************************************************)
EXTENDS Integers, Sequences, FiniteSets

CONSTANTS
  MaxCalls,     \* calls of a call-remote
  CliParts,     \* writes a request is sent with
  CliRecords,   \* the records a server sends
  CliMaxRecords \* bound on their number

\* "busy" and "short" are end records: with another status, with another length.
Streams == {"stdout", "stderr"}
RecordTypes == Streams \cup {"end", "busy", "short", "unknown", "other"}
Records == [type : RecordTypes, content : BOOLEAN, padding : BOOLEAN]
NoRecord == [type |-> "other", content |-> FALSE, padding |-> FALSE]

ASSUME CliAssumption ==
  /\ MaxCalls \in Nat \ {0} /\ CliParts \in Nat \ {0} /\ CliMaxRecords \in Nat
  /\ CliRecords \subseteq Records

Calls == 1 .. MaxCalls

VARIABLES
  cPhase,        \* where rim_cli_request() of each call is
  cTimed, cLate, \* the call has a timeout; it has passed
  cSent,         \* how many writes were done
  cRecord,       \* the header read last
  cReadDone,     \* read_done
  cData,         \* what was read into data and error, in its order
  cResult,       \* return_code; "FAILED" stands for every code but two
  sData, sEnded, \* external: what the server sent, whether it ended well
  sRecords,      \* how many records it sent
  rPhase, rNext, \* where rim_call_fcgi() is, and at which call
  rStarted, rOkay, rStatus  \* started, finokay and the status it returns

cCall == <<cPhase, cSent, cRecord, cReadDone, cData, cResult>>
cServer == <<sData, sEnded, sRecords>>
cTime == <<cTimed, cLate>>
cRun == <<rPhase, rNext, rStarted, rOkay, rStatus>>
cliVars == <<cCall, cServer, cTime, cRun>>

-----------------------------------------------------------------------------
(* The end of a call.                                                      *)

Late(c) == cTimed[c] /\ cLate[c]

\* RIM_CLI_RET; what is local to the call ends with it.
Return(c, rc) ==
  /\ cPhase' = [cPhase EXCEPT ![c] = "done"]
  /\ cResult' = [cResult EXCEPT ![c] = rc]
  /\ cSent' = [cSent EXCEPT ![c] = 0]
  /\ cRecord' = [cRecord EXCEPT ![c] = NoRecord]
  /\ cReadDone' = [cReadDone EXCEPT ![c] = FALSE]

\* An operation that was not done in whole finds the time up: it failed, did a
\* part, or blocked for as long as rim_set_timeout() lets the socket.
TimesOut(c) ==
  /\ Late(c) /\ cPhase[c] \in {"connect", "send", "header", "message", "padding"}
  /\ Return(c, "TIMEOUT")
  /\ UNCHANGED <<cData, cServer, cTime, cRun>>

\* The clock
TimeUp(c) ==
  /\ cTimed[c] /\ ~cLate[c]
  /\ cLate' = [cLate EXCEPT ![c] = TRUE]
  /\ UNCHANGED <<cTimed, cCall, cServer, cRun>>

-----------------------------------------------------------------------------
(* Connecting and sending.                                                 *)

Connect(c) ==
  /\ cPhase[c] = "connect"
  /\ cPhase' = [cPhase EXCEPT ![c] = "send"]
  /\ UNCHANGED <<cSent, cRecord, cReadDone, cData, cResult, cServer, cTime, cRun>>

\* The address is not found, the path is too long, there is no socket, or the
\* server does not accept.
ConnectFails(c) ==
  /\ cPhase[c] = "connect" /\ ~Late(c)
  /\ Return(c, "FAILED")
  /\ UNCHANGED <<cData, cServer, cTime, cRun>>

\* One rim_write_socket(); the reply is read after the last one.
Send(c) ==
  /\ cPhase[c] = "send"
  /\ cSent' = [cSent EXCEPT ![c] = (@ + 1) % CliParts]
  /\ cPhase' = [cPhase EXCEPT ![c] = IF cSent[c] + 1 = CliParts THEN "header" ELSE @]
  /\ UNCHANGED <<cRecord, cReadDone, cData, cResult, cServer, cTime, cRun>>

\* A write fails; or, after the first one, the environment is odd or too long.
SendFails(c) ==
  /\ cPhase[c] = "send"
  /\ ~Late(c) \/ cSent[c] = 1
  /\ Return(c, "FAILED")
  /\ UNCHANGED <<cData, cServer, cTime, cRun>>

-----------------------------------------------------------------------------
(* Reading the reply: fc_server_read().                                    *)

\* Mutant: a connection closed between two records ends the reply.
ClosedIsEnd(c) == IF cPhase[c] = "header" THEN "OKAY" ELSE "FAILED"
\* check_read() of a connection that the server closed
ClosedStatus(c) ==
  IF cPhase[c] # "header" \/ ~cReadDone[c] THEN "FAILED" ELSE "OKAY"

ReadFails(c) ==
  /\ cPhase[c] \in {"header", "message", "padding"} /\ ~Late(c)
  /\ Return(c, "FAILED") \/ Return(c, ClosedStatus(c))
  /\ UNCHANGED <<cData, cServer, cTime, cRun>>

\* Where the call goes on when the content of a record was read, or its padding.
Onward(r, readDone, padded) ==
  IF r.padding /\ ~padded THEN "padding" ELSE IF readDone THEN "done" ELSE "header"

\* Past the content; the reply is done behind the padding of its end.
Proceed(c, r, readDone, padded) ==
  IF Onward(r, readDone, padded) = "done" THEN Return(c, "OKAY")
  ELSE /\ cPhase' = [cPhase EXCEPT ![c] = Onward(r, readDone, padded)]
       /\ cRecord' = [cRecord EXCEPT ![c] = IF cPhase'[c] = "header" THEN NoRecord ELSE r]
       /\ cReadDone' = [cReadDone EXCEPT ![c] = readDone]
       /\ UNCHANGED <<cResult, cSent>>

\* A header; one without content is followed by its padding. The call fails
\* without memory for the content, and with an unknown type.
ReadHeader(c, r) ==
  /\ cPhase[c] = "header" /\ sRecords[c] < CliMaxRecords
  /\ sRecords' = [sRecords EXCEPT ![c] = @ + 1]
  /\ sData' = IF r.type \in Streams /\ r.content
              THEN [sData EXCEPT ![c] = Append(@, r.type)] ELSE sData
  /\ sEnded' = [sEnded EXCEPT ![c] = @ \/ (r.type = "end" /\ r.content)]
  /\ \/ Return(c, "FAILED")
     \/ /\ r.content
        /\ cPhase' = [cPhase EXCEPT ![c] = "message"]
        /\ cRecord' = [cRecord EXCEPT ![c] = r]
        /\ UNCHANGED <<cResult, cSent, cReadDone>>
     \/ /\ ~r.content /\ r.type # "unknown"
        /\ Proceed(c, r, cReadDone[c], FALSE)
  /\ UNCHANGED <<cData, cTime, cRun>>

\* A header of another version or of another request
ReadBadHeader(c) ==
  /\ cPhase[c] = "header"
  /\ Return(c, "FAILED")
  /\ UNCHANGED <<cData, cServer, cTime, cRun>>

\* Mutant: every record of the end type ends the reply well.
EndsForAll(type) == type \in {"end", "busy", "short"}
EndsWell(type) == type = "end"

\* All of the content
ReadContent(c) ==
  LET r == cRecord[c] IN
  /\ cPhase[c] = "message"
  /\ cData' = IF r.type \in Streams THEN [cData EXCEPT ![c] = Append(@, r.type)] ELSE cData
  /\ IF EndsWell(r.type) \/ r.type \in Streams \cup {"other"}
     THEN Proceed(c, r, EndsWell(r.type), FALSE)
     ELSE Return(c, "FAILED")
  /\ UNCHANGED <<cServer, cTime, cRun>>

ReadPadding(c) ==
  /\ cPhase[c] = "padding"
  /\ Proceed(c, cRecord[c], cReadDone[c], TRUE)
  /\ UNCHANGED <<cData, cServer, cTime, cRun>>

-----------------------------------------------------------------------------
(* call-remote: rim_call_fcgi().                                           *)

\* pthread_create(), or the call itself if it is the only one
StartCall ==
  /\ rPhase = "start"
  /\ cPhase' = [cPhase EXCEPT ![rNext] = "connect"]
  /\ rStarted' = rStarted + 1
  /\ UNCHANGED <<rOkay, rStatus, cSent, cRecord, cReadDone, cData, cResult, cServer, cTime>>

\* pthread_create() fails: invalid_thread
StartFails ==
  /\ rPhase = "start" /\ MaxCalls > 1
  /\ cPhase' = [cPhase EXCEPT ![rNext] = "invalid"]
  /\ UNCHANGED <<rStarted, rOkay, rStatus, cSent, cRecord, cReadDone, cData, cResult, cServer, cTime>>

StartNext ==
  /\ StartCall \/ StartFails
  /\ rNext' = IF rNext = MaxCalls THEN 1 ELSE rNext + 1
  /\ rPhase' = IF rNext = MaxCalls THEN "join" ELSE "start"

\* Mutant: threads that did not start are waited for, too.
JoinableAll(c) == cPhase[c] = "done"
\* pthread_join() returns, or there is no thread to wait for.
Joinable(c) == cPhase[c] \in {"done", "invalid"}

JoinNext ==
  LET okay == IF cResult[rNext] = "OKAY" THEN rOkay + 1 ELSE rOkay IN
  /\ rPhase = "join" /\ Joinable(rNext)
  /\ rOkay' = okay
  /\ IF rNext = MaxCalls
     THEN /\ rPhase' = "done"
          /\ rStatus' = IF rStarted = MaxCalls /\ okay = MaxCalls THEN "OKAY" ELSE "ERR_FAILED"
          /\ UNCHANGED rNext
     ELSE rNext' = rNext + 1 /\ UNCHANGED <<rPhase, rStatus>>
  /\ UNCHANGED <<rStarted, cCall, cServer, cTime>>

\* The program goes on, or ends.
CliDone == rPhase = "done" /\ UNCHANGED cliVars

CliInit ==
  /\ cPhase = [c \in Calls |-> "new"]
  /\ cTimed \in [Calls -> BOOLEAN] /\ cLate = [c \in Calls |-> FALSE]
  /\ cSent = [c \in Calls |-> 0] /\ cRecord = [c \in Calls |-> NoRecord]
  /\ cReadDone = [c \in Calls |-> FALSE]
  /\ cData = [c \in Calls |-> <<>>] /\ cResult = [c \in Calls |-> "none"]
  /\ sData = [c \in Calls |-> <<>>] /\ sEnded = [c \in Calls |-> FALSE]
  /\ sRecords = [c \in Calls |-> 0]
  /\ rPhase = "start" /\ rNext = 1
  /\ rStarted = 0 /\ rOkay = 0 /\ rStatus = "none"

\* An operation on the socket returns, and with it what the call does then.
Operation(c) ==
  \/ TimesOut(c)
  \/ Connect(c) \/ ConnectFails(c) \/ Send(c) \/ SendFails(c)
  \/ \E r \in CliRecords : ReadHeader(c, r)
  \/ ReadBadHeader(c) \/ ReadContent(c) \/ ReadPadding(c) \/ ReadFails(c)

CallStep(c) == TimeUp(c) \/ Operation(c)

CliNext ==
  \/ \E c \in Calls : CallStep(c)
  \/ StartNext \/ JoinNext \/ CliDone

CliSpec == CliInit /\ [][CliNext]_cliVars

\* Threads run, time passes, and no operation blocks for longer than the socket
\* has been given: it returns, with all or a part of what the server sends, an
\* error or nothing. Which of these is not said, and nothing of the server.
OperationReturns(c) == Late(c) /\ Operation(c)

CliFairness ==
  /\ WF_cliVars(StartNext) /\ WF_cliVars(JoinNext)
  /\ \A c \in Calls : WF_cliVars(TimeUp(c)) /\ WF_cliVars(OperationReturns(c))

CliFairSpec == CliSpec /\ CliFairness

-----------------------------------------------------------------------------
(* Properties.                                                             *)

OkayCalls == {c \in Calls : cResult[c] = "OKAY"}

\* A call is only told to be all right if the server ended the request, and then
\* all it sent was read, in its order; it is told to be late only if it had a
\* timeout that passed. call-remote counts the calls that started and those
\* that ended well, and comes back when none of them is running.
CallTellsTruth ==
  /\ \A c \in Calls :
       /\ cResult[c] = "OKAY" => sEnded[c] /\ cData[c] = sData[c]
       /\ cResult[c] = "TIMEOUT" => Late(c)
  /\ rPhase = "done" =>
       /\ \A c \in Calls : cPhase[c] \in {"done", "invalid"}
       /\ rStarted = Cardinality({c \in Calls : cPhase[c] = "done"})
       /\ rOkay = Cardinality(OkayCalls)
       /\ rStatus = "OKAY" <=> OkayCalls = Calls

\* call-remote comes back if its calls have timeouts and no server sends whole
\* records for ever (they send CliMaxRecords at most): wherever one falls silent
\* or breaks off, whatever part it sent, and whichever threads do not start. The
\* condition is needed, for the time is not looked at after an operation that
\* was done in whole: a server that goes on sending keeps a call past its timeout.
CallEnds == (\A c \in Calls : cTimed[c]) /\ rPhase = "start" ~> rPhase = "done"

=============================================================================
