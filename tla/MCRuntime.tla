----------------------------- MODULE MCRuntime ------------------------------
(* The objects a program uses: a hash, a fifo or lifo, a list, a tree, an  *)
(* array, messages, the calls of a call-remote, a JSON text, and the output *)
(* of its requests. They share nothing, so each is checked alone: a behaviour     *)
(* uses one and leaves the others new.                                     *)
EXTENDS RimHash, RimFifo, RimList, RimTree, RimArr, RimMsg, RimCli,
        RimJson, RimOutput

CONSTANTS
  Objects,       \* the objects a run looks at
  Key1, Key2, Key3, Long, Short, Note

\* Key1 and Key2 fall into one of two buckets, Key3 into the other.
Hashes == (Key1 :> 0) @@ (Key2 :> 0) @@ (Key3 :> 1)

\* The long pair alone takes more than the memory grows by.
Lengths == (Long :> 12) @@ (Short :> 0) @@ (Note :> 2)

\* Both streams, with and without padding and content; good and bad ends.
Record(t, content, padding) == [type |-> t, content |-> content, padding |-> padding]
Reply ==
  {Record("stdout", TRUE, TRUE), Record("stderr", TRUE, FALSE),
   Record("stdout", FALSE, FALSE), Record("end", TRUE, TRUE),
   Record("end", TRUE, FALSE), Record("busy", TRUE, FALSE),
   Record("short", TRUE, FALSE), Record("unknown", FALSE, FALSE)}

VARIABLE object   \* the one in use

runtimeVars ==
  <<object, hashVars, fifoVars, listVars, treeVars, arrVars, msgVars, cliVars,
    jsonVars, outVars>>

\* What a new object can be is only told apart when it is used.
RuntimeInit ==
  /\ object \in Objects
  /\ HashInit /\ (object # "hash" => DOMAIN hTable = {0})
  /\ FifoInit /\ (object # "fifo" => fKind = "fifo")
  /\ ListInit
  /\ TreeInit /\ (object # "tree" => tSorted)
  /\ ArrInit /\ (object # "array" => aMax = ArrDefaultMax)
  /\ MsgInit
  /\ CliInit /\ (object # "call" => cTimed = [c \in Calls |-> FALSE])
  /\ JsonInit
  /\ OutInit

OthersUnchanged ==
  /\ UNCHANGED object
  /\ object # "hash" => UNCHANGED hashVars
  /\ object # "fifo" => UNCHANGED fifoVars
  /\ object # "list" => UNCHANGED listVars
  /\ object # "tree" => UNCHANGED treeVars
  /\ object # "array" => UNCHANGED arrVars
  /\ object # "message" => UNCHANGED msgVars
  /\ object # "call" => UNCHANGED cliVars
  /\ object # "json" => UNCHANGED jsonVars
  /\ object # "output" => UNCHANGED outVars

RuntimeNext ==
  \/ object = "hash" /\ HashNext /\ OthersUnchanged
  \/ object = "fifo" /\ FifoNext /\ OthersUnchanged
  \/ object = "list" /\ ListNext /\ OthersUnchanged
  \/ object = "tree" /\ TreeNext /\ OthersUnchanged
  \/ object = "array" /\ ArrNext /\ OthersUnchanged
  \/ object = "message" /\ MsgNext /\ OthersUnchanged
  \/ object = "call" /\ CliNext /\ OthersUnchanged
  \/ object = "json" /\ JsonNext /\ OthersUnchanged
  \/ object = "output" /\ OutNext /\ OthersUnchanged

RuntimeFairness ==
  /\ WF_cliVars(object = "call" /\ StartNext)
  /\ WF_cliVars(object = "call" /\ JoinNext)
  /\ \A c \in Calls : WF_cliVars(TimeUp(c)) /\ WF_cliVars(OperationReturns(c))

RuntimeSpec == RuntimeInit /\ [][RuntimeNext]_runtimeVars /\ RuntimeFairness
=============================================================================
