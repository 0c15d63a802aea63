----------------------------- MODULE MrimWorkers -----------------------------
(***************************************************************************)
(* The worker processes of one resident process manager, src/mrim.c: the   *)
(* table plist[], the two loops that fill it (start-up and processup), the *)
(* ways it is emptied (handlestop), the adaptive mode that grows and       *)
(* shrinks it with the load, and the restart of workers whose executable   *)
(* changed. Commands arrive one at a time; how they travel is MrimShm.     *)
(*                                                                         *)
(* Around the manager, at any moment: a worker executes its program, takes *)
(* and finishes requests, or dies; the executable is removed and installed *)
(* again. A worker that was sent SIGTERM has left the table and is not     *)
(* followed further.                                                       *)
(***************************************************************************)
EXTENDS Integers, FiniteSets

CONSTANTS
  MaxWorker,    \* num_process: the length of plist[]
  MinWorker,    \* num_to_start_min in adaptive mode
  Modes,        \* the modes to start in: TRUE is option -d, FALSE option -w
  NoRestart,    \* dnr, option -n
  Spike,        \* turns without load before a worker is stopped, from -t and -s
  MaxDeath, MaxBuild, MaxCommand  \* bounds on what happens around the manager

\* What main() enforces on the options, mrim.c:1098-1107.
ASSUME PoolAssumption ==
  /\ MaxWorker \in Nat \ {0}
  /\ MinWorker \in 0 .. MaxWorker
  /\ Modes \subseteq BOOLEAN /\ NoRestart \in BOOLEAN
  /\ TRUE \in Modes => MinWorker < MaxWorker /\ ~NoRestart
  /\ Spike \in Nat \ {0}
  /\ MaxDeath \in Nat /\ MaxBuild \in Nat \ {0} /\ MaxCommand \in Nat

VARIABLES
  adaptive,   \* option -d, fixed when the manager starts
  plist,      \* the table of workers
  commtime,   \* the build of the executable start_child() saw last, 0: none
  tempNoRestart, \* temp_no_restart
  nspike,     \* turns of the loop without load
  pc,         \* where the manager stands
  scan,       \* the variables of processup()
  request,    \* the command in shared memory, or "none"
  exe,        \* the executable: is it there, and which build
  waiting,    \* connections on the listening socket nobody accepted, 0 or 1
  epoch,      \* history: how many restarts were asked for
  deaths, commands  \* history: what MaxDeath and MaxCommand bound

manager == <<commtime, tempNoRestart, nspike, pc, scan, epoch>>
around == <<exe, waiting, deaths, commands, adaptive>>
vars == <<plist, manager, request, around>>

Slot == 0 .. MaxWorker - 1
Command == {"start", "stop", "restart", "quit"}
NoWorker == [state |-> "none", build |-> 0, epoch |-> 0]
Worker == [state : {"none", "forked", "idle", "busy", "dead"},
           build : 0 .. MaxBuild, epoch : 0 .. MaxCommand]

\* num_to_start_min: all workers in fixed mode
Least == IF adaptive THEN MinWorker ELSE MaxWorker

-----------------------------------------------------------------------------
(* The functions on the table. A worker dies on its own, so what           *)
(* whatisprocess() says of several workers is a snapshot.                  *)

\* plist[i] # -1
Taken(i) == plist[i].state # "none"
\* whatisprocess(plist[i]) # -1
Alive(i) == plist[i].state \in {"forked", "idle", "busy"}
Running == {i \in Slot : Alive(i)}

\* totprocess() returns Cardinality(Running) and leaves this table.
Counted == [i \in Slot |-> IF Alive(i) THEN plist[i] ELSE NoWorker]

\* handlestop(RIM_STOPONE): the first worker in the table, running or dead.
StopOne ==
  plist' = [i \in Slot |-> IF Taken(i) /\ \A j \in Slot : Taken(j) => i <= j
                           THEN NoWorker ELSE plist[i]]

\* Mutant: the loop of handlestop() ends at its first worker for any signal.
StopAllFirst == StopOne

\* handlestop(RIM_STOP) and handlestop(RIM_QUIT)
StopAll == plist' = [i \in Slot |-> NoWorker]

\* start_child(): without an executable the slot stays empty.
Start(i) ==
  IF exe.there
  THEN /\ plist' = [plist EXCEPT ![i] = [state |-> "forked", build |-> 0, epoch |-> epoch]]
       /\ commtime' = exe.build
  ELSE /\ plist' = [plist EXCEPT ![i] = NoWorker]
       /\ UNCHANGED commtime

\* Entering processup(addone); from there the loop goes on at "next".
ProcessUp(addone, next, tot) ==
  /\ pc' = "scan"
  /\ scan' = [i |-> 0, tot |-> tot, addone |-> addone, next |-> next]

-----------------------------------------------------------------------------
(* The manager.                                                            *)

\* Start-up: the first slots, as many as the minimum, in order.
StartFirst ==
  /\ pc = "init"
  /\ IF scan.i < Least
     THEN /\ Start(scan.i)
          /\ scan' = [scan EXCEPT !.i = @ + 1]
          /\ UNCHANGED pc
     ELSE pc' = "top" /\ UNCHANGED <<plist, commtime, scan>>
  /\ UNCHANGED <<tempNoRestart, nspike, epoch, request, around>>

Adapts == adaptive /\ tempNoRestart = 0

\* Three looks at the listening socket, with a sleep between them.
Look ==
  /\ \/ /\ pc = "top" /\ Adapts
        /\ IF waiting > 0 THEN pc' = "more2" /\ nspike' = 0
                          ELSE pc' = "less2" /\ UNCHANGED nspike
     \/ /\ pc = "top" /\ ~Adapts
        /\ pc' = "mod" /\ UNCHANGED nspike
     \/ /\ pc = "more2"
        /\ pc' = IF waiting > 0 THEN "more3" ELSE "keep"
        /\ UNCHANGED nspike
     \/ /\ pc = "less2"
        /\ pc' = IF waiting = 0 THEN "less3" ELSE "keep"
        /\ UNCHANGED nspike
  /\ UNCHANGED <<plist, commtime, tempNoRestart, scan, epoch, request, around>>

MayGrow == Cardinality(Running) < MaxWorker - 1

\* The third look finds the connection still waiting: one worker more.
Grow ==
  /\ pc = "more3"
  /\ IF waiting > 0
     THEN /\ plist' = Counted
          /\ IF MayGrow THEN ProcessUp(TRUE, "keep", Cardinality(Running))
                        ELSE pc' = "keep" /\ UNCHANGED scan
     ELSE pc' = "keep" /\ UNCHANGED <<plist, scan>>
  /\ UNCHANGED <<commtime, tempNoRestart, nspike, epoch, request, around>>

\* Mutant: one worker above the minimum is kept.
MayShrinkLess == Cardinality(Running) > Least + 1
MayShrink == Cardinality(Running) > Least

QuietTurns == IF nspike + 1 >= Spike THEN 0 ELSE nspike + 1

\* The third look finds nothing waiting: after Spike such turns, one less.
Quiet ==
  /\ pc = "less3"
  /\ IF waiting = 0
     THEN /\ nspike' = QuietTurns
          /\ IF nspike + 1 >= Spike
             THEN plist' = Counted /\ pc' = IF MayShrink THEN "shrink" ELSE "keep"
             ELSE UNCHANGED plist /\ pc' = "keep"
     ELSE UNCHANGED <<nspike, plist>> /\ pc' = "keep"
  /\ UNCHANGED <<commtime, tempNoRestart, scan, epoch, request, around>>

Shrink ==
  /\ pc = "shrink"
  /\ StopOne
  /\ pc' = "keep"
  /\ UNCHANGED <<commtime, tempNoRestart, nspike, scan, epoch, request, around>>

\* processup(0) at the end of the adaptive branch
Keep ==
  /\ pc = "keep"
  /\ plist' = Counted
  /\ ProcessUp(FALSE, "mod", Cardinality(Running))
  /\ UNCHANGED <<commtime, tempNoRestart, nspike, epoch, request, around>>

\* Mutants: no worker added for the load; a minimum too low by one.
WantedMinimum == ~adaptive \/ Least > scan.tot
WantedLess == ~adaptive \/ Least > scan.tot + 1 \/ scan.addone
Wanted == ~adaptive \/ Least > scan.tot \/ scan.addone
Open(i) == ~Alive(i)

\* One turn of the loop of processup(): a slot that is empty, or whose worker
\* is found dead, gets a worker if the mode wants one more.
ScanSlot ==
  /\ pc = "scan" /\ scan.i \in Slot
  /\ IF Open(scan.i) /\ Wanted
     THEN /\ Start(scan.i)
          /\ scan' = [scan EXCEPT !.tot = @ + 1,
                                  !.i = IF scan.addone THEN MaxWorker ELSE @ + 1]
     ELSE /\ plist' = IF Open(scan.i) THEN [plist EXCEPT ![scan.i] = NoWorker] ELSE plist
          /\ scan' = [scan EXCEPT !.i = @ + 1]
          /\ UNCHANGED commtime
  /\ UNCHANGED <<pc, tempNoRestart, nspike, epoch, request, around>>

EndScan ==
  /\ pc = "scan" /\ scan.i = MaxWorker
  /\ pc' = scan.next
  /\ UNCHANGED <<plist, commtime, tempNoRestart, nspike, scan, epoch, request, around>>

\* Entering processup(0): in adaptive mode it counts, and drops the dead.
ProcessUpAll(next) ==
  ProcessUp(FALSE, next, IF adaptive THEN Cardinality({i \in Slot : plist'[i].state # "none"}) ELSE 0)

\* checkmod()
Changed == commtime # 0 /\ exe.there /\ commtime # exe.build

\* Mutant: a stopped pool is filled again.
RestartsAlways == ~NoRestart
Restarts == tempNoRestart = 0 /\ ~NoRestart

CheckMod ==
  /\ pc = "mod"
  /\ IF Restarts
     THEN /\ IF Changed THEN StopAll ELSE plist' = IF adaptive THEN Counted ELSE plist
          /\ ProcessUpAll("cmd")
     ELSE pc' = "cmd" /\ UNCHANGED <<plist, scan>>
  /\ UNCHANGED <<commtime, tempNoRestart, nspike, epoch, request, around>>

-----------------------------------------------------------------------------
(* The commands, checkshm(true).                                           *)

NoCommand ==
  /\ pc = "cmd" /\ request = "none"
  /\ pc' = "top"
  /\ UNCHANGED <<plist, commtime, tempNoRestart, nspike, scan, epoch, request, around>>

\* RIM_START
CmdStart ==
  /\ pc = "cmd" /\ request = "start"
  /\ tempNoRestart' = 0
  /\ plist' = IF adaptive THEN Counted ELSE plist
  /\ ProcessUpAll("reply")
  /\ UNCHANGED <<commtime, nspike, epoch, request, around>>

\* RIM_RESTART
CmdRestart ==
  /\ pc = "cmd" /\ request = "restart"
  /\ tempNoRestart' = 0
  /\ StopAll
  /\ epoch' = epoch + 1
  /\ ProcessUpAll("reply")
  /\ UNCHANGED <<commtime, nspike, request, around>>

Reply ==
  /\ pc = "reply"
  /\ request' = "none" /\ pc' = "top"
  /\ UNCHANGED <<plist, commtime, tempNoRestart, nspike, scan, epoch, around>>

\* RIM_STOP
CmdStop ==
  /\ pc = "cmd" /\ request = "stop"
  /\ StopAll
  /\ tempNoRestart' = 1
  /\ request' = "none" /\ pc' = "top"
  /\ UNCHANGED <<commtime, nspike, scan, epoch, around>>

\* RIM_QUIT
CmdQuit ==
  /\ pc = "cmd" /\ request = "quit"
  /\ StopAll
  /\ request' = "none" /\ pc' = "gone"
  /\ UNCHANGED <<commtime, tempNoRestart, nspike, scan, epoch, around>>

Manager == \/ StartFirst \/ Look \/ Grow \/ Quiet \/ Shrink \/ Keep
           \/ ScanSlot \/ EndScan \/ CheckMod
           \/ NoCommand \/ CmdStart \/ CmdRestart \/ Reply \/ CmdStop \/ CmdQuit

-----------------------------------------------------------------------------
(* What happens around the manager.                                        *)

\* The forked process executes the program that is there now, or exits.
Exec(i) ==
  /\ plist[i].state = "forked"
  /\ plist' = [plist EXCEPT ![i] =
       IF exe.there THEN [@ EXCEPT !.state = "idle", !.build = exe.build]
                    ELSE [@ EXCEPT !.state = "dead"]]
  /\ UNCHANGED <<manager, request, around>>

Take(i) ==
  /\ plist[i].state = "idle" /\ waiting > 0
  /\ plist' = [plist EXCEPT ![i].state = "busy"]
  /\ waiting' = waiting - 1
  /\ UNCHANGED <<manager, request, exe, deaths, commands, adaptive>>

Finish(i) ==
  /\ plist[i].state = "busy"
  /\ plist' = [plist EXCEPT ![i].state = "idle"]
  /\ UNCHANGED <<manager, request, around>>

Die(i) ==
  /\ Alive(i) /\ deaths < MaxDeath
  /\ plist' = [plist EXCEPT ![i].state = "dead"]
  /\ deaths' = deaths + 1
  /\ UNCHANGED <<manager, request, exe, waiting, commands, adaptive>>

Connect ==
  /\ waiting = 0 /\ pc # "gone"
  /\ waiting' = 1
  /\ UNCHANGED <<plist, manager, request, exe, deaths, commands, adaptive>>

\* The client gives up.
HangUp ==
  /\ waiting = 1
  /\ waiting' = 0
  /\ UNCHANGED <<plist, manager, request, exe, deaths, commands, adaptive>>

Remove ==
  /\ exe.there /\ exe.build < MaxBuild
  /\ exe' = [exe EXCEPT !.there = FALSE]
  /\ UNCHANGED <<plist, manager, request, waiting, deaths, commands, adaptive>>

Install ==
  /\ ~exe.there
  /\ exe' = [there |-> TRUE, build |-> exe.build + 1]
  /\ UNCHANGED <<plist, manager, request, waiting, deaths, commands, adaptive>>

Ask(c) ==
  /\ request = "none" /\ pc # "gone" /\ commands < MaxCommand
  /\ request' = c
  /\ commands' = commands + 1
  /\ UNCHANGED <<plist, manager, exe, waiting, deaths, adaptive>>

\* Once the manager is gone the workers are gone and nothing is left to happen.
Gone == pc = "gone" /\ UNCHANGED vars

Next == \/ Manager
        \/ \E i \in Slot : Exec(i) \/ Take(i) \/ Finish(i) \/ Die(i)
        \/ Connect \/ HangUp \/ Remove \/ Install
        \/ \E c \in Command : Ask(c)
        \/ Gone

Init ==
  /\ adaptive \in Modes
  /\ plist = [i \in Slot |-> NoWorker]
  /\ commtime = 0 /\ tempNoRestart = 0 /\ nspike = 0
  /\ pc = "init"
  /\ scan = [i |-> 0, tot |-> 0, addone |-> FALSE, next |-> "top"]
  /\ request = "none"
  /\ exe = [there |-> TRUE, build |-> 1]
  /\ waiting = 0 /\ epoch = 0 /\ deaths = 0 /\ commands = 0

\* The manager's loop never blocks; a forked process runs execvpe() at once;
\* an executable that was removed to be built again comes back. Nothing is
\* assumed of workers: a request may take as long as it likes.
Fairness == WF_vars(Manager) /\ WF_vars(Install) /\ \A i \in Slot : WF_vars(Exec(i))

Spec == Init /\ [][Next]_vars
FairSpec == Spec /\ Fairness

-----------------------------------------------------------------------------
(* Properties.                                                             *)

TypeOK ==
  /\ adaptive \in Modes
  /\ plist \in [Slot -> Worker]
  /\ commtime \in 0 .. MaxBuild
  /\ tempNoRestart \in {0, 1}
  /\ nspike \in 0 .. Spike - 1
  /\ pc \in {"init", "top", "more2", "more3", "less2", "less3", "shrink", "keep",
            "mod", "scan", "cmd", "reply", "gone"}
  /\ scan \in [i : 0 .. MaxWorker, tot : 0 .. 2 * MaxWorker, addone : BOOLEAN,
               next : {"top", "keep", "mod", "cmd", "reply"}]
  /\ request \in Command \cup {"none"}
  /\ exe \in [there : BOOLEAN, build : 1 .. MaxBuild]
  /\ waiting \in {0, 1}
  /\ epoch \in 0 .. MaxCommand
  /\ deaths \in 0 .. MaxDeath /\ commands \in 0 .. MaxCommand

\* After a stop no worker runs until a start or a restart, neither because a
\* connection waits, nor to keep the minimum, nor because the executable
\* changed: temp_no_restart guards every way of starting a worker.
StopSticks == tempNoRestart = 1 => \A i \in Slot : ~Taken(i)

\* No worker started before the last restart stays in the table, whatever
\* happens to workers and executable while handlestop() and processup() run.
RestartRenews == \A i \in Slot : Alive(i) => plist[i].epoch = epoch

\* Once workers stop dying and the executable stays, the pool keeps at least
\* the minimum (all workers, in fixed mode) unless it was stopped.
MinimumSettles ==
  <>[](Cardinality(Running) >= Least \/ tempNoRestart = 1 \/ pc = "gone")

\* While a connection waits the pool grows, also when every worker is in a
\* request that never ends: in the end somebody accepts the connection, or as
\* many workers run as the adaptive mode allows.
GrowsUnderLoad ==
  (waiting = 1) ~>
    (waiting = 0 \/ Cardinality(Running) >= MaxWorker - 1 \/ tempNoRestart = 1 \/ pc = "gone")

\* Without load the pool shrinks to the minimum and stays there.
ShrinksWhenIdle ==
  <>[](waiting = 0) => <>[](Cardinality(Running) <= Least)

\* A new executable replaces the workers of the old one, as the manual says
\* of option -g. The code compares with the build the last start saw only.
UpgradeReaches ==
  \A b \in 1 .. MaxBuild :
    (exe = [there |-> TRUE, build |-> b]) ~>
      \/ exe # [there |-> TRUE, build |-> b]
      \/ tempNoRestart = 1 \/ pc = "gone"
      \/ \A i \in Slot : Alive(i) => plist[i].build = b

=============================================================================
