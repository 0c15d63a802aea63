-------------------------- MODULE MrimWorkersProofs --------------------------
(* Proofs about MrimWorkers, for every size of the pool and either mode.   *)
EXTENDS MrimWorkers, TLAPS

\* The part of the types the proofs need.
Shape ==
  /\ plist \in [Slot -> [state : {"none", "forked", "idle", "busy", "dead"}, build : Nat, epoch : Nat]]
  /\ exe \in [there : BOOLEAN, build : Nat]
  /\ epoch \in Nat

\* While the pool is stopped it is empty, and the manager is never in a place
\* from which processup() is reached without a new look at temp_no_restart.
Stopped ==
  tempNoRestart = 1 => /\ \A i \in Slot : ~Taken(i)
                       /\ pc \in {"top", "mod", "cmd", "gone"}

IInv == Shape /\ Stopped /\ RestartRenews

\* The initial state satisfies the invariant: there is no worker.
LEMMA InitInv == Init => IInv
BY DEF Init, IInv, Shape, Stopped, RestartRenews, Alive, NoWorker

\* start_child() in a pool that is not stopped.
LEMMA StartInv ==
  ASSUME IInv, NEW i, Start(i), tempNoRestart # 1,
         UNCHANGED <<exe, epoch, tempNoRestart>>
  PROVE  IInv'
BY DEF IInv, Shape, Stopped, RestartRenews, Start, Alive, NoWorker

\* The table after handlestop() or totprocess() holds no worker it did not hold.
LEMMA FewerInv ==
  ASSUME IInv,
         plist' \in [Slot -> [state : {"none", "forked", "idle", "busy", "dead"}, build : Nat, epoch : Nat]],
         \A i \in Slot : plist'[i] = plist[i] \/ plist'[i] = NoWorker,
         tempNoRestart' = 1 => pc' \in {"top", "mod", "cmd", "gone"} /\ tempNoRestart = 1,
         UNCHANGED <<exe, epoch>>
  PROVE  IInv'
BY DEF IInv, Shape, Stopped, RestartRenews, Alive, Taken, NoWorker

\* Steps that change the table by taking workers out, or not at all.
LEMMA ManagerInv ==
  ASSUME IInv, Manager
  PROVE  IInv'
<1> USE DEF manager, around, ProcessUp
<1>0. NoWorker \in [state : {"none", "forked", "idle", "busy", "dead"}, build : Nat, epoch : Nat]
  BY DEF NoWorker
<1>1. CASE StartFirst
  <2>1. CASE scan.i < Least
    <3>1. Start(scan.i) /\ UNCHANGED <<exe, epoch, tempNoRestart>>
      BY <1>1, <2>1 DEF StartFirst
    <3>2. tempNoRestart # 1
      BY <1>1 DEF StartFirst, IInv, Stopped
    <3>3. QED BY <3>1, <3>2, StartInv
  <2>2. CASE ~(scan.i < Least)
    <3>1. UNCHANGED <<plist, exe, epoch, tempNoRestart>> /\ tempNoRestart # 1
      BY <1>1, <2>2 DEF StartFirst, IInv, Stopped
    <3>2. QED BY <3>1, FewerInv DEF IInv, Shape
  <2>3. QED BY <2>1, <2>2
<1>2. CASE Look
  <2>1. UNCHANGED <<plist, exe, epoch, tempNoRestart>>
    BY <1>2 DEF Look
  <2>2. tempNoRestart = 1 => pc' \in {"top", "mod", "cmd", "gone"}
    BY <1>2 DEF Look, Adapts, IInv, Stopped
  <2>3. QED BY <2>1, <2>2, FewerInv DEF IInv, Shape
<1>3. CASE Grow \/ Quiet \/ Keep
  <2>1. plist' = plist \/ plist' = Counted
    BY <1>3 DEF Grow, Quiet, Keep
  <2>2. UNCHANGED <<exe, epoch, tempNoRestart>> /\ tempNoRestart # 1
    BY <1>3 DEF Grow, Quiet, Keep, IInv, Stopped
  <2>3. QED BY <1>0, <2>1, <2>2, FewerInv DEF IInv, Shape, Counted
<1>4. CASE Shrink
  <2>1. UNCHANGED <<exe, epoch, tempNoRestart>> /\ tempNoRestart # 1
    BY <1>4 DEF Shrink, IInv, Stopped
  <2>2. QED BY <1>0, <1>4, <2>1, FewerInv DEF IInv, Shape, Shrink, StopOne
<1>5. CASE ScanSlot
  <2>1. UNCHANGED <<exe, epoch, tempNoRestart>> /\ tempNoRestart # 1
    BY <1>5 DEF ScanSlot, IInv, Stopped
  <2>2. CASE Open(scan.i) /\ Wanted
    <3>1. Start(scan.i)
      BY <1>5, <2>2 DEF ScanSlot
    <3>2. QED BY <2>1, <3>1, StartInv
  <2>3. CASE ~(Open(scan.i) /\ Wanted)
    <3>1. plist' = plist \/ plist' = [plist EXCEPT ![scan.i] = NoWorker]
      BY <1>5, <2>3 DEF ScanSlot
    <3>2. QED BY <1>0, <2>1, <3>1, FewerInv DEF IInv, Shape
  <2>4. QED BY <2>2, <2>3
<1>6. CASE EndScan \/ NoCommand \/ Reply
  <2>1. UNCHANGED <<plist, exe, epoch, tempNoRestart>>
    BY <1>6 DEF EndScan, NoCommand, Reply
  <2>2. tempNoRestart = 1 => pc' \in {"top", "mod", "cmd", "gone"}
    BY <1>6 DEF EndScan, NoCommand, Reply, IInv, Stopped
  <2>3. QED BY <2>1, <2>2, FewerInv DEF IInv, Shape
<1>7. CASE CheckMod
  <2>1. plist' \in {plist, Counted, [i \in Slot |-> NoWorker]}
    BY <1>7 DEF CheckMod, StopAll
  <2>2. UNCHANGED <<exe, epoch, tempNoRestart>>
    BY <1>7 DEF CheckMod
  <2>3. tempNoRestart = 1 => pc' \in {"top", "mod", "cmd", "gone"}
    BY <1>7 DEF CheckMod, Restarts
  <2>4. QED BY <1>0, <2>1, <2>2, <2>3, FewerInv DEF IInv, Shape, Counted
<1>8. CASE CmdStart
  <2>1. plist' \in {plist, Counted}
    BY <1>8 DEF CmdStart
  <2>2. UNCHANGED <<exe, epoch>> /\ tempNoRestart' # 1
    BY <1>8 DEF CmdStart
  <2>3. QED BY <1>0, <2>1, <2>2, FewerInv DEF IInv, Shape, Counted
<1>9. CASE CmdRestart
  BY <1>9, <1>0 DEF CmdRestart, StopAll, IInv, Shape, Stopped, RestartRenews, Alive, NoWorker
<1>10. CASE CmdStop \/ CmdQuit
  BY <1>10, <1>0 DEF CmdStop, CmdQuit, StopAll, IInv, Shape, Stopped, RestartRenews, Alive, Taken, NoWorker
<1>11. QED
  BY <1>1, <1>2, <1>3, <1>4, <1>5, <1>6, <1>7, <1>8, <1>9, <1>10 DEF Manager

\* What happens around the manager: no worker appears in an empty slot.
LEMMA AroundInv ==
  ASSUME IInv,
         \/ \E i \in Slot : Exec(i) \/ Take(i) \/ Finish(i) \/ Die(i)
         \/ Connect \/ HangUp \/ Remove \/ Install
         \/ \E c \in Command : Ask(c)
  PROVE  IInv'
<1> USE DEF manager, around
<1>1. CASE \E i \in Slot : Exec(i) \/ Take(i) \/ Finish(i) \/ Die(i)
  <2>1. PICK i \in Slot : Exec(i) \/ Take(i) \/ Finish(i) \/ Die(i)
    BY <1>1
  <2>2. CASE Exec(i)
    BY <2>2 DEF Exec, IInv, Shape, Stopped, RestartRenews, Alive, Taken
  <2>3. CASE Take(i) \/ Finish(i) \/ Die(i)
    BY <2>3 DEF Take, Finish, Die, IInv, Shape, Stopped, RestartRenews, Alive, Taken
  <2>4. QED BY <2>1, <2>2, <2>3
<1>2. CASE Connect \/ HangUp \/ Remove \/ Install \/ \E c \in Command : Ask(c)
  <2>1. UNCHANGED <<plist, epoch, tempNoRestart, pc>>
    BY <1>2 DEF Connect, HangUp, Remove, Install, Ask
  <2>2. exe' \in [there : BOOLEAN, build : Nat]
    <3>1. CASE Remove
      BY <3>1 DEF Remove, IInv, Shape
    <3>2. CASE Install
      <4>1. exe.build + 1 \in Nat
        BY DEF IInv, Shape
      <4>2. QED BY <3>2, <4>1 DEF Install
    <3>3. CASE UNCHANGED exe
      BY <3>3 DEF IInv, Shape
    <3>4. QED BY <1>2, <3>1, <3>2, <3>3 DEF Connect, HangUp, Ask
  <2>3. QED BY <2>1, <2>2 DEF IInv, Shape, Stopped, RestartRenews, Alive, Taken
<1>3. QED BY <1>1, <1>2

\* Every step keeps the invariant.
LEMMA NextInv == IInv /\ [Next]_vars => IInv'
<1> SUFFICES ASSUME IInv, [Next]_vars
             PROVE  IInv'
  OBVIOUS
<1>1. CASE Next /\ ~Gone
  BY <1>1, ManagerInv, AroundInv DEF Next
<1>2. CASE UNCHANGED vars
  BY <1>2 DEF vars, manager, around, IInv, Shape, Stopped, RestartRenews, Alive, Taken
<1>3. QED BY <1>1, <1>2 DEF Gone

\* A stopped pool stays empty until a start or a restart, in either mode, for
\* every size of the pool and whatever dies, connects or is installed.
THEOREM StoppedStaysEmpty == Spec => []StopSticks
<1>1. IInv => StopSticks
  BY DEF IInv, Stopped, StopSticks
<1>2. QED BY <1>1, InitInv, NextInv, PTL DEF Spec

\* After a restart no earlier worker is left in the table.
THEOREM RestartsRenew == Spec => []RestartRenews
<1>1. IInv => RestartRenews
  BY DEF IInv
<1>2. QED BY <1>1, InitInv, NextInv, PTL DEF Spec

=============================================================================
