-------------------------- MODULE SupervisorProofs --------------------------
(* Theorems about Supervisor, for every budget, threshold, set of callers  *)
(* and bound.  IInv is inductive; the safety properties follow from it.    *)
EXTENDS Supervisor, TLAPS

\* From the launch to the moment loop() has seen the end of the child.
Launched == {"setproc", "recstart", "await"}
\* While the child counts as running in the metrics.
Counted == {"await", "consume", "clear", "recstop"}
\* While s.proc names the child.
Visible == {"recstart", "await", "consume", "clear"}
\* On the way to a launch, with its restart (if any) already paid for.
Paid == {"idle", "backoff", "top", "before", "spawn"}

\* Children are born and finish in order; only the latest may be alive.
Lifecycle ==
  /\ started <=> pc # "idle"
  /\ \A p \in Children : p > cur => procs[p] = "unborn"
  /\ \A p \in Children : p < cur => procs[p] = "finished"
  /\ pc \in Launched \cup Visible \cup Counted => cur # 0
  /\ cur # 0 => procs[cur] # "unborn"
  /\ cur # 0 /\ pc \notin Launched => procs[cur] = "finished"
  /\ proc = IF pc \in Visible THEN cur ELSE 0

Gauge ==
  /\ metrics.currentPID = IF pc \in Counted THEN cur ELSE 0
  /\ metrics.running <=> pc \in Counted
  /\ metrics.starts = metrics.stops + (IF pc \in Counted THEN 1 ELSE 0)

Budget ==
  /\ metrics.restarts <= RestartBound
  /\ MaxRestarts > 0 => metrics.restarts <= MaxRestarts
  /\ cur <= metrics.restarts + 1
  /\ pc \in Paid => cur <= metrics.restarts
  /\ pc = "record" => BudgetLeft

\* A caller of Stop that has found a child has also shut the way to the next.
Targets ==
  \A c \in Stoppers :
    /\ st[c] \notin {"idle", "refused"} => pc # "idle"
    /\ st[c] = "grace" => target[c] # 0
    /\ target[c] # 0 =>
         target[c] = cur /\ stopping /\ pc \notin Paid \cup {"record"}

\* A mark set in time is on its way to the loop, or has reached it.
Flags ==
  /\ \A p \in Children :
       p > cur \/ (p = cur /\ pc \in {"setproc", "recstart"}) =>
         hl[p] = "none" /\ marked[p] = "no"
  /\ cur # 0 /\ marked[cur] = "intime" =>
       /\ pc \in {"await", "consume"} => unhealthyStop
       /\ pc \in {"clear", "recstop", "after", "postcheck"} => unhealthy

IInv == TypeOK /\ Lifecycle /\ Gauge /\ Budget /\ Targets /\ Flags


-----------------------------------------------------------------------------
\* The next launch has a number of its own within the bound.
LEMMA RoomToLaunch == IInv /\ pc \in Paid => cur + 1 \in Children
  BY BoundAssumption DEF IInv, TypeOK, ControlTypeOK, Metrics, Budget, Children

-----------------------------------------------------------------------------
(* Frames: what the actors other than loop() leave alone                   *)

Others ==
  \/ ParentCancel
  \/ \E p \in Children :
       HealthStep(p) \/ LeaderExits(p) \/ GroupExits(p) \/ Reap(p)
  \/ \E c \in Stoppers : StopRefused(c) \/ StopCall(c) \/ StopStep(c)

\* The child, the health loops and the callers of Stop leave loop() alone.
LEMMA OthersFrame ==
  ASSUME IInv, Others
  PROVE  /\ UNCHANGED <<pc, cur, unhealthy, proc, started>>
         /\ UNCHANGED <<metrics.starts, metrics.stops, metrics.restarts,
                        metrics.running, metrics.currentPID>>
         /\ metrics'.restarts \in Nat
<1>1. metrics \in Metrics
  BY DEF IInv, TypeOK
<1>. QED
  BY <1>1
     DEF Others, Metrics, loopVars, ctlVars, ParentCancel, HealthStep,
         HealthQuit, HealthTickFinished, HealthTick, RecordHealthSuccess,
         RecordHealthFailure, MarkUnhealthy, HealthStop, HealthGrace,
         LeaderExits, GroupExits, Reap, StopRefused, StopCall, StopStep,
         StopSignal, StopGrace, StopCancel, StopJoin

\* Health loops and callers of Stop never change what a child is, only kill it.
LEMMA OthersKeepProcs ==
  ASSUME Others
  PROVE  \/ UNCHANGED procs
         \/ \E p \in Children : LeaderExits(p) \/ GroupExits(p) \/ Reap(p)
  BY DEF Others, childVars, ParentCancel, HealthStep, HealthQuit,
         HealthTickFinished, HealthTick, RecordHealthSuccess,
         RecordHealthFailure, MarkUnhealthy, HealthStop, HealthGrace,
         StopRefused, StopCall, StopStep, StopSignal, StopGrace, StopCancel,
         StopJoin

\* Neither a health loop nor a child changes a caller of Stop or stopping.
LEMMA ChildrenKeepStops ==
  ASSUME NEW p \in Children,
         HealthStep(p) \/ LeaderExits(p) \/ GroupExits(p) \/ Reap(p)
  PROVE  UNCHANGED <<stopVars, ctlVars>>
  BY DEF HealthStep, HealthQuit, HealthTickFinished, HealthTick,
         RecordHealthSuccess, RecordHealthFailure, MarkUnhealthy, HealthStop,
         HealthGrace, LeaderExits, GroupExits, Reap

\* Neither a child nor a caller of Stop touches health loops or the flag.
LEMMA OthersKeepHealth ==
  ASSUME Others
  PROVE  \/ UNCHANGED <<healthVars, flagVars>>
         \/ \E p \in Children : HealthStep(p)
  BY DEF Others, ParentCancel, LeaderExits, GroupExits, Reap, StopRefused,
         StopCall, StopStep, StopSignal, StopGrace, StopCancel, StopJoin

-----------------------------------------------------------------------------
(* Types                                                                   *)

\* Every update of the counters that the actions make keeps their types.
LEMMA MetricsUpdates ==
  ASSUME NEW m \in Metrics
  PROVE  /\ [m EXCEPT !.crashes = @ + 1] \in Metrics
         /\ [m EXCEPT !.consecutiveRestarts = 0] \in Metrics
         /\ [m EXCEPT !.healthChecks = @ + 1] \in Metrics
         /\ StopMetrics(m) \in Metrics
         /\ [m EXCEPT !.restarts = @ + 1,
                      !.consecutiveRestarts = @ + 1] \in Metrics
         /\ [m EXCEPT !.healthCheckSuccesses = @ + 1,
                      !.consecutiveHCFailures = 0] \in Metrics
         /\ [m EXCEPT !.healthCheckFailures = @ + 1,
                      !.consecutiveHCFailures = @ + 1] \in Metrics
<1>1. /\ m.stops + 1 \in Nat /\ m.restarts + 1 \in Nat
      /\ m.consecutiveRestarts + 1 \in Nat
      /\ m.healthCheckSuccesses + 1 \in Nat
      /\ m.healthCheckFailures + 1 \in Nat
      /\ m.consecutiveHCFailures + 1 \in Nat
  BY DEF Metrics
<1>2. [m EXCEPT !.crashes = @ + 1] \in Metrics
  BY DEF Metrics
<1>3. [m EXCEPT !.consecutiveRestarts = 0] \in Metrics
  BY DEF Metrics
<1>4. [m EXCEPT !.healthChecks = @ + 1] \in Metrics
  BY DEF Metrics
<1>5. 0 \in 0 .. (RestartBound + 1)
  BY BoundAssumption
<1>6. StopMetrics(m) \in Metrics
  BY <1>1, <1>5 DEF Metrics, StopMetrics
<1>7. [m EXCEPT !.restarts = @ + 1, !.consecutiveRestarts = @ + 1] \in Metrics
  BY <1>1 DEF Metrics
<1>8. [m EXCEPT !.healthCheckSuccesses = @ + 1, !.consecutiveHCFailures = 0]
        \in Metrics
  BY <1>1 DEF Metrics
<1>9. [m EXCEPT !.healthCheckFailures = @ + 1,
                !.consecutiveHCFailures = @ + 1] \in Metrics
  BY <1>1 DEF Metrics
<1>. QED
  BY <1>2, <1>3, <1>4, <1>6, <1>7, <1>8, <1>9

\* The counters keep their types whichever action updates them.
LEMMA MetricsTypeStep == IInv /\ [Next]_vars => metrics' \in Metrics
<1>. SUFFICES ASSUME IInv, [Next]_vars PROVE metrics' \in Metrics
  OBVIOUS
<1>1. metrics \in Metrics /\ cur \in 0 .. (RestartBound + 1)
  BY DEF IInv, TypeOK, ControlTypeOK
<1>2. CASE UNCHANGED metrics
  BY <1>1, <1>2
<1>3. CASE metrics' = [metrics EXCEPT !.crashes = @ + 1]
  BY <1>1, <1>3, MetricsUpdates
<1>4. CASE RecordStart
  <2>1. metrics.starts + 1 \in Nat
    BY <1>1 DEF Metrics
  <2>. QED
    BY <1>1, <1>4, <2>1 DEF RecordStart, Metrics
<1>5. CASE RecordStop
  <2>1. StopMetrics(metrics) \in Metrics
    BY <1>1, MetricsUpdates
  <2>2. CASE metrics' = [StopMetrics(metrics) EXCEPT !.consecutiveRestarts = 0]
    BY <2>1, <2>2, MetricsUpdates
  <2>3. CASE metrics' = [StopMetrics(metrics) EXCEPT !.crashes = @ + 1]
    BY <2>1, <2>3, MetricsUpdates
  <2>. QED
    BY <1>5, <2>2, <2>3 DEF RecordStop
<1>6. CASE RecordRestart
  BY <1>1, <1>6, MetricsUpdates DEF RecordRestart
<1>7. CASE \E p \in Children : HealthTick(p)
  BY <1>1, <1>7, MetricsUpdates DEF HealthTick
<1>8. CASE \E p \in Children : RecordHealthSuccess(p)
  BY <1>1, <1>8, MetricsUpdates DEF RecordHealthSuccess
<1>9. CASE \E p \in Children : RecordHealthFailure(p)
  BY <1>1, <1>9, MetricsUpdates DEF RecordHealthFailure
<1>10. \/ UNCHANGED metrics \/ metrics' = [metrics EXCEPT !.crashes = @ + 1]
       \/ RecordStart \/ RecordStop \/ RecordRestart
       \/ \E p \in Children :
            HealthTick(p) \/ RecordHealthSuccess(p) \/ RecordHealthFailure(p)
  BY DEF Next, vars, Start, LoopStep, CheckTop, BeforeStart, SpawnFails,
         LaunchFailed, Spawn, SetProcess, AwaitDone, ConsumeUnhealthyFlag,
         ClearProcess, AfterStop, CheckAfterStop, Judge, Terminal,
         SleepBackoff, CloseDone, ParentCancel, HealthStep, HealthQuit,
         HealthTickFinished, MarkUnhealthy, HealthStop, HealthGrace,
         LeaderExits, GroupExits, Reap, StopRefused, StopCall, StopStep,
         StopSignal, StopGrace, StopCancel, StopJoin
<1>. QED
  BY <1>2, <1>3, <1>4, <1>5, <1>6, <1>7, <1>8, <1>9, <1>10

\* The children's states keep their types.
LEMMA ChildTypeStep == IInv /\ [Next]_vars => ChildTypeOK'
<1>. SUFFICES ASSUME IInv, [Next]_vars PROVE ChildTypeOK'
  OBVIOUS
<1>1. ChildTypeOK
  BY DEF IInv, TypeOK
<1>2. CASE UNCHANGED childVars
  BY <1>1, <1>2 DEF ChildTypeOK, childVars
<1>3. CASE Spawn
  BY <1>1, <1>3, RoomToLaunch DEF Spawn, ChildTypeOK, Paid
<1>4. CASE \E p \in Children :
             UNCHANGED <<procs, outcome>> /\ (Kill(p) \/ UNCHANGED killed)
  BY <1>1, <1>4 DEF ChildTypeOK, Kill
<1>5. CASE \E p \in Children : LeaderExits(p) \/ GroupExits(p) \/ Reap(p)
  BY <1>1, <1>5 DEF LeaderExits, GroupExits, Reap, ChildTypeOK
<1>6. CASE \E c \in Stoppers : StopGrace(c)
  <2>. PICK c \in Stoppers : StopGrace(c)
    BY <1>6
  <2>1. target[c] \in Children
    BY DEF IInv, TypeOK, StopTypeOK, Targets, StopGrace, StopAt, Children
  <2>. QED
    BY <1>1, <2>1 DEF StopGrace, ChildTypeOK, Kill
<1>7. \/ UNCHANGED childVars \/ Spawn
      \/ \E p \in Children :
           \/ UNCHANGED <<procs, outcome>> /\ (Kill(p) \/ UNCHANGED killed)
           \/ LeaderExits(p) \/ GroupExits(p) \/ Reap(p)
      \/ \E c \in Stoppers : StopGrace(c)
  BY DEF Next, vars, childVars, loopVars, Start, LoopStep, CheckTop,
         BeforeStart, SpawnFails, LaunchFailed, SetProcess, RecordStart,
         AwaitDone, ConsumeUnhealthyFlag, ClearProcess, RecordStop, AfterStop,
         CheckAfterStop, Judge, Terminal, RecordRestart, SleepBackoff,
         CloseDone, ParentCancel, HealthStep, HealthQuit, HealthTickFinished,
         HealthTick, RecordHealthSuccess, RecordHealthFailure, MarkUnhealthy,
         HealthStop, HealthGrace, StopRefused, StopCall, StopStep, StopSignal,
         StopCancel, StopJoin
<1>. QED
  BY <1>2, <1>3, <1>4, <1>5, <1>6, <1>7

\* The health loops' locals keep their types.
LEMMA HealthTypeStep == IInv /\ [Next]_vars => HealthTypeOK'
<1>. SUFFICES ASSUME IInv, [Next]_vars PROVE HealthTypeOK'
  OBVIOUS
<1>1. HealthTypeOK
  BY DEF IInv, TypeOK
<1>2. CASE UNCHANGED healthVars
  BY <1>1, <1>2 DEF HealthTypeOK, healthVars
<1>3. CASE RecordStart
  BY <1>1, <1>3 DEF RecordStart, HealthTypeOK, HealthPoints
<1>4. CASE AwaitDone
  <2>1. cur \in Children
    BY <1>4 DEF AwaitDone, IInv, TypeOK, ControlTypeOK, Lifecycle, Launched,
                Children
  <2>. QED
    BY <1>1, <1>4, <2>1 DEF AwaitDone, HealthTypeOK
<1>5. CASE \E p \in Children : HealthStep(p)
  <2>. PICK p \in Children : HealthStep(p)
    BY <1>5
  <2>1. CASE \E to \in HealthPoints :
               hl' = [hl EXCEPT ![p] = to]
                 /\ UNCHANGED <<failures, hcStopped, marked>>
    BY <1>1, <2>1 DEF HealthTypeOK
  <2>2. CASE RecordHealthSuccess(p) \/ RecordHealthFailure(p)
    BY <1>1, <2>2 DEF HealthTypeOK, HealthAt, HealthPoints,
                      RecordHealthSuccess, RecordHealthFailure
  <2>3. CASE MarkUnhealthy(p)
    BY <1>1, <2>3 DEF HealthTypeOK, HealthAt, HealthPoints, MarkUnhealthy
  <2>. QED
    BY <2>1, <2>2, <2>3
       DEF HealthStep, HealthQuit, HealthTickFinished, HealthTick, HealthStop,
           HealthGrace, HealthAt, HealthPoints
<1>6. UNCHANGED healthVars \/ RecordStart \/ AwaitDone
        \/ \E p \in Children : HealthStep(p)
  BY DEF Next, vars, healthVars, Start, LoopStep, CheckTop, BeforeStart,
         SpawnFails, LaunchFailed, Spawn, SetProcess, ConsumeUnhealthyFlag,
         ClearProcess, RecordStop, AfterStop, CheckAfterStop, Judge, Terminal,
         RecordRestart, SleepBackoff, CloseDone, ParentCancel, LeaderExits,
         GroupExits, Reap, StopRefused, StopCall, StopStep, StopSignal,
         StopGrace, StopCancel, StopJoin
<1>. QED
  BY <1>2, <1>3, <1>4, <1>5, <1>6

\* The callers of Stop keep their types.
LEMMA StopTypeStep == IInv /\ [Next]_vars => StopTypeOK'
<1>. SUFFICES ASSUME IInv, [Next]_vars PROVE StopTypeOK'
  OBVIOUS
<1>1. StopTypeOK /\ proc \in 0 .. (RestartBound + 1)
  BY DEF IInv, TypeOK, ControlTypeOK
<1>2. CASE UNCHANGED stopVars
  BY <1>1, <1>2 DEF StopTypeOK, stopVars
<1>3. CASE \E c \in Stoppers : StopRefused(c) \/ StopCall(c) \/ StopStep(c)
  BY <1>1, <1>3
     DEF StopTypeOK, StopPoints, StopAt, StopRefused, StopCall, StopStep,
         StopSignal, StopGrace, StopCancel, StopJoin
<1>4. UNCHANGED stopVars
        \/ \E c \in Stoppers : StopRefused(c) \/ StopCall(c) \/ StopStep(c)
  BY DEF Next, vars, stopVars, Start, LoopStep, CheckTop, BeforeStart,
         SpawnFails, LaunchFailed, Spawn, SetProcess, RecordStart, AwaitDone,
         ConsumeUnhealthyFlag, ClearProcess, RecordStop, AfterStop,
         CheckAfterStop, Judge, Terminal, RecordRestart, SleepBackoff,
         CloseDone, ParentCancel, HealthStep, HealthQuit, HealthTickFinished,
         HealthTick, RecordHealthSuccess, RecordHealthFailure, MarkUnhealthy,
         HealthStop, HealthGrace, LeaderExits, GroupExits, Reap
<1>. QED
  BY <1>2, <1>3, <1>4

\* The Supervisor's fields and the loop's locals keep their types.
LEMMA ControlTypeOKStep == IInv /\ [Next]_vars => ControlTypeOK'
<1>. SUFFICES ASSUME IInv, [Next]_vars PROVE ControlTypeOK'
  OBVIOUS
<1>. USE DEF IInv, TypeOK, ControlTypeOK, Results, LoopPoints, Errors, Policies
<1>. USE DEF vars, loopVars, resultVars, ctlVars, flagVars
<1>1. CASE Start
  BY <1>1 DEF Start
<1>2. CASE CheckTop
  BY <1>2 DEF CheckTop, EndLoop
<1>3. CASE BeforeStart
  <2>1. CASE LaunchFailed("before-start")
    BY <2>1, <1>3 DEF BeforeStart, LaunchFailed
  <2>2. CASE pc' = "spawn" /\ UNCHANGED <<cur, unhealthy, resultVars, ctlVars, flagVars, proc>>
    BY <2>2, <1>3 DEF BeforeStart
  <2>. QED
    BY <2>1, <2>2, <1>3 DEF BeforeStart
<1>4. CASE SpawnFails
  BY <1>4 DEF SpawnFails, LaunchFailed
<1>5. CASE Spawn
  BY <1>5, RoomToLaunch DEF Spawn, Paid, Children
<1>6. CASE SetProcess
  BY <1>6 DEF SetProcess
<1>7. CASE RecordStart
  BY <1>7 DEF RecordStart
<1>8. CASE AwaitDone
  BY <1>8 DEF AwaitDone, Done
<1>9. CASE ConsumeUnhealthyFlag
  <2>1. unhealthyStop \in BOOLEAN
    OBVIOUS
  <2>2. unhealthy' \in BOOLEAN /\ unhealthyStop' \in BOOLEAN
    BY <1>9, <2>1, Zenon DEF ConsumeUnhealthyFlag, FlagValue
  <2>. QED
    BY <2>2, <1>9 DEF ConsumeUnhealthyFlag
<1>10. CASE ClearProcess
  BY <1>10, BoundAssumption DEF ClearProcess, ResultOf
<1>11. CASE RecordStop
  BY <1>11 DEF RecordStop, StopMetrics
<1>12. CASE AfterStop
  BY <1>12 DEF AfterStop
<1>13. CASE CheckAfterStop
  BY <1>13 DEF CheckAfterStop, EndLoop, ShouldExit
<1>14. CASE Judge
  BY <1>14 DEF Judge, ShouldRestart
<1>15. CASE Terminal
  BY <1>15 DEF Terminal, EndLoop, TerminalError
<1>16. CASE RecordRestart
  BY <1>16 DEF RecordRestart
<1>17. CASE SleepBackoff
  BY <1>17 DEF SleepBackoff, EndLoop
<1>18. CASE CloseDone
  BY <1>18 DEF CloseDone
<1>19. CASE ParentCancel
  BY <1>19 DEF ParentCancel
<1>20. CASE \E p \in Children : HealthQuit(p)
  BY <1>20 DEF HealthQuit, HealthAt
<1>21. CASE \E p \in Children : HealthTickFinished(p)
  BY <1>21 DEF HealthTickFinished, HealthAt
<1>22. CASE \E p \in Children : HealthTick(p)
  BY <1>22 DEF HealthTick, HealthAt
<1>23. CASE \E p \in Children : RecordHealthSuccess(p)
  BY <1>23 DEF RecordHealthSuccess, HealthAt
<1>24. CASE \E p \in Children : RecordHealthFailure(p)
  BY <1>24 DEF RecordHealthFailure, HealthAt
<1>25. CASE \E p \in Children : MarkUnhealthy(p)
  BY <1>25 DEF MarkUnhealthy, FlagAhead, HealthAt
<1>26. CASE \E p \in Children : HealthStop(p)
  BY <1>26 DEF HealthStop, HealthAt
<1>27. CASE \E p \in Children : HealthGrace(p)
  BY <1>27 DEF HealthGrace, Kill, HealthAt
<1>28. CASE \E p \in Children : LeaderExits(p)
  BY <1>28 DEF LeaderExits
<1>29. CASE \E p \in Children : GroupExits(p)
  BY <1>29 DEF GroupExits
<1>30. CASE \E p \in Children : Reap(p)
  BY <1>30 DEF Reap
<1>31. CASE \E c \in Stoppers : StopRefused(c)
  BY <1>31 DEF StopRefused, StopAt
<1>32. CASE \E c \in Stoppers : StopCall(c)
  BY <1>32 DEF StopCall, StopAt
<1>33. CASE \E c \in Stoppers : StopSignal(c)
  BY <1>33 DEF StopSignal, StopAt
<1>34. CASE \E c \in Stoppers : StopGrace(c)
  BY <1>34 DEF StopGrace, Kill, StopAt
<1>35. CASE \E c \in Stoppers : StopCancel(c)
  BY <1>35 DEF StopCancel, StopAt
<1>36. CASE \E c \in Stoppers : StopJoin(c)
  BY <1>36 DEF StopJoin, StopAt
<1>37. CASE UNCHANGED vars
  BY <1>37
<1>. QED
  BY <1>1, <1>2, <1>3, <1>4, <1>5, <1>6, <1>7, <1>8, <1>9, <1>10, <1>11,
     <1>12, <1>13, <1>14, <1>15, <1>16, <1>17, <1>18, <1>19, <1>20, <1>21,
     <1>22, <1>23, <1>24, <1>25, <1>26, <1>27, <1>28, <1>29, <1>30, <1>31,
     <1>32, <1>33, <1>34, <1>35, <1>36, <1>37
     DEF Next, LoopStep, HealthStep, StopStep

\* Only Spawn, SetProcess, ClearProcess and the child itself touch a life.
LEMMA LifecycleStep == IInv /\ [Next]_vars => Lifecycle'
<1>. SUFFICES ASSUME IInv, [Next]_vars PROVE Lifecycle'
  OBVIOUS
<1>. USE DEF IInv, TypeOK, ControlTypeOK, ChildTypeOK, Children, Lifecycle, Launched, Visible, Counted, Budget, Paid, LoopPoints
<1>. USE DEF vars, loopVars, childVars, healthVars, stopVars, resultVars, ctlVars, flagVars
<1>1. CASE Start
  BY <1>1 DEF Start
<1>2. CASE CheckTop
  BY <1>2 DEF CheckTop, EndLoop
<1>3. CASE BeforeStart
  BY <1>3 DEF BeforeStart, LaunchFailed
<1>4. CASE SpawnFails
  BY <1>4 DEF SpawnFails, LaunchFailed
<1>5. CASE Spawn
  BY <1>5, RoomToLaunch DEF Spawn
<1>6. CASE SetProcess
  BY <1>6 DEF SetProcess
<1>7. CASE RecordStart
  BY <1>7 DEF RecordStart
<1>8. CASE AwaitDone
  BY <1>8 DEF AwaitDone, Done
<1>9. CASE ConsumeUnhealthyFlag
  BY <1>9 DEF ConsumeUnhealthyFlag, FlagValue
<1>10. CASE ClearProcess
  BY <1>10 DEF ClearProcess, ResultOf
<1>11. CASE RecordStop
  BY <1>11 DEF RecordStop, StopMetrics
<1>12. CASE AfterStop
  BY <1>12 DEF AfterStop
<1>13. CASE CheckAfterStop
  BY <1>13 DEF CheckAfterStop, EndLoop, ShouldExit
<1>14. CASE Judge
  BY <1>14 DEF Judge, ShouldRestart
<1>15. CASE Terminal
  BY <1>15 DEF Terminal, EndLoop, TerminalError
<1>16. CASE RecordRestart
  BY <1>16 DEF RecordRestart
<1>17. CASE SleepBackoff
  BY <1>17 DEF SleepBackoff, EndLoop
<1>18. CASE CloseDone
  BY <1>18 DEF CloseDone
<1>19. CASE Others /\ UNCHANGED procs
  BY <1>19, OthersFrame
<1>20. CASE \E p \in Children : LeaderExits(p)
  BY <1>20 DEF LeaderExits
<1>21. CASE \E p \in Children : GroupExits(p)
  BY <1>21 DEF GroupExits
<1>22. CASE \E p \in Children : Reap(p)
  BY <1>22 DEF Reap
<1>23. CASE UNCHANGED vars
  BY <1>23
<1>. QED
  BY <1>1, <1>2, <1>3, <1>4, <1>5, <1>6, <1>7, <1>8, <1>9, <1>10, <1>11,
     <1>12, <1>13, <1>14, <1>15, <1>16, <1>17, <1>18, <1>19, <1>20, <1>21,
     <1>22, <1>23, OthersKeepProcs
     DEF Next, LoopStep, Others

\* recordStart and recordStop keep the gauge and the counters together.
LEMMA GaugeStep == IInv /\ [Next]_vars => Gauge'
<1>. SUFFICES ASSUME IInv, [Next]_vars PROVE Gauge'
  OBVIOUS
<1>. USE DEF IInv, TypeOK, ControlTypeOK, Gauge, Counted, Lifecycle, Launched, Visible, LoopPoints
<1>. USE DEF vars, loopVars, childVars, healthVars, stopVars, resultVars, ctlVars, flagVars
<1>1. CASE Start
  BY <1>1 DEF Start
<1>2. CASE CheckTop
  BY <1>2 DEF CheckTop, EndLoop
<1>3. CASE BeforeStart
  <2>1. CASE LaunchFailed("before-start")
    BY <2>1, <1>3 DEF BeforeStart, LaunchFailed, Metrics
  <2>2. CASE pc' = "spawn" /\ UNCHANGED metrics
    BY <2>2, <1>3 DEF BeforeStart
  <2>. QED
    BY <2>1, <2>2, <1>3 DEF BeforeStart
<1>4. CASE SpawnFails
  BY <1>4 DEF SpawnFails, LaunchFailed
<1>5. CASE Spawn
  BY <1>5 DEF Spawn
<1>6. CASE SetProcess
  BY <1>6 DEF SetProcess
<1>7. CASE RecordStart
  <2>1. metrics'.starts = metrics.starts + 1 /\ metrics'.stops = metrics.stops
    BY <1>7 DEF RecordStart, Metrics
  <2>2. metrics'.running = TRUE /\ metrics'.currentPID = cur
    BY <1>7 DEF RecordStart, Metrics
  <2>3. metrics.starts = metrics.stops /\ metrics.stops \in Nat
    BY <1>7 DEF RecordStart, Metrics
  <2>4. pc' \in Counted /\ cur' = cur
    BY <1>7 DEF RecordStart
  <2>. QED
    BY <2>1, <2>2, <2>3, <2>4, Zenon
<1>8. CASE AwaitDone
  BY <1>8 DEF AwaitDone, Done
<1>9. CASE ConsumeUnhealthyFlag
  BY <1>9 DEF ConsumeUnhealthyFlag, FlagValue
<1>10. CASE ClearProcess
  BY <1>10 DEF ClearProcess, ResultOf
<1>11. CASE RecordStop
  <2>1. metrics'.starts = metrics.starts /\ metrics'.stops = metrics.stops + 1
    BY <1>11 DEF RecordStop, StopMetrics, Metrics
  <2>2. metrics'.running = FALSE /\ metrics'.currentPID = 0
    BY <1>11 DEF RecordStop, StopMetrics, Metrics
  <2>3. metrics.starts = metrics.stops + 1 /\ metrics.stops \in Nat
    BY <1>11 DEF RecordStop, Metrics
  <2>4. pc' \notin Counted
    BY <1>11 DEF RecordStop
  <2>5. metrics'.starts
          = metrics'.stops + (IF pc' \in Counted THEN 1 ELSE 0)
    BY <2>1, <2>3, <2>4
  <2>6. metrics'.running <=> pc' \in Counted
    BY <2>2, <2>4
  <2>7. metrics'.currentPID = IF pc' \in Counted THEN cur' ELSE 0
    BY <2>2, <2>4
  <2>. QED
    BY <2>5, <2>6, <2>7, Zenon
<1>12. CASE AfterStop
  BY <1>12 DEF AfterStop
<1>13. CASE CheckAfterStop
  BY <1>13 DEF CheckAfterStop, EndLoop, ShouldExit
<1>14. CASE Judge
  BY <1>14 DEF Judge, ShouldRestart
<1>15. CASE Terminal
  BY <1>15 DEF Terminal, EndLoop, TerminalError
<1>16. CASE RecordRestart
  BY <1>16 DEF RecordRestart
<1>17. CASE SleepBackoff
  BY <1>17 DEF SleepBackoff, EndLoop
<1>18. CASE CloseDone
  BY <1>18 DEF CloseDone
<1>19. CASE Others
  BY <1>19, OthersFrame
<1>20. CASE UNCHANGED vars
  BY <1>20
<1>. QED
  BY <1>1, <1>2, <1>3, <1>4, <1>5, <1>6, <1>7, <1>8, <1>9, <1>10, <1>11,
     <1>12, <1>13, <1>14, <1>15, <1>16, <1>17, <1>18, <1>19, <1>20
     DEF Next, LoopStep, Others

\* recordRestart is the only payment, Spawn the only purchase.
LEMMA BudgetStep == IInv /\ [Next]_vars => Budget'
<1>. SUFFICES ASSUME IInv, [Next]_vars PROVE Budget'
  OBVIOUS
<1>. USE DEF IInv, TypeOK, ControlTypeOK, Budget, BudgetLeft, Paid, LoopPoints, Metrics
<1>. USE DEF vars, loopVars, childVars, healthVars, stopVars, resultVars, ctlVars, flagVars
<1>1. CASE Start
  BY <1>1 DEF Start
<1>2. CASE CheckTop
  BY <1>2 DEF CheckTop, EndLoop
<1>3. CASE BeforeStart
  BY <1>3 DEF BeforeStart, LaunchFailed
<1>4. CASE SpawnFails
  BY <1>4 DEF SpawnFails, LaunchFailed
<1>5. CASE Spawn
  BY <1>5 DEF Spawn
<1>6. CASE SetProcess
  BY <1>6 DEF SetProcess
<1>7. CASE RecordStart
  BY <1>7 DEF RecordStart
<1>8. CASE AwaitDone
  BY <1>8 DEF AwaitDone, Done
<1>9. CASE ConsumeUnhealthyFlag
  BY <1>9 DEF ConsumeUnhealthyFlag, FlagValue
<1>10. CASE ClearProcess
  BY <1>10 DEF ClearProcess, ResultOf
<1>11. CASE RecordStop
  BY <1>11 DEF RecordStop, StopMetrics
<1>12. CASE AfterStop
  BY <1>12 DEF AfterStop
<1>13. CASE CheckAfterStop
  BY <1>13 DEF CheckAfterStop, EndLoop, ShouldExit
<1>14. CASE Judge
  BY <1>14 DEF Judge, ShouldRestart
<1>15. CASE Terminal
  BY <1>15 DEF Terminal, EndLoop, TerminalError
<1>16. CASE RecordRestart
  BY <1>16, BudgetAssumption, BoundAssumption DEF RecordRestart
<1>17. CASE SleepBackoff
  BY <1>17 DEF SleepBackoff, EndLoop
<1>18. CASE CloseDone
  BY <1>18 DEF CloseDone
<1>19. CASE Others
  BY <1>19, OthersFrame
<1>20. CASE UNCHANGED vars
  BY <1>20
<1>. QED
  BY <1>1, <1>2, <1>3, <1>4, <1>5, <1>6, <1>7, <1>8, <1>9, <1>10, <1>11,
     <1>12, <1>13, <1>14, <1>15, <1>16, <1>17, <1>18, <1>19, <1>20
     DEF Next, LoopStep, Others

\* Once a caller holds a child, stopping bars the way to the next launch.
LEMMA TargetsStep == IInv /\ [Next]_vars => Targets'
<1>. SUFFICES ASSUME IInv, [Next]_vars PROVE Targets'
  OBVIOUS
<1>. USE DEF IInv, TypeOK, ControlTypeOK, StopTypeOK, Children, Lifecycle, Targets, Launched, Visible, Counted, Paid, LoopPoints
<1>. USE DEF vars, loopVars, childVars, healthVars, stopVars, resultVars, ctlVars, flagVars
<1>1. CASE Start
  BY <1>1 DEF Start
<1>2. CASE CheckTop
  BY <1>2 DEF CheckTop, EndLoop
<1>3. CASE BeforeStart
  BY <1>3 DEF BeforeStart, LaunchFailed
<1>4. CASE SpawnFails
  BY <1>4 DEF SpawnFails, LaunchFailed
<1>5. CASE Spawn
  BY <1>5 DEF Spawn
<1>6. CASE SetProcess
  BY <1>6 DEF SetProcess
<1>7. CASE RecordStart
  BY <1>7 DEF RecordStart
<1>8. CASE AwaitDone
  BY <1>8 DEF AwaitDone, Done
<1>9. CASE ConsumeUnhealthyFlag
  BY <1>9 DEF ConsumeUnhealthyFlag, FlagValue
<1>10. CASE ClearProcess
  BY <1>10 DEF ClearProcess, ResultOf
<1>11. CASE RecordStop
  BY <1>11 DEF RecordStop, StopMetrics
<1>12. CASE AfterStop
  BY <1>12 DEF AfterStop
<1>13. CASE CheckAfterStop
  BY <1>13 DEF CheckAfterStop, EndLoop, ShouldExit
<1>14. CASE Judge
  BY <1>14 DEF Judge, ShouldRestart
<1>15. CASE Terminal
  BY <1>15 DEF Terminal, EndLoop, TerminalError
<1>16. CASE RecordRestart
  BY <1>16 DEF RecordRestart
<1>17. CASE SleepBackoff
  BY <1>17 DEF SleepBackoff, EndLoop
<1>18. CASE CloseDone
  BY <1>18 DEF CloseDone
<1>19. CASE ParentCancel
  BY <1>19 DEF ParentCancel
<1>20. CASE Others /\ UNCHANGED <<stopVars, ctlVars>>
  BY <1>20, OthersFrame
<1>21. CASE \E c \in Stoppers : StopRefused(c)
  BY <1>21 DEF StopRefused, StopAt
<1>22. CASE \E c \in Stoppers : StopCall(c)
  BY <1>22 DEF StopCall, StopAt
<1>23. CASE \E c \in Stoppers : StopSignal(c)
  BY <1>23 DEF StopSignal, StopAt
<1>24. CASE \E c \in Stoppers : StopGrace(c)
  BY <1>24 DEF StopGrace, Kill, StopAt
<1>25. CASE \E c \in Stoppers : StopCancel(c)
  BY <1>25 DEF StopCancel, StopAt
<1>26. CASE \E c \in Stoppers : StopJoin(c)
  BY <1>26 DEF StopJoin, StopAt
<1>27. CASE UNCHANGED vars
  BY <1>27
<1>. QED
  BY <1>1, <1>2, <1>3, <1>4, <1>5, <1>6, <1>7, <1>8, <1>9, <1>10, <1>11,
     <1>12, <1>13, <1>14, <1>15, <1>16, <1>17, <1>18, <1>19, <1>20, <1>21,
     <1>22, <1>23, <1>24, <1>25, <1>26, <1>27, ChildrenKeepStops
     DEF Next, LoopStep, Others, HealthStep, StopStep

\* Between markUnhealthy and the loop only the loop takes the flag away.
LEMMA FlagsStep == IInv /\ [Next]_vars => Flags'
<1>. SUFFICES ASSUME IInv, [Next]_vars PROVE Flags'
  OBVIOUS
<1>. USE DEF IInv, TypeOK, ControlTypeOK, HealthTypeOK, Children, Lifecycle, Flags, Launched, Visible, Counted, Budget, Paid, LoopPoints, HealthPoints
<1>. USE DEF vars, loopVars, childVars, healthVars, stopVars, resultVars, ctlVars, flagVars
<1>1. CASE Start
  BY <1>1 DEF Start
<1>2. CASE CheckTop
  BY <1>2 DEF CheckTop, EndLoop
<1>3. CASE BeforeStart
  BY <1>3 DEF BeforeStart, LaunchFailed
<1>4. CASE SpawnFails
  BY <1>4 DEF SpawnFails, LaunchFailed
<1>5. CASE Spawn
  BY <1>5 DEF Spawn
<1>6. CASE SetProcess
  BY <1>6 DEF SetProcess
<1>7. CASE RecordStart
  BY <1>7 DEF RecordStart
<1>8. CASE AwaitDone
  BY <1>8 DEF AwaitDone, Done
<1>9. CASE ConsumeUnhealthyFlag
  BY <1>9 DEF ConsumeUnhealthyFlag, FlagValue
<1>10. CASE ClearProcess
  BY <1>10 DEF ClearProcess, ResultOf
<1>11. CASE RecordStop
  BY <1>11 DEF RecordStop, StopMetrics
<1>12. CASE AfterStop
  BY <1>12 DEF AfterStop
<1>13. CASE CheckAfterStop
  BY <1>13 DEF CheckAfterStop, EndLoop, ShouldExit
<1>14. CASE Judge
  BY <1>14 DEF Judge, ShouldRestart
<1>15. CASE Terminal
  BY <1>15 DEF Terminal, EndLoop, TerminalError
<1>16. CASE RecordRestart
  BY <1>16 DEF RecordRestart
<1>17. CASE SleepBackoff
  BY <1>17 DEF SleepBackoff, EndLoop
<1>18. CASE CloseDone
  BY <1>18 DEF CloseDone
<1>19. CASE Others /\ UNCHANGED <<healthVars, flagVars>>
  BY <1>19, OthersFrame
<1>20. CASE \E p \in Children : HealthQuit(p)
  BY <1>20 DEF HealthQuit, HealthAt
<1>21. CASE \E p \in Children : HealthTickFinished(p)
  BY <1>21 DEF HealthTickFinished, HealthAt
<1>22. CASE \E p \in Children : HealthTick(p)
  BY <1>22 DEF HealthTick, HealthAt
<1>23. CASE \E p \in Children : RecordHealthSuccess(p)
  BY <1>23 DEF RecordHealthSuccess, HealthAt
<1>24. CASE \E p \in Children : RecordHealthFailure(p)
  BY <1>24 DEF RecordHealthFailure, HealthAt
<1>25. CASE \E p \in Children : MarkUnhealthy(p)
  BY <1>25 DEF MarkUnhealthy, FlagAhead, HealthAt
<1>26. CASE \E p \in Children : HealthStop(p)
  <2>. PICK p \in Children : HealthStop(p)
    BY <1>26
  <2>1. hl[p] # "none" /\ \A q \in Children : q # p => hl'[q] = hl[q]
    BY DEF HealthStop, HealthAt
  <2>. QED
    BY <2>1 DEF HealthStop
<1>27. CASE \E p \in Children : HealthGrace(p)
  BY <1>27 DEF HealthGrace, Kill, HealthAt
<1>28. CASE UNCHANGED vars
  BY <1>28
<1>. QED
  BY <1>1, <1>2, <1>3, <1>4, <1>5, <1>6, <1>7, <1>8, <1>9, <1>10, <1>11,
     <1>12, <1>13, <1>14, <1>15, <1>16, <1>17, <1>18, <1>19, <1>20, <1>21,
     <1>22, <1>23, <1>24, <1>25, <1>26, <1>27, <1>28, OthersKeepHealth
     DEF Next, LoopStep, Others, HealthStep, StopStep
-----------------------------------------------------------------------------
(* The theorems                                                            *)

\* NewSupervisor's state is consistent.
LEMMA InitIInv == Init => IInv
<1>. SUFFICES ASSUME Init PROVE IInv
  OBVIOUS
<1>1. policy \in Policies
  BY DEF Init, ConfiguredPolicies, NormalizeRestartPolicy, Policies
<1>2. ControlTypeOK
  <2>1. last \in Results /\ finalErr \in Errors /\ pc \in LoopPoints
    BY DEF Init, Results, Errors, LoopPoints
  <2>2. 0 \in 0 .. (RestartBound + 1)
    BY BoundAssumption
  <2>. QED
    BY <1>1, <2>1, <2>2 DEF Init, ControlTypeOK
<1>3. metrics \in Metrics
  BY BoundAssumption DEF Init, Metrics
<1>4. ChildTypeOK /\ HealthTypeOK /\ StopTypeOK
  BY BoundAssumption
     DEF Init, ChildTypeOK, HealthTypeOK, HealthPoints, StopTypeOK, StopPoints
<1>5. Lifecycle /\ Flags
  BY DEF Init, Lifecycle, Flags, Children, Launched, Visible, Counted
<1>6. Gauge
  BY DEF Init, Gauge, Counted
<1>7. Budget /\ Targets
  BY BudgetAssumption, BoundAssumption
     DEF Init, Budget, BudgetLeft, Paid, Targets
<1>. QED
  BY <1>2, <1>3, <1>4, <1>5, <1>6, <1>7 DEF IInv, TypeOK

\* Every step of every goroutine preserves the inductive invariant.
LEMMA StepIInv == IInv /\ [Next]_vars => IInv'
  BY ControlTypeOKStep, MetricsTypeStep, ChildTypeStep, HealthTypeStep,
     StopTypeStep, LifecycleStep, GaugeStep, BudgetStep, TargetsStep, FlagsStep
     DEF IInv, TypeOK

\* The inductive invariant holds in every reachable state.
THEOREM Invariance == Spec => []IInv
  BY InitIInv, StepIInv, PTL DEF Spec

\* Every variable keeps its type, for any budget, threshold and callers.
THEOREM TypeCorrect == Spec => []TypeOK
<1>1. IInv => TypeOK
  BY DEF IInv
<1>. QED
  BY <1>1, Invariance, PTL

\* MaxRestarts is never exceeded and no launch goes unpaid.
THEOREM BudgetKept == Spec => []RestartBudget
<1>1. IInv => RestartBudget
  BY DEF IInv, Budget, RestartBudget
<1>. QED
  BY <1>1, Invariance, PTL

\* Only the latest child runs, and only while loop() waits for it.
LEMMA CurrentOnly ==
  ASSUME IInv, NEW p \in Children, IsRunning(p)
  PROVE  p = cur /\ pc \in Launched
<1>1. p = cur
  BY DEF IInv, TypeOK, ControlTypeOK, Lifecycle, IsRunning, Children
<1>. QED
  BY <1>1 DEF IInv, Lifecycle, IsRunning, Children

\* Nothing is left running behind the loop's back.
THEOREM NothingOrphaned == Spec => []NoOrphan
<1>1. IInv => NoOrphan
  <2>. SUFFICES ASSUME IInv, NEW p \in Children, IsRunning(p)
                PROVE  /\ p = cur /\ pc \in Launched
                       /\ pc # "setproc" => proc = p
    BY DEF NoOrphan, Launched
  <2>. QED
    BY CurrentOnly DEF IInv, Lifecycle, Launched, Visible
<1>. QED
  BY <1>1, Invariance, PTL

\* The exported gauge and counters agree with the current process.
THEOREM GaugeAgrees == Spec => []GaugeTracksProcess
<1>1. IInv => GaugeTracksProcess
  BY DEF IInv, TypeOK, ControlTypeOK, Lifecycle, Gauge, GaugeTracksProcess,
         Counted, Visible, LoopPoints
<1>. QED
  BY <1>1, Invariance, PTL

\* The child a Stop has found is the last one: no restart slips in.
THEOREM StopIsFinal == Spec => []StopSignalsLastChild
<1>1. IInv => StopSignalsLastChild
  BY DEF IInv, Targets, StopSignalsLastChild
<1>. QED
  BY <1>1, Invariance, PTL

\* A mark set in time reaches the loop, however many loops have lived.
THEOREM CondemnationReaches == Spec => []CondemnedIsUnhealthy
<1>1. IInv => CondemnedIsUnhealthy
  BY DEF IInv, Flags, CondemnedIsUnhealthy
<1>. QED
  BY <1>1, Invariance, PTL

-----------------------------------------------------------------------------
(* Why loop() ends, and what its restarts are paid with                    *)

Halted == stopping \/ cancelled

\* Under on-failure a crash is counted before the restart it asks for.
Payment ==
  policy = "on-failure" /\ ~HooksFail =>
    /\ metrics.restarts <= metrics.crashes
    /\ pc = "record" => metrics.restarts < metrics.crashes
    /\ pc \in {"after", "postcheck", "judge"} =>
         CleanStop \/ metrics.restarts < metrics.crashes

\* Only loop() writes results and counts crashes; a halt is never taken back.
LEMMA OthersKeepResults ==
  ASSUME IInv, Others
  PROVE  /\ UNCHANGED <<last, finalErr, policy, metrics.crashes>>
         /\ Halted => Halted'
<1>. USE DEF resultVars, ctlVars, Halted
<1>1. metrics \in Metrics
  BY DEF IInv, TypeOK
<1>2. CASE ParentCancel
  BY <1>2 DEF ParentCancel
<1>3. CASE \E p \in Children : HealthStep(p)
  <2>1. UNCHANGED <<last, finalErr, ctlVars>>
    BY <1>3
       DEF HealthStep, HealthQuit, HealthTickFinished, HealthTick,
           RecordHealthSuccess, RecordHealthFailure, MarkUnhealthy, HealthStop,
           HealthGrace
  <2>2. UNCHANGED metrics.crashes
    BY <1>1, <1>3
       DEF HealthStep, HealthQuit, HealthTickFinished, HealthTick,
           RecordHealthSuccess, RecordHealthFailure, MarkUnhealthy, HealthStop,
           HealthGrace, Metrics
  <2>. QED
    BY <2>1, <2>2
<1>4. CASE \E p \in Children : LeaderExits(p) \/ GroupExits(p) \/ Reap(p)
  BY <1>4 DEF LeaderExits, GroupExits, Reap
<1>5. CASE \E c \in Stoppers : StopRefused(c) \/ StopCall(c) \/ StopStep(c)
  BY <1>5
     DEF StopRefused, StopCall, StopStep, StopSignal, StopGrace, StopCancel,
         StopJoin
<1>. QED
  BY <1>2, <1>3, <1>4, <1>5 DEF Others

\* A step of loop() counts a crash, a restart, or neither.
LEMMA PaymentStep == IInv /\ Payment /\ [Next]_vars => Payment'
<1>. SUFFICES ASSUME IInv, Payment, [Next]_vars,
                     policy' = "on-failure", ~HooksFail
              PROVE  /\ metrics'.restarts <= metrics'.crashes
                     /\ pc' = "record" => metrics'.restarts < metrics'.crashes
                     /\ pc' \in {"after", "postcheck", "judge"} =>
                          CleanStop' \/ metrics'.restarts < metrics'.crashes
  BY DEF Payment
<1>1. policy = "on-failure"
  BY DEF Next, Start, LoopStep, CheckTop, BeforeStart, SpawnFails,
         LaunchFailed, Spawn, SetProcess, RecordStart, AwaitDone,
         ConsumeUnhealthyFlag, ClearProcess, RecordStop, AfterStop,
         CheckAfterStop, Judge, Terminal, RecordRestart, SleepBackoff,
         CloseDone, ParentCancel, HealthStep, HealthQuit, HealthTickFinished,
         HealthTick, RecordHealthSuccess, RecordHealthFailure, MarkUnhealthy,
         HealthStop, HealthGrace, LeaderExits, GroupExits, Reap, StopRefused,
         StopCall, StopStep, StopSignal, StopGrace, StopCancel, StopJoin,
         vars, ctlVars
<1>2. /\ metrics.restarts <= metrics.crashes
      /\ pc = "record" => metrics.restarts < metrics.crashes
      /\ pc \in {"after", "postcheck", "judge"} =>
           CleanStop \/ metrics.restarts < metrics.crashes
  BY <1>1 DEF Payment
<1>3. /\ metrics \in Metrics
      /\ metrics.restarts \in Nat /\ metrics.crashes \in Nat
  BY DEF IInv, TypeOK, Metrics
<1>4. CASE Others \/ UNCHANGED vars
  <2>1. UNCHANGED <<metrics.restarts, metrics.crashes, pc, last, unhealthy>>
    BY <1>4, OthersFrame, OthersKeepResults DEF vars, loopVars, resultVars
  <2>. QED
    BY <1>2, <2>1 DEF CleanStop
<1>5. CASE /\ UNCHANGED metrics
           /\ pc' \notin {"record", "after", "postcheck", "judge"}
  BY <1>2, <1>5
<1>6. CASE \E err \in Errors : LaunchFailed(err)
  <2>1. /\ metrics'.restarts = metrics.restarts
        /\ metrics'.crashes = metrics.crashes + 1
    BY <1>3, <1>6 DEF LaunchFailed, Metrics
  <2>. QED
    BY <1>2, <1>3, <1>6, <2>1 DEF LaunchFailed
<1>7. CASE RecordStart
  <2>1. UNCHANGED <<metrics.restarts, metrics.crashes>>
    BY <1>3, <1>7 DEF RecordStart, Metrics
  <2>. QED
    BY <1>2, <1>7, <2>1 DEF RecordStart
<1>8. CASE RecordStop
  <2>1. pc' = "after" /\ (CleanStop' <=> CleanStop)
    BY <1>8 DEF RecordStop, CleanStop, resultVars
  <2>2. CASE CleanStop
    <3>1. UNCHANGED <<metrics.restarts, metrics.crashes>>
      BY <1>3, <1>8, <2>2 DEF RecordStop, StopMetrics, Metrics
    <3>. QED
      BY <1>2, <2>1, <2>2, <3>1
  <2>3. CASE ~CleanStop
    <3>1. /\ metrics'.restarts = metrics.restarts
          /\ metrics'.crashes = metrics.crashes + 1
      BY <1>3, <1>8, <2>3 DEF RecordStop, StopMetrics, Metrics
    <3>. QED
      BY <1>2, <1>3, <2>1, <3>1
  <2>. QED
    BY <2>2, <2>3
<1>9. CASE AfterStop \/ CheckAfterStop
  <2>1. UNCHANGED <<metrics, last, unhealthy>> /\ pc \in {"after", "postcheck"}
    BY <1>9 DEF AfterStop, CheckAfterStop
  <2>2. pc' # "record"
    BY <1>9 DEF AfterStop, CheckAfterStop, EndLoop
  <2>. QED
    BY <1>2, <2>1, <2>2 DEF CleanStop
<1>10. CASE Judge
  <2>1. UNCHANGED metrics /\ pc = "judge" /\ pc' \in {"record", "terminal"}
    BY <1>10 DEF Judge
  <2>2. pc' = "record" => ~CleanStop
    BY <1>1, <1>10 DEF Judge, ShouldRestart, PolicyAllows, CleanStop
  <2>. QED
    BY <1>2, <2>1, <2>2
<1>11. CASE RecordRestart
  <2>1. /\ metrics'.restarts = metrics.restarts + 1
        /\ metrics'.crashes = metrics.crashes
        /\ pc = "record" /\ pc' = "backoff"
    BY <1>3, <1>11 DEF RecordRestart, Metrics
  <2>. QED
    BY <1>2, <1>3, <2>1
<1>12. CASE Start \/ LoopStep
  <2>1. CASE BeforeStart \/ SpawnFails
    BY <1>5, <1>6, <2>1 DEF BeforeStart, SpawnFails, Errors
  <2>2. CASE \/ Start \/ CheckTop \/ Spawn \/ SetProcess \/ AwaitDone
             \/ ConsumeUnhealthyFlag \/ ClearProcess \/ Terminal
             \/ SleepBackoff \/ CloseDone
    BY <1>5, <2>2
       DEF Start, CheckTop, Spawn, SetProcess, AwaitDone,
           ConsumeUnhealthyFlag, ClearProcess, Terminal, SleepBackoff,
           CloseDone, EndLoop
  <2>. QED
    BY <1>7, <1>8, <1>9, <1>10, <1>11, <1>12, <2>1, <2>2 DEF LoopStep
<1>. QED
  BY <1>4, <1>12 DEF Next, Others

\* Under on-failure the counters of the Prometheus page tell one story.
THEOREM RestartsPaid == Spec => []RestartsPaidByCrashes
<1>1. Init => Payment
  BY DEF Init, Payment
<1>2. Payment => RestartsPaidByCrashes
  BY DEF Payment, RestartsPaidByCrashes
<1>. QED
  BY <1>1, <1>2, PaymentStep, Invariance, PTL DEF Spec

-----------------------------------------------------------------------------
(* Supervisor implements Supervision                                       *)

\* A Supervisor just made is an idle one for Supervision.
LEMMA InitPromised == Init => Promised!Init
  BY DEF Init, Promised!Init, Phase, IsRunning

\* A step that leaves these alone is none of Supervision's.
LEMMA HiddenStep ==
  ASSUME UNCHANGED <<cur, procs, stopping, cancelled, metrics.restarts>>,
         Phase' = Phase
  PROVE  UNCHANGED Promised!vars
  BY DEF Promised!vars, IsRunning

\* Every step of loop() is the step of Supervision of its phase, or hidden.
LEMMA LoopPromised ==
  ASSUME IInv, Start \/ LoopStep
  PROVE  [Promised!Next]_(Promised!vars)
<1>. USE DEF Phase, IsRunning, ctlVars, resultVars, childVars
<1>1. CASE Start
  <2>1. Promised!Begin
    BY <1>1 DEF Start, Promised!Begin
  <2>. QED
    BY <2>1 DEF Promised!Next
<1>2. CASE CheckTop
  <2>1. CASE ~ShouldExit
    <3>1. Promised!Permit
      BY <1>2, <2>1 DEF CheckTop, ShouldExit, Promised!Permit
    <3>. QED
      BY <3>1 DEF Promised!Next
  <2>2. CASE ShouldExit
    <3>1. stopping \/ cancelled
      BY <1>2, <2>2 DEF CheckTop, ShouldExit, IInv, Lifecycle
    <3>2. Promised!GiveUp
      BY <1>2, <2>2, <3>1 DEF CheckTop, EndLoop, Promised!GiveUp
    <3>. QED
      BY <3>2 DEF Promised!Next
  <2>. QED
    BY <2>1, <2>2
<1>3. CASE \E err \in Errors : pc \in {"before", "spawn"} /\ LaunchFailed(err)
  <2>1. metrics'.restarts = metrics.restarts
    BY <1>3 DEF LaunchFailed, IInv, TypeOK, Metrics
  <2>2. Promised!LaunchFails
    BY <1>3, <2>1 DEF LaunchFailed, Promised!LaunchFails
  <2>. QED
    BY <2>2 DEF Promised!Next
<1>4. CASE Spawn
  <2>1. cur + 1 \in Children
    BY <1>4, RoomToLaunch DEF Spawn, Paid
  <2>2. Promised!Launch
    BY <1>4, <2>1 DEF Spawn, Promised!Launch, IInv, TypeOK, ChildTypeOK
  <2>. QED
    BY <2>2 DEF Promised!Next
<1>5. CASE AwaitDone
  <2>1. \A p \in Children : ~IsRunning(p)
    BY <1>5, CurrentOnly DEF AwaitDone, Done
  <2>2. Promised!Notice
    BY <1>5, <2>1 DEF AwaitDone, Promised!Notice
  <2>. QED
    BY <2>2 DEF Promised!Next
<1>6. CASE pc \in {"postcheck", "terminal"} /\ (CheckAfterStop \/ Terminal)
             /\ pc' = "closing"
  <2>1. Promised!GiveUp
    BY <1>6 DEF CheckAfterStop, Terminal, Promised!GiveUp
  <2>. QED
    BY <2>1 DEF Promised!Next
<1>7. CASE Judge /\ ShouldRestart
  <2>1. Promised!DecideRetry
    BY <1>7 DEF Judge, ShouldRestart, BudgetLeft, Promised!DecideRetry,
                Promised!BudgetLeft
  <2>. QED
    BY <2>1 DEF Promised!Next
<1>8. CASE RecordRestart
  <2>1. metrics'.restarts = metrics.restarts + 1
    BY <1>8 DEF RecordRestart, IInv, TypeOK, Metrics
  <2>2. Promised!Retry
    BY <1>8, <2>1 DEF RecordRestart, Promised!Retry
  <2>. QED
    BY <2>2 DEF Promised!Next
<1>9. CASE SleepBackoff /\ pc' = "closing"
  <2>1. Promised!GiveUp
    BY <1>9 DEF SleepBackoff, Promised!GiveUp
  <2>. QED
    BY <2>1 DEF Promised!Next
<1>10. CASE CloseDone
  <2>1. Promised!Close
    BY <1>10 DEF CloseDone, Promised!Close
  <2>. QED
    BY <2>1 DEF Promised!Next
<1>11. CASE Phase' = Phase
              /\ UNCHANGED <<cur, procs, stopping, cancelled, metrics.restarts>>
  BY <1>11, HiddenStep
<1>12. CASE RecordStart \/ RecordStop
  <2>1. metrics'.restarts = metrics.restarts
    BY <1>12 DEF RecordStart, RecordStop, StopMetrics, IInv, TypeOK, Metrics
  <2>2. Phase' = Phase /\ UNCHANGED <<cur, procs, stopping, cancelled>>
    BY <1>12 DEF RecordStart, RecordStop
  <2>. QED
    BY <2>1, <2>2, HiddenStep
<1>13. CASE SetProcess \/ ConsumeUnhealthyFlag \/ ClearProcess \/ AfterStop
  BY <1>11, <1>13
     DEF SetProcess, ConsumeUnhealthyFlag, ClearProcess, AfterStop
<1>14. CASE BeforeStart
  BY <1>3, <1>11, <1>14 DEF BeforeStart, Errors
<1>15. CASE SpawnFails
  BY <1>3, <1>15 DEF SpawnFails, Errors
<1>16. CASE CheckAfterStop
  BY <1>6, <1>11, <1>16 DEF CheckAfterStop, EndLoop
<1>17. CASE Terminal
  BY <1>6, <1>17 DEF Terminal, EndLoop
<1>18. CASE Judge
  BY <1>7, <1>11, <1>18 DEF Judge
<1>19. CASE SleepBackoff
  BY <1>9, <1>11, <1>19 DEF SleepBackoff, EndLoop
<1>. QED
  BY <1>1, <1>2, <1>4, <1>5, <1>8, <1>10, <1>12, <1>13, <1>14, <1>15, <1>16,
     <1>17, <1>18, <1>19 DEF LoopStep

\* What the others do is a halt, the child's end, or hidden.
LEMMA OthersPromised ==
  ASSUME IInv, Others
  PROVE  [Promised!Next]_(Promised!vars)
<1>1. UNCHANGED <<pc, cur>> /\ metrics'.restarts = metrics.restarts
  BY OthersFrame
<1>2. Phase' = Phase
  BY <1>1 DEF Phase
<1>3. CASE ParentCancel \/ \E c \in Stoppers : StopCall(c) \/ StopCancel(c)
  <2>1. pc # "idle" /\ UNCHANGED procs /\ (stopping' \/ cancelled')
    BY <1>3 DEF ParentCancel, StopCall, StopCancel, StopAt, IInv, Lifecycle,
                Targets, childVars
  <2>2. Phase # "idle"
    BY <2>1 DEF Phase, IInv, TypeOK, ControlTypeOK, LoopPoints
  <2>3. \A p \in Children : IsRunning(p)' <=> IsRunning(p)
    BY <2>1 DEF IsRunning
  <2>4. Promised!Halt
    BY <1>1, <1>2, <2>1, <2>2, <2>3 DEF Promised!Halt
  <2>. QED
    BY <2>4 DEF Promised!Next
<1>4. CASE \E p \in Children : Reap(p)
  <2>1. UNCHANGED <<stopping, cancelled>>
    BY <1>4 DEF Reap, ctlVars
  <2>2. PICK p \in Children : Reap(p)
    BY <1>4
  <2>3. IsRunning(p) /\ procs' = [procs EXCEPT ![p] = "finished"]
    BY <2>2 DEF Reap, IsRunning
  <2>4. pc \in Launched /\ \A q \in Children : IsRunning(q) => q = p
    BY <2>3, CurrentOnly
  <2>5. \A q \in Children : ~IsRunning(q)'
    BY <2>3, <2>4 DEF IsRunning, IInv, TypeOK, ChildTypeOK
  <2>6. Phase = "up"
    BY <2>4 DEF Phase, Launched
  <2>7. Promised!ChildEnds
    BY <1>1, <1>2, <2>1, <2>5, <2>6 DEF Promised!ChildEnds
  <2>. QED
    BY <2>7 DEF Promised!Next
<1>5. CASE \E p \in Children : LeaderExits(p) \/ GroupExits(p)
  <2>1. UNCHANGED <<stopping, cancelled>>
    BY <1>5 DEF LeaderExits, GroupExits, ctlVars
  <2>2. \A p \in Children : IsRunning(p)' <=> IsRunning(p)
    BY <1>5 DEF LeaderExits, GroupExits, IsRunning, IInv, TypeOK, ChildTypeOK
  <2>. QED
    BY <1>1, <1>2, <2>1, <2>2 DEF Promised!vars
<1>6. CASE UNCHANGED <<procs, stopping, cancelled>>
  BY <1>1, <1>2, <1>6, HiddenStep
<1>7. CASE \E p \in Children : HealthStep(p)
  <2>1. UNCHANGED <<stopping, cancelled>>
    BY <1>7, ChildrenKeepStops DEF ctlVars
  <2>2. UNCHANGED procs
    BY <1>7
       DEF HealthStep, HealthQuit, HealthTickFinished, HealthTick,
           RecordHealthSuccess, RecordHealthFailure, MarkUnhealthy, HealthStop,
           HealthGrace, childVars
  <2>. QED
    BY <1>6, <2>1, <2>2
<1>8. CASE \E c \in Stoppers : StopRefused(c) \/ StopCall(c) \/ StopStep(c)
  BY <1>3, <1>6, <1>8
     DEF StopRefused, StopStep, StopSignal, StopGrace, StopJoin, ctlVars,
         childVars
<1>. QED
  BY <1>3, <1>4, <1>5, <1>7, <1>8 DEF Others

\* Every behaviour of the Supervisor is one that Supervision allows.
THEOREM PromiseKept == Spec => Promise
<1>1. IInv /\ [Next]_vars => [Promised!Next]_(Promised!vars)
  <2>. SUFFICES ASSUME IInv, [Next]_vars
                PROVE  [Promised!Next]_(Promised!vars)
    OBVIOUS
  <2>1. CASE UNCHANGED vars
    <3>1. Phase' = Phase
            /\ UNCHANGED <<cur, procs, stopping, cancelled, metrics.restarts>>
      BY <2>1 DEF vars, loopVars, childVars, ctlVars, Phase
    <3>. QED
      BY <3>1, HiddenStep
  <2>2. CASE Start \/ LoopStep
    BY <2>2, LoopPromised
  <2>3. CASE /\ ~(Start \/ LoopStep)
             /\ Next
    BY <2>1, <2>3, OthersPromised DEF Next, Others
  <2>. QED
    BY <2>1, <2>2, <2>3
<1>. QED
  BY <1>1, InitPromised, Invariance, PTL DEF Spec, Promise, Promised!Spec

-----------------------------------------------------------------------------
(* What a condemnation rests on                                            *)

\* A health loop marks its child once, after enough failures in a row.
Marks ==
  \A p \in Children :
    /\ hl[p] \in {"none", "select", "checking", "mark"} => marked[p] = "no"
    /\ hl[p] = "mark" \/ marked[p] # "no" => Condemns(failures[p])

NoneLate == \A p \in Children : marked[p] # "late"

\* Whatever says "unhealthy" goes back to a mark; while none came late, to a
\* mark of the child that it is said of.
Traced ==
  /\ last.err # "health"
  /\ unhealthyStop \/ unhealthy \/ finalErr = "health" =>
       \E p \in Children : marked[p] # "no"
  /\ NoneLate =>
       /\ unhealthyStop => pc \in {"await", "consume"} /\ marked[cur] = "intime"
       /\ unhealthy /\ pc \in {"clear", "recstop", "after"} =>
            marked[cur] = "intime"
  /\ pc = "recstop" => last = ResultOf(cur)
  /\ pc = "after" => cur # 0
  /\ NoneLate => CleanExitBreaksChain

\* loop() leaves the health loops alone, but for starting one.
LEMMA LoopFrame ==
  ASSUME Start \/ LoopStep
  PROVE  /\ UNCHANGED <<failures, marked, outcome, killed, lastHealth, policy,
                        stopping, cancelled, stopVars>>
         /\ UNCHANGED hl \/ RecordStart
  BY DEF Start, LoopStep, CheckTop, BeforeStart, SpawnFails, LaunchFailed,
         Spawn, SetProcess, RecordStart, AwaitDone, ConsumeUnhealthyFlag,
         ClearProcess, RecordStop, AfterStop, CheckAfterStop, Judge, Terminal,
         RecordRestart, SleepBackoff, CloseDone, childVars, healthVars,
         flagVars, ctlVars

\* A mark is only set by a health loop that has counted enough failures.
LEMMA MarksStep == IInv /\ Marks /\ [Next]_vars => Marks'
<1>. SUFFICES ASSUME IInv, Marks, [Next]_vars PROVE Marks'
  OBVIOUS
<1>1. HealthTypeOK
  BY DEF IInv, TypeOK
<1>2. CASE UNCHANGED <<hl, failures, marked>>
  BY <1>2 DEF Marks, Condemns
<1>3. CASE RecordStart
  <2>1. UNCHANGED <<failures, marked>>
    BY <1>3 DEF RecordStart
  <2>2. \A p \in Children : hl'[p] # hl[p] =>
          p = cur /\ hl'[p] \in {"select", "none"}
    BY <1>1, <1>3 DEF RecordStart, HealthTypeOK
  <2>3. cur \in Children => marked[cur] = "no"
    BY <1>3 DEF RecordStart, IInv, Flags
  <2>. QED
    BY <2>1, <2>2, <2>3 DEF Marks, Condemns
<1>4. ASSUME NEW p \in Children, HealthStep(p) PROVE Marks'
  <2>1. \A q \in Children : q # p =>
          /\ hl'[q] = hl[q] /\ failures'[q] = failures[q]
          /\ marked'[q] = marked[q]
    BY <1>1, <1>4
       DEF HealthStep, HealthQuit, HealthTickFinished, HealthTick,
           RecordHealthSuccess, RecordHealthFailure, MarkUnhealthy, HealthStop,
           HealthGrace, HealthAt, HealthTypeOK
  <2>2. CASE HealthQuit(p) \/ HealthTickFinished(p) \/ HealthTick(p)
    BY <1>1, <2>1, <2>2
       DEF HealthQuit, HealthTickFinished, HealthTick, HealthAt, HealthTypeOK,
           Marks, Condemns
  <2>3. CASE RecordHealthSuccess(p)
    BY <1>1, <2>1, <2>3
       DEF RecordHealthSuccess, HealthAt, HealthTypeOK, Marks, Condemns
  <2>4. CASE RecordHealthFailure(p)
    BY <1>1, <2>1, <2>4
       DEF RecordHealthFailure, HealthAt, HealthTypeOK, Marks, Condemns
  <2>5. CASE MarkUnhealthy(p)
    BY <1>1, <2>1, <2>5
       DEF MarkUnhealthy, HealthAt, HealthTypeOK, Marks, Condemns
  <2>6. CASE HealthStop(p) \/ HealthGrace(p)
    BY <1>1, <2>1, <2>6
       DEF HealthStop, HealthGrace, HealthAt, HealthTypeOK, Marks, Condemns
  <2>. QED
    BY <1>4, <2>2, <2>3, <2>4, <2>5, <2>6 DEF HealthStep
<1>5. CASE Others
  BY <1>2, <1>4, <1>5, OthersKeepHealth DEF healthVars
<1>6. CASE Start \/ LoopStep
  BY <1>2, <1>3, <1>6, LoopFrame
<1>7. CASE UNCHANGED vars
  BY <1>2, <1>7 DEF vars, healthVars
<1>. QED
  BY <1>5, <1>6, <1>7 DEF Next, Others

\* Nothing is marked before the first child.
LEMMA InitMarks == Init => Marks
  BY DEF Init, Marks

LEMMA MarksInvariance == Spec => []Marks
  BY InitMarks, MarksStep, Invariance, PTL DEF Spec

-----------------------------------------------------------------------------

\* The children's outcomes are fixed once they have ended.
LEMMA OutcomeFixed ==
  ASSUME IInv, [Next]_vars, NEW p \in Children, procs[p] = "finished"
  PROVE  outcome'[p] = outcome[p] /\ procs'[p] = "finished"
<1>1. ChildTypeOK /\ cur \in 0 .. (RestartBound + 1)
  BY DEF IInv, TypeOK, ControlTypeOK
<1>2. CASE \E q \in Children : LeaderExits(q) \/ GroupExits(q) \/ Reap(q)
  BY <1>1, <1>2 DEF LeaderExits, GroupExits, Reap, ChildTypeOK
<1>3. CASE Spawn
  BY <1>1, <1>3 DEF Spawn, ChildTypeOK, IInv, Lifecycle, Children
<1>4. CASE UNCHANGED <<procs, outcome>>
  BY <1>4
<1>. QED
  BY <1>2, <1>3, <1>4
     DEF Next, vars, childVars, Start, LoopStep, CheckTop, BeforeStart,
         SpawnFails, LaunchFailed, SetProcess, RecordStart, AwaitDone,
         ConsumeUnhealthyFlag, ClearProcess, RecordStop, AfterStop,
         CheckAfterStop, Judge, Terminal, RecordRestart, SleepBackoff,
         CloseDone, ParentCancel, HealthStep, HealthQuit, HealthTickFinished,
         HealthTick, RecordHealthSuccess, RecordHealthFailure, MarkUnhealthy,
         HealthStop, HealthGrace, StopRefused, StopCall, StopStep, StopSignal,
         StopGrace, StopCancel, StopJoin

\* loop() takes the flag from one place to the next and forgets it for the
\* next child.
LEMMA LoopTraced ==
  ASSUME IInv, Traced, Start \/ LoopStep
  PROVE  Traced'
<1>. USE DEF Traced, NoneLate, CleanExitBreaksChain, ResultOf
<1>. USE DEF childVars, healthVars, resultVars, flagVars
<1>1. CASE Start
  BY <1>1 DEF Start
<1>2. CASE CheckTop
  BY <1>2 DEF CheckTop, EndLoop
<1>3. CASE \E err \in Errors \ {"health"} :
             pc \in {"before", "spawn"} /\ LaunchFailed(err)
  BY <1>3 DEF LaunchFailed
<1>4. CASE BeforeStart
  BY <1>3, <1>4 DEF BeforeStart, Errors
<1>5. CASE SpawnFails
  BY <1>3, <1>5 DEF SpawnFails, Errors
<1>6. CASE Spawn
  BY <1>6 DEF Spawn
<1>7. CASE SetProcess
  BY <1>7 DEF SetProcess
<1>8. CASE RecordStart
  BY <1>8 DEF RecordStart
<1>9. CASE AwaitDone
  BY <1>9 DEF AwaitDone
<1>10. CASE ConsumeUnhealthyFlag
  BY <1>10 DEF ConsumeUnhealthyFlag, FlagValue
<1>11. CASE ClearProcess
  BY <1>11 DEF ClearProcess
<1>12. CASE RecordStop
  <2>1. /\ pc = "recstop" /\ pc' = "after" /\ last = ResultOf(cur)
        /\ UNCHANGED <<cur, unhealthy, marked, outcome, unhealthyStop, last,
                       finalErr>>
        /\ cur # 0
    BY <1>12 DEF RecordStop, IInv, Lifecycle, Counted
  <2>2. CASE CleanStop
    <3>1. metrics'.consecutiveRestarts = 0
      BY <1>12, <2>2 DEF RecordStop, StopMetrics, IInv, TypeOK, Metrics
    <3>. QED
      BY <2>1, <3>1
  <2>3. CASE ~CleanStop
    <3>1. unhealthy \/ outcome[cur] # "clean"
      BY <2>1, <2>3 DEF CleanStop
    <3>2. NoneLate /\ unhealthy => marked[cur] = "intime"
      BY <2>1
    <3>. QED
      BY <2>1, <3>1, <3>2
  <2>. QED
    BY <2>2, <2>3
<1>13. CASE AfterStop
  BY <1>13 DEF AfterStop, IInv, TypeOK, ControlTypeOK, Results
<1>14. CASE CheckAfterStop
  BY <1>14 DEF CheckAfterStop, EndLoop
<1>15. CASE Judge
  BY <1>15 DEF Judge
<1>16. CASE Terminal
  BY <1>16 DEF Terminal, EndLoop, TerminalError
<1>17. CASE RecordRestart
  BY <1>17 DEF RecordRestart
<1>18. CASE SleepBackoff
  BY <1>18 DEF SleepBackoff, EndLoop
<1>19. CASE CloseDone
  BY <1>19 DEF CloseDone
<1>. QED
  BY <1>1, <1>2, <1>4, <1>5, <1>6, <1>7, <1>8, <1>9, <1>10, <1>11, <1>12,
     <1>13, <1>14, <1>15, <1>16, <1>17, <1>18, <1>19 DEF LoopStep

\* The others only ever add a mark, and the flag with it.
LEMMA OthersTraced ==
  ASSUME IInv, Marks, Traced, Others
  PROVE  Traced'
<1>1. /\ UNCHANGED <<pc, cur, unhealthy, last, finalErr>>
      /\ metrics'.consecutiveRestarts = metrics.consecutiveRestarts
  <2>1. metrics'.consecutiveRestarts = metrics.consecutiveRestarts
    BY DEF Others, IInv, TypeOK, Metrics, ParentCancel, HealthStep,
           HealthQuit, HealthTickFinished, HealthTick, RecordHealthSuccess,
           RecordHealthFailure, MarkUnhealthy, HealthStop, HealthGrace,
           LeaderExits, GroupExits, Reap, StopRefused, StopCall, StopStep,
           StopSignal, StopGrace, StopCancel, StopJoin
  <2>. QED
    BY <2>1, OthersFrame, OthersKeepResults
<1>2. pc \in {"recstop", "after"} => outcome'[cur] = outcome[cur]
  <2>1. ASSUME pc \in {"recstop", "after"}, cur # 0
        PROVE  outcome'[cur] = outcome[cur]
    <3>1. cur \in Children /\ procs[cur] = "finished"
      BY <2>1 DEF IInv, TypeOK, ControlTypeOK, Lifecycle, Launched, Children
    <3>. QED
      BY <3>1, OutcomeFixed DEF Next, Others
  <2>2. ASSUME pc \in {"recstop", "after"}, cur = 0
        PROVE  outcome'[cur] = outcome[cur]
    BY <2>2 DEF IInv, Lifecycle, Counted, Traced
  <2>. QED
    BY <2>1, <2>2
<1>3. CASE UNCHANGED <<marked, unhealthyStop>>
  BY <1>1, <1>2, <1>3
     DEF Traced, NoneLate, CleanExitBreaksChain, ResultOf
<1>4. ASSUME NEW p \in Children, MarkUnhealthy(p)
      PROVE  Traced'
  <2>1. /\ marked[p] = "no"
        /\ marked' = [marked EXCEPT ![p] = IF FlagAhead(p) THEN "intime"
                                           ELSE "late"]
        /\ marked \in [Children -> {"no", "intime", "late"}]
    BY <1>4 DEF MarkUnhealthy, HealthAt, Marks, IInv, TypeOK, HealthTypeOK
  <2>2. CASE FlagAhead(p)
    <3>1. marked'[cur] = "intime" /\ pc \in {"await", "consume"}
      BY <2>1, <2>2 DEF FlagAhead
    <3>. QED
      BY <1>1, <2>1, <2>2, <3>1 DEF Traced, CleanExitBreaksChain
  <2>3. CASE ~FlagAhead(p)
    <3>1. marked'[p] = "late"
      BY <2>1, <2>3
    <3>. QED
      BY <1>1, <1>2, <3>1 DEF Traced, NoneLate, ResultOf
  <2>. QED
    BY <2>2, <2>3
<1>5. UNCHANGED <<marked, unhealthyStop>> \/ \E p \in Children : MarkUnhealthy(p)
  BY OthersKeepHealth
     DEF healthVars, flagVars, HealthStep, HealthQuit, HealthTickFinished,
         HealthTick, RecordHealthSuccess, RecordHealthFailure, HealthStop,
         HealthGrace
<1>. QED
  BY <1>3, <1>4, <1>5

\* Traced with Marks is inductive.
LEMMA TracedInvariance == Spec => [](Marks /\ Traced)
<1>1. Init => Traced
  BY DEF Init, Traced, CleanExitBreaksChain
<1>2. IInv /\ Marks /\ Traced /\ [Next]_vars => Traced'
  <2>. SUFFICES ASSUME IInv, Marks, Traced, [Next]_vars PROVE Traced'
    OBVIOUS
  <2>1. CASE UNCHANGED vars
    BY <2>1 DEF vars, Traced, NoneLate, CleanExitBreaksChain, ResultOf,
                loopVars, childVars, healthVars, resultVars, flagVars
  <2>. QED
    BY <2>1, LoopTraced, OthersTraced DEF Next, Others
<1>. QED
  BY <1>1, <1>2, MarksInvariance, Invariance, PTL DEF Spec

-----------------------------------------------------------------------------
(* What Wait tells at the end                                              *)

\* No further restart: the budget is spent, or the policy wants none.
NoMore ==
  \/ MaxRestarts > 0 /\ metrics.restarts = MaxRestarts
  \/ policy = "never"
  \/ policy = "on-failure" /\ last.err = "nil" /\ ~unhealthy

\* The error that Wait would return is one of the last launch's.
OfLastLaunch == finalErr \in {"nil", last.err} \/ (finalErr = "health" /\ unhealthy)

\* From the decision against a restart on, its reason stays the case.
Verdict ==
  /\ last.exitCode # 0 => last.err # "nil"
  /\ pc = "terminal" => Halted \/ NoMore
  /\ pc \in {"closing", "done"} =>
       /\ OfLastLaunch
       /\ Halted \/ NoMore
       /\ Halted \/ (finalErr = "nil" =>
                       last.err = "nil" /\ (unhealthy => Overlapped))

\* What the health check found stands as long as only one child had a loop:
\* a loop that has marked its child records nothing more.
Remembered ==
  (\E p \in Children : marked[p] # "no") => lastHealth # "nil" \/ Overlapped

\* No step takes an overlap back.
LEMMA OverlapStays == IInv /\ [Next]_vars /\ Overlapped => Overlapped'
<1>. SUFFICES ASSUME IInv, [Next]_vars, Overlapped PROVE Overlapped'
  OBVIOUS
<1>1. metrics \in Metrics /\ cur \in Nat
  BY BoundAssumption DEF IInv, TypeOK, ControlTypeOK
<1>2. CASE UNCHANGED vars
  BY <1>2 DEF vars, loopVars, Overlapped
<1>. DEFINE successes == metrics.healthCheckSuccesses
<1>3. CASE Others
  <2>. SUFFICES successes' \in {successes, successes + 1}
    BY <1>1, <1>3, OthersFrame DEF Overlapped, Metrics
  <2>1. CASE \E p \in Children : HealthStep(p)
    BY <1>1, <2>1
       DEF HealthStep, HealthQuit, HealthTickFinished, HealthTick,
           RecordHealthSuccess, RecordHealthFailure, MarkUnhealthy, HealthStop,
           HealthGrace, Metrics
  <2>2. CASE ~\E p \in Children : HealthStep(p)
    <3>1. UNCHANGED metrics
      BY <1>3, <2>2
         DEF Others, ParentCancel, LeaderExits, GroupExits, Reap, StopRefused,
             StopCall, StopStep, StopSignal, StopGrace, StopCancel, StopJoin
    <3>. QED
      BY <3>1
  <2>. QED
    BY <2>1, <2>2
<1>4. CASE Start \/ LoopStep
  <2>1. cur' \in {cur, cur + 1}
    BY <1>4
       DEF Start, LoopStep, CheckTop, BeforeStart, SpawnFails, LaunchFailed,
           Spawn, SetProcess, RecordStart, AwaitDone, ConsumeUnhealthyFlag,
           ClearProcess, RecordStop, AfterStop, CheckAfterStop,
           Judge, Terminal, RecordRestart, SleepBackoff, CloseDone
  <2>2. UNCHANGED metrics \/ BeforeStart \/ SpawnFails \/ RecordStart
          \/ RecordStop \/ RecordRestart
    BY <1>4
       DEF Start, LoopStep, CheckTop, Spawn, SetProcess, AwaitDone,
           ConsumeUnhealthyFlag, ClearProcess, AfterStop, CheckAfterStop,
           Judge, Terminal, SleepBackoff, CloseDone
  <2>3. UNCHANGED successes
    BY <1>1, <2>2
       DEF BeforeStart, SpawnFails, LaunchFailed, RecordStart, RecordStop,
           StopMetrics, RecordRestart, Metrics
  <2>. QED
    BY <1>1, <2>1, <2>3 DEF Overlapped
<1>. QED
  BY <1>2, <1>3, <1>4 DEF Next, Others

\* A success that forgets a mark is that of another child's loop.
LEMMA RememberedStep ==
  IInv /\ Marks /\ Remembered /\ [Next]_vars => Remembered'
<1>. SUFFICES ASSUME IInv, Marks, Remembered, [Next]_vars PROVE Remembered'
  OBVIOUS
<1>1. CASE UNCHANGED <<marked, lastHealth>>
  BY <1>1, OverlapStays DEF Remembered
<1>2. ASSUME NEW p \in Children, HealthStep(p) PROVE Remembered'
  <2>1. CASE RecordHealthSuccess(p)
    <3>. SUFFICES ASSUME NEW q \in Children, marked[q] # "no" PROVE Overlapped'
      BY <2>1 DEF Remembered, RecordHealthSuccess
    <3>1. hl[p] = "checking" /\ q # p
      BY <2>1 DEF RecordHealthSuccess, HealthAt, Marks
    <3>2. p <= cur /\ q <= cur
      BY <3>1, BoundAssumption
         DEF IInv, Flags, Children, TypeOK, ControlTypeOK
    <3>3. cur > 1
      BY <3>1, <3>2, BoundAssumption DEF Children, IInv, TypeOK, ControlTypeOK
    <3>4. metrics'.healthCheckSuccesses > 0 /\ cur' = cur
      BY <2>1 DEF RecordHealthSuccess, loopVars, IInv, TypeOK, Metrics
    <3>. QED
      BY <3>3, <3>4 DEF Overlapped
  <2>2. CASE RecordHealthFailure(p) \/ MarkUnhealthy(p)
    BY <2>2 DEF RecordHealthFailure, MarkUnhealthy, Remembered
  <2>3. CASE ~RecordHealthSuccess(p) /\ ~RecordHealthFailure(p)
               /\ ~MarkUnhealthy(p)
    BY <1>1, <1>2, <2>3
       DEF HealthStep, HealthQuit, HealthTickFinished, HealthTick, HealthStop,
           HealthGrace, flagVars
  <2>. QED
    BY <2>1, <2>2, <2>3
<1>3. CASE Others
  BY <1>1, <1>2, <1>3, OthersKeepHealth DEF healthVars, flagVars
<1>4. CASE Start \/ LoopStep
  BY <1>1, <1>4, LoopFrame
<1>5. CASE UNCHANGED vars
  BY <1>1, <1>5 DEF vars, healthVars, flagVars
<1>. QED
  BY <1>3, <1>4, <1>5 DEF Next, Others

\* Of loop()'s steps only those below bring it to its end.
LEMMA EndingSteps ==
  ASSUME Start \/ LoopStep, pc' \in {"terminal", "closing", "done"}
  PROVE  \/ CheckTop \/ CheckAfterStop \/ Judge \/ Terminal \/ SleepBackoff
         \/ CloseDone
  BY DEF LoopStep, Start, BeforeStart, SpawnFails, LaunchFailed, Spawn,
         SetProcess, RecordStart, AwaitDone, ConsumeUnhealthyFlag,
         ClearProcess, RecordStop, AfterStop, RecordRestart

\* A failed run has an error beside its exit code, whatever the hook adds.
LEMMA ExitCodeStep ==
  ASSUME IInv, last.exitCode # 0 => last.err # "nil", Start \/ LoopStep
  PROVE  last'.exitCode # 0 => last'.err # "nil"
<1>1. last \in Results
  BY DEF IInv, TypeOK, ControlTypeOK
<1>. QED
  BY <1>1
     DEF Start, LoopStep, CheckTop, BeforeStart, SpawnFails, LaunchFailed,
         Spawn, SetProcess, RecordStart, AwaitDone, ConsumeUnhealthyFlag,
         ClearProcess, ResultOf, RecordStop, AfterStop, CheckAfterStop, Judge,
         Terminal, RecordRestart, SleepBackoff, CloseDone, EndLoop,
         resultVars, Results

\* Each of them has its reason, or keeps the one there was.
LEMMA VerdictStep ==
  IInv /\ Traced /\ Remembered /\ Verdict /\ [Next]_vars => Verdict'
<1>. SUFFICES ASSUME IInv, Traced, Remembered, Verdict, [Next]_vars
              PROVE  Verdict'
  OBVIOUS
<1>1. CASE UNCHANGED vars
  BY <1>1
     DEF Verdict, OfLastLaunch, Overlapped, Halted, NoMore, vars, loopVars,
         resultVars, ctlVars
<1>2. CASE Others
  BY <1>2, OthersFrame, OthersKeepResults, OverlapStays
     DEF Verdict, OfLastLaunch, NoMore
<1>3. CASE Start \/ LoopStep
  <2>. (last.exitCode # 0 => last.err # "nil")'
    BY <1>3, ExitCodeStep DEF Verdict
  <2>1. CASE pc' \notin {"terminal", "closing", "done"}
    BY <2>1 DEF Verdict
  <2>2. CASE CheckTop \/ CheckAfterStop
    <3>1. pc' = "terminal" \/ pc' = "done" => FALSE
      BY <2>2 DEF CheckTop, CheckAfterStop, EndLoop
    <3>2. pc' = "closing" => ShouldExit /\ finalErr' = "nil"
      BY <2>2 DEF CheckTop, CheckAfterStop, EndLoop
    <3>3. started /\ UNCHANGED <<stopping, cancelled>>
      BY <2>2 DEF CheckTop, CheckAfterStop, ctlVars, IInv, Lifecycle
    <3>. QED
      BY <3>1, <3>2, <3>3 DEF Verdict, OfLastLaunch, Halted, ShouldExit
  <2>3. CASE Judge
    <3>1. CASE Halted
      BY <2>3, <3>1 DEF Judge, Verdict, Halted, ctlVars
    <3>2. CASE ~Halted /\ ~BudgetLeft
      <4>1. MaxRestarts > 0 /\ metrics.restarts = MaxRestarts
        BY <3>2, BudgetAssumption
           DEF BudgetLeft, IInv, Budget, TypeOK, Metrics
      <4>. QED
        BY <2>3, <4>1 DEF Judge, Verdict, NoMore
    <3>3. CASE ~Halted /\ BudgetLeft /\ ~PolicyAllows
      <4>1. NoMore
        BY <3>3 DEF PolicyAllows, NoMore, IInv, TypeOK, ControlTypeOK,
                    Policies
      <4>. QED
        BY <2>3, <4>1 DEF Judge, Verdict, NoMore, ctlVars, resultVars
    <3>4. CASE ~Halted /\ BudgetLeft /\ PolicyAllows
      BY <2>3, <3>4 DEF Judge, ShouldRestart, Halted, Verdict
    <3>. QED
      BY <3>1, <3>2, <3>3, <3>4
  <2>4. CASE Terminal
    <3>1. /\ pc' = "closing" /\ finalErr' = TerminalError
          /\ UNCHANGED <<last, unhealthy, metrics, stopping, cancelled, policy,
                         cur>>
      BY <2>4 DEF Terminal, EndLoop, ctlVars
    <3>2. OfLastLaunch'
      BY <3>1 DEF TerminalError, OfLastLaunch, Verdict
    <3>3. finalErr' = "nil" => last.err = "nil" /\ (unhealthy => lastHealth = "nil")
      BY <3>1 DEF TerminalError, Verdict
    <3>4. unhealthy /\ lastHealth = "nil" => Overlapped
      BY DEF Traced, Remembered
    <3>5. (Halted \/ NoMore)' /\ (Overlapped => Overlapped')
      BY <2>4, <3>1 DEF Verdict, Halted, NoMore, Overlapped, Terminal
    <3>. QED
      BY <3>1, <3>2, <3>3, <3>4, <3>5 DEF Verdict
  <2>5. CASE SleepBackoff
    BY <2>5 DEF SleepBackoff, EndLoop, Verdict, OfLastLaunch, Halted, ctlVars
  <2>6. CASE CloseDone
    BY <2>6 DEF CloseDone, Verdict, OfLastLaunch, Overlapped, Halted, NoMore,
                ctlVars, resultVars
  <2>. QED
    BY <1>3, <2>1, <2>2, <2>3, <2>4, <2>5, <2>6, EndingSteps
<1>. QED
  BY <1>1, <1>2, <1>3 DEF Next, Others

\* A loop that ends on its own has spent its budget or follows its policy,
\* and Wait tells what its last launch came to, whichever launch, hook, crash
\* or health check ended it and whatever raced with its end.
THEOREM EndsJustified == Spec => []EndIsJustified
<1>1. Init => Verdict /\ Remembered
  BY DEF Init, Verdict, Remembered
<1>2. Verdict => EndIsJustified
  BY DEF Verdict, OfLastLaunch, Halted, NoMore, EndIsJustified
<1>. QED
  BY <1>1, <1>2, VerdictStep, RememberedStep, TracedInvariance, Invariance, PTL
     DEF Spec

\* supervisor.go:680 again: the flag that names no child is all that stands
\* between a clean exit and the end of its chain.  As long as no health loop
\* marks its child too late, CleanExitBreaksChain holds.
THEOREM OnlyLateMarksMislead == Spec => [](NoneLate => CleanExitBreaksChain)
<1>1. Traced => (NoneLate => CleanExitBreaksChain)
  BY DEF Traced
<1>. QED
  BY <1>1, TracedInvariance, PTL

\* "unhealthy" is never said without a child whose own health loop counted
\* HealthCheckFailures failures in a row, and neither is the final error.
THEOREM CondemnationEarned ==
  Spec => [](unhealthy \/ finalErr = "health" =>
               \E p \in Children :
                 marked[p] # "no" /\ failures[p] >= HealthCheckFailures)
<1>1. Marks /\ Traced =>
        (unhealthy \/ finalErr = "health" =>
           \E p \in Children :
             marked[p] # "no" /\ failures[p] >= HealthCheckFailures)
  BY DEF Marks, Traced, Condemns
<1>. QED
  BY <1>1, TracedInvariance, PTL

-----------------------------------------------------------------------------
(* Counters                                                                *)

\* Once an attempt to launch has come to its end, well or badly.
Concluded == {"after", "postcheck", "judge", "terminal", "record", "closing",
              "done"}

\* Every launch is counted as a start, but for the one that is about to be,
\* and every attempt, the first or a restart, as one crash at most.
AttemptsCounted ==
  /\ metrics.starts = IF pc \in {"setproc", "recstart"} THEN cur - 1 ELSE cur
  /\ metrics.crashes <= metrics.restarts + 1

Attempts ==
  /\ AttemptsCounted
  /\ pc \notin Concluded => metrics.crashes <= metrics.restarts

\* A step of loop() counts what it stands for.
LEMMA AttemptsStep == IInv /\ Attempts /\ [Next]_vars => Attempts'
<1>. SUFFICES ASSUME IInv, Attempts, [Next]_vars PROVE Attempts'
  OBVIOUS
<1>. USE DEF Attempts, AttemptsCounted, Concluded
<1>1. /\ metrics \in Metrics /\ metrics.starts \in Nat
      /\ metrics.crashes \in Nat /\ metrics.restarts \in Nat /\ cur \in Nat
  BY DEF IInv, TypeOK, ControlTypeOK, Metrics
<1>2. CASE Others \/ UNCHANGED vars
  <2>1. /\ UNCHANGED <<pc, cur>> /\ metrics'.starts = metrics.starts
        /\ metrics'.crashes = metrics.crashes
        /\ metrics'.restarts = metrics.restarts
    BY <1>2, OthersFrame, OthersKeepResults DEF vars, loopVars
  <2>. QED
    BY <2>1
<1>3. CASE /\ UNCHANGED <<metrics, cur>>
           /\ pc \in Concluded \/ pc' \notin Concluded \/ pc \notin Concluded
           /\ pc' \notin Concluded => pc \notin Concluded
           /\ pc \in {"setproc", "recstart"} <=> pc' \in {"setproc", "recstart"}
  BY <1>1, <1>3
<1>4. CASE \E err \in Errors : pc \in {"before", "spawn"} /\ LaunchFailed(err)
  <2>1. /\ metrics'.starts = metrics.starts
        /\ metrics'.crashes = metrics.crashes + 1
        /\ metrics'.restarts = metrics.restarts
        /\ pc' = "judge" /\ cur' = cur
    BY <1>1, <1>4 DEF LaunchFailed, Metrics
  <2>. QED
    BY <1>1, <1>4, <2>1
<1>5. CASE Spawn
  BY <1>1, <1>5 DEF Spawn
<1>6. CASE RecordStart
  <2>1. /\ metrics'.starts = metrics.starts + 1
        /\ metrics'.crashes = metrics.crashes
        /\ metrics'.restarts = metrics.restarts
        /\ pc = "recstart" /\ pc' = "await" /\ cur' = cur
    BY <1>1, <1>6 DEF RecordStart, Metrics
  <2>. QED
    BY <1>1, <2>1
<1>7. CASE RecordStop
  <2>1. /\ metrics'.starts = metrics.starts
        /\ metrics'.crashes \in {metrics.crashes, metrics.crashes + 1}
        /\ metrics'.restarts = metrics.restarts
        /\ pc = "recstop" /\ pc' = "after" /\ cur' = cur
    BY <1>1, <1>7 DEF RecordStop, StopMetrics, Metrics
  <2>. QED
    BY <1>1, <2>1
<1>8. CASE RecordRestart
  <2>1. /\ metrics'.starts = metrics.starts
        /\ metrics'.crashes = metrics.crashes
        /\ metrics'.restarts = metrics.restarts + 1
        /\ pc = "record" /\ pc' = "backoff" /\ cur' = cur
    BY <1>1, <1>8 DEF RecordRestart, Metrics
  <2>. QED
    BY <1>1, <2>1
<1>9. CASE BeforeStart \/ SpawnFails
  BY <1>3, <1>4, <1>9 DEF BeforeStart, SpawnFails, Errors
<1>10. CASE \/ Start \/ CheckTop \/ SetProcess \/ AwaitDone
            \/ ConsumeUnhealthyFlag \/ ClearProcess \/ AfterStop
            \/ CheckAfterStop \/ Judge \/ Terminal \/ CloseDone
  BY <1>3, <1>10
     DEF Start, CheckTop, SetProcess, AwaitDone, ConsumeUnhealthyFlag,
         ClearProcess, AfterStop, CheckAfterStop, Judge, Terminal, CloseDone,
         EndLoop
<1>11. CASE SleepBackoff
  BY <1>3, <1>11 DEF SleepBackoff, EndLoop
<1>. QED
  BY <1>2, <1>5, <1>6, <1>7, <1>8, <1>9, <1>10, <1>11 DEF Next, LoopStep, Others

\* Starts is the number of launches, and no attempt crashes twice: a hook that
\* fails after a crash, or a child that is stopped by its health loop, is
\* counted with the crash there was.
THEOREM AttemptsAddUp == Spec => []AttemptsCounted
<1>1. Init => Attempts
  BY DEF Init, Attempts, AttemptsCounted, Concluded
<1>2. Attempts => AttemptsCounted
  BY DEF Attempts
<1>. QED
  BY <1>1, <1>2, AttemptsStep, Invariance, PTL DEF Spec

-----------------------------------------------------------------------------
(* What is left to do after a halt                                         *)

\* The steps that loop() can at most still take, once it was asked to stop.
StepsLeft(l) ==
  CASE l = "done" -> 0
    [] l = "closing" -> 1
    [] l \in {"top", "terminal"} -> 2
    [] l \in {"judge", "backoff"} -> 3
    [] l \in {"postcheck", "record"} -> 4
    [] l = "after" -> 5
    [] l = "recstop" -> 6
    [] l = "clear" -> 7
    [] l = "consume" -> 8
    [] l = "await" -> 9
    [] l = "recstart" -> 10
    [] l = "setproc" -> 11
    [] l = "spawn" -> 12
    [] l = "before" -> 13
    [] l = "idle" -> 14

\* Every step of loop() after a halt leaves fewer to take, nobody else adds to
\* them, and only a launch that was on its way already may still come.
ComesToItsEnd ==
  [][Halted =>
       /\ LoopStep => StepsLeft(pc') < StepsLeft(pc)
       /\ ~LoopStep => UNCHANGED <<pc, cur>>
       /\ pc \notin {"before", "spawn"} =>
            cur' = cur /\ pc' \notin {"before", "spawn"}]_vars

\* Nobody halts what was not started.
HaltNeedsStart == Halted => started

LEMMA HaltNeedsStartStep ==
  IInv /\ HaltNeedsStart /\ [Next]_vars => HaltNeedsStart'
<1>. SUFFICES ASSUME IInv, HaltNeedsStart, [Next]_vars PROVE HaltNeedsStart'
  OBVIOUS
<1>. USE DEF HaltNeedsStart, Halted
<1>1. CASE UNCHANGED vars
  BY <1>1 DEF vars, ctlVars
<1>2. CASE Start \/ LoopStep
  <2>1. UNCHANGED <<stopping, cancelled>>
    BY <1>2, LoopFrame
  <2>2. started => started'
    BY <1>2 DEF Start, LoopStep, CheckTop, BeforeStart, SpawnFails,
                LaunchFailed, Spawn, SetProcess, RecordStart, AwaitDone,
                ConsumeUnhealthyFlag, ClearProcess, RecordStop, AfterStop,
                CheckAfterStop, Judge, Terminal, RecordRestart, SleepBackoff,
                CloseDone, ctlVars
  <2>. QED
    BY <2>1, <2>2
<1>3. CASE Others
  <2>1. started' = started
    BY <1>3, OthersFrame
  <2>2. CASE ParentCancel \/ \E c \in Stoppers : StopCall(c)
    BY <2>1, <2>2 DEF ParentCancel, StopCall
  <2>3. ASSUME NEW c \in Stoppers, StopCancel(c) PROVE started
    BY <2>3 DEF StopCancel, StopAt, IInv, Targets, Lifecycle
  <2>4. ASSUME NEW p \in Children,
               HealthStep(p) \/ LeaderExits(p) \/ GroupExits(p) \/ Reap(p)
        PROVE  UNCHANGED <<stopping, cancelled>>
    BY <2>4, ChildrenKeepStops DEF ctlVars
  <2>5. ASSUME NEW c \in Stoppers,
               StopRefused(c) \/ StopSignal(c) \/ StopGrace(c) \/ StopJoin(c)
        PROVE  UNCHANGED <<stopping, cancelled>>
    BY <2>5 DEF StopRefused, StopSignal, StopGrace, StopJoin, ctlVars
  <2>. QED
    BY <1>3, <2>1, <2>2, <2>3, <2>4, <2>5 DEF Others, StopStep
<1>. QED
  BY <1>1, <1>2, <1>3 DEF Next, Others

\* However the steps of callers, children and health loops fall between them,
\* loop() takes at most thirteen more steps after Stop or a cancelled context,
\* and the longest way of them launches one more child.
THEOREM StopShortensLoop == Spec => ComesToItsEnd
<1>1. Init => HaltNeedsStart
  BY DEF Init, HaltNeedsStart, Halted
<1>2. ASSUME IInv, Halted, pc # "idle", LoopStep
      PROVE  /\ StepsLeft(pc') < StepsLeft(pc)
             /\ pc \notin {"before", "spawn"} =>
                  cur' = cur /\ pc' \notin {"before", "spawn"}
  <2>. USE DEF StepsLeft
  <2>1. CASE CheckTop
    BY <1>2, <2>1 DEF CheckTop, ShouldExit, EndLoop, Halted
  <2>2. CASE BeforeStart \/ SpawnFails
    BY <2>2 DEF BeforeStart, SpawnFails, LaunchFailed
  <2>3. CASE Spawn \/ SetProcess \/ RecordStart
    BY <2>3 DEF Spawn, SetProcess, RecordStart
  <2>4. CASE AwaitDone \/ ConsumeUnhealthyFlag \/ ClearProcess
    BY <2>4 DEF AwaitDone, ConsumeUnhealthyFlag, ClearProcess
  <2>5. CASE RecordStop \/ AfterStop
    BY <2>5 DEF RecordStop, AfterStop
  <2>6. CASE CheckAfterStop
    BY <1>2, <2>6 DEF CheckAfterStop, ShouldExit, EndLoop, Halted
  <2>7. CASE Judge
    BY <1>2, <2>7 DEF Judge, ShouldRestart, Halted
  <2>8. CASE Terminal \/ RecordRestart
    BY <2>8 DEF Terminal, RecordRestart, EndLoop
  <2>9. CASE SleepBackoff \/ CloseDone
    BY <2>9 DEF SleepBackoff, CloseDone, EndLoop
  <2>. QED
    BY <1>2, <2>1, <2>2, <2>3, <2>4, <2>5, <2>6, <2>7, <2>8, <2>9 DEF LoopStep
<1>3. IInv /\ HaltNeedsStart /\ [Next]_vars =>
        [Halted => /\ LoopStep => StepsLeft(pc') < StepsLeft(pc)
                   /\ ~LoopStep => UNCHANGED <<pc, cur>>
                   /\ pc \notin {"before", "spawn"} =>
                        cur' = cur /\ pc' \notin {"before", "spawn"}]_vars
  <2>. SUFFICES ASSUME IInv, HaltNeedsStart, Next, Halted
                PROVE  /\ LoopStep => StepsLeft(pc') < StepsLeft(pc)
                       /\ ~LoopStep => UNCHANGED <<pc, cur>>
                       /\ pc \notin {"before", "spawn"} =>
                            cur' = cur /\ pc' \notin {"before", "spawn"}
    OBVIOUS
  <2>1. started /\ pc # "idle"
    BY DEF HaltNeedsStart, IInv, Lifecycle
  <2>2. CASE LoopStep
    BY <1>2, <2>1, <2>2
  <2>3. ASSUME ~LoopStep PROVE UNCHANGED <<pc, cur>>
    <3>1. ~Start
      BY <2>1 DEF Start
    <3>2. Others \/ UNCHANGED vars
      BY <2>3, <3>1 DEF Next, Others
    <3>. QED
      BY <3>2, OthersFrame DEF vars, loopVars
  <2>. QED
    BY <2>2, <2>3
<1>. QED
  BY <1>1, <1>3, HaltNeedsStartStep, Invariance, PTL DEF Spec, ComesToItsEnd

-----------------------------------------------------------------------------
(* Health loops that outlive their child                                   *)

\* The steps a health loop can still take once its child has finished.
LoopsLeft(h) ==
  CASE h = "quit" -> 0
    [] h = "select" -> 1
    [] h = "grace" -> 2
    [] h = "stop" -> 3
    [] h = "mark" -> 4
    [] h = "checking" -> 5
    [] h = "none" -> 6

\* Every step that the loop of a finished child takes leaves it fewer: the
\* check under way is the last one it reports.
OutlivedLoopsEnd ==
  [][\A p \in Children :
       procs[p] = "finished" =>
         hl'[p] = hl[p] \/ LoopsLeft(hl'[p]) < LoopsLeft(hl[p])]_vars

\* supervisor.go:501: a health loop may outlive its child, and report to the
\* metrics that the next child shares, but only to finish what it is doing.
THEOREM OutlivedLoopsFinish == Spec => OutlivedLoopsEnd
<1>1. ASSUME IInv, [Next]_vars, NEW p \in Children, procs[p] = "finished",
             hl'[p] # hl[p]
      PROVE  LoopsLeft(hl'[p]) < LoopsLeft(hl[p])
  <2>. USE <1>1 DEF LoopsLeft
  <2>1. HealthTypeOK /\ ~IsRunning(p)
    BY DEF IInv, TypeOK, IsRunning
  <2>2. CASE RecordStart
    <3>1. p = cur /\ hl'[p] \in {"select", "none"}
      BY <2>1, <2>2 DEF RecordStart, HealthTypeOK
    <3>2. hl[p] = "none"
      BY <2>2, <3>1 DEF RecordStart, IInv, Flags
    <3>. QED
      BY <3>1, <3>2
  <2>3. ASSUME NEW q \in Children, HealthStep(q)
        PROVE  q = p
    BY <2>1, <2>3
       DEF HealthStep, HealthQuit, HealthTickFinished, HealthTick,
           RecordHealthSuccess, RecordHealthFailure, MarkUnhealthy, HealthStop,
           HealthGrace, HealthAt, HealthTypeOK
  <2>4. CASE HealthStep(p)
    <3>1. ~HealthTick(p)
      BY <2>1 DEF HealthTick
    <3>. QED
      BY <2>1, <2>4, <3>1
         DEF HealthStep, HealthQuit, HealthTickFinished, RecordHealthSuccess,
             RecordHealthFailure, MarkUnhealthy, HealthStop, HealthGrace,
             HealthAt, HealthTypeOK
  <2>5. CASE UNCHANGED vars
    BY <2>5 DEF vars, healthVars
  <2>. QED
    BY <2>2, <2>3, <2>4, <2>5, LoopFrame, OthersKeepHealth
       DEF Next, Others, healthVars
<1>2. IInv /\ [Next]_vars =>
        [\A p \in Children :
           procs[p] = "finished" =>
             hl'[p] = hl[p] \/ LoopsLeft(hl'[p]) < LoopsLeft(hl[p])]_vars
  BY <1>1
<1>. QED
  BY <1>2, Invariance, PTL DEF Spec, OutlivedLoopsEnd

-----------------------------------------------------------------------------
(* What each child is                                                      *)

\* Each child as ManagedChild sees it.
Life(p) ==
  CASE procs[p] = "unborn" -> "unborn"
    [] procs[p] \in {"running", "lingering"} -> "alive"
    [] procs[p] = "exited" -> "gone"
    [] procs[p] = "finished" -> "finished"

Reported(p) == IF procs[p] = "finished" THEN outcome[p] ELSE "none"

Managed(p) == INSTANCE ManagedChild WITH
  life <- Life(p), result <- Reported(p), killed <- (p \in killed)

\* The leader's end is known before anybody is told of it.
Ended ==
  \A p \in Children :
    procs[p] \in {"lingering", "exited", "finished"} => outcome[p] # "pending"

LEMMA InitManaged == ASSUME NEW p \in Children PROVE Init => Managed(p)!Init
  BY DEF Init, Managed!Init, Life, Reported

\* The parts of a child's state change one at a time.
LEMMA ChildSteps ==
  ASSUME IInv, Next
  PROVE  \/ UNCHANGED childVars
         \/ Spawn /\ UNCHANGED <<outcome, killed>>
         \/ \E q \in Children :
              LeaderExits(q) \/ GroupExits(q) \/ Reap(q)
         \/ \E q \in Children : Kill(q) /\ UNCHANGED <<procs, outcome>>
<1>1. ASSUME NEW c \in Stoppers, StopStep(c)
      PROVE  \/ UNCHANGED childVars
             \/ \E q \in Children : Kill(q) /\ UNCHANGED <<procs, outcome>>
  <2>1. CASE StopGrace(c)
    <3>1. target[c] \in Children
      BY <2>1 DEF IInv, TypeOK, StopTypeOK, Targets, StopGrace, StopAt, Children
    <3>. QED
      BY <2>1, <3>1 DEF StopGrace, childVars
  <2>. QED
    BY <1>1, <2>1 DEF StopStep, StopSignal, StopCancel, StopJoin
<1>2. ASSUME NEW p \in Children, HealthStep(p)
      PROVE  \/ UNCHANGED childVars
             \/ \E q \in Children : Kill(q) /\ UNCHANGED <<procs, outcome>>
  BY <1>2 DEF HealthStep, HealthQuit, HealthTickFinished, HealthTick,
              RecordHealthSuccess, RecordHealthFailure, MarkUnhealthy,
              HealthStop, HealthGrace, childVars
<1>3. ASSUME NEW c \in Stoppers, StopRefused(c) \/ StopCall(c)
      PROVE  UNCHANGED childVars
  BY <1>3 DEF StopRefused, StopCall
<1>4. CASE Start \/ LoopStep \/ ParentCancel
  BY <1>4 DEF Start, LoopStep, ParentCancel, CheckTop, BeforeStart, SpawnFails,
              LaunchFailed, Spawn, SetProcess, RecordStart, AwaitDone,
              ConsumeUnhealthyFlag, ClearProcess, RecordStop, AfterStop,
              CheckAfterStop, Judge, Terminal, RecordRestart, SleepBackoff,
              CloseDone
<1>. QED
  BY <1>1, <1>2, <1>3, <1>4 DEF Next, vars

LEMMA EndedStep == IInv /\ Ended /\ [Next]_vars => Ended'
<1>. SUFFICES ASSUME IInv, Ended, [Next]_vars PROVE Ended'
  OBVIOUS
<1>1. ChildTypeOK
  BY DEF IInv, TypeOK
<1>2. CASE UNCHANGED <<procs, outcome>>
  BY <1>2 DEF Ended
<1>3. CASE Spawn /\ UNCHANGED outcome
  BY <1>1, <1>3 DEF Spawn, Ended, ChildTypeOK
<1>4. ASSUME NEW q \in Children, LeaderExits(q) PROVE Ended'
  <2>1. \A p \in Children : p # q =>
          procs'[p] = procs[p] /\ outcome'[p] = outcome[p]
    BY <1>1, <1>4 DEF LeaderExits, ChildTypeOK
  <2>2. outcome'[q] \in {"clean", "failed"}
    BY <1>1, <1>4 DEF LeaderExits, ChildTypeOK
  <2>. QED
    BY <2>1, <2>2 DEF Ended
<1>5. ASSUME NEW q \in Children, GroupExits(q) \/ Reap(q) PROVE Ended'
  BY <1>1, <1>5 DEF GroupExits, Reap, Ended, ChildTypeOK
<1>. QED
  BY <1>2, <1>3, <1>4, <1>5, ChildSteps DEF vars, childVars

\* A step of the Supervisor is, for each child, one of ManagedChild or none.
LEMMA ManagedStep ==
  ASSUME NEW p \in Children
  PROVE  IInv /\ Ended /\ [Next]_vars => [Managed(p)!Next]_(Managed(p)!vars)
<1>. SUFFICES ASSUME IInv, Ended, [Next]_vars
              PROVE  [Managed(p)!Next]_(Managed(p)!vars)
  OBVIOUS
<1>. USE DEF Managed!vars, Life, Reported
<1>1. ChildTypeOK
  BY DEF IInv, TypeOK
<1>2. CASE UNCHANGED childVars
  BY <1>2 DEF childVars
<1>3. CASE Spawn /\ UNCHANGED <<outcome, killed>>
  <2>1. cur + 1 \in Children /\ procs[cur + 1] = "unborn"
    BY <1>3, RoomToLaunch
       DEF Spawn, Paid, IInv, TypeOK, ControlTypeOK, Lifecycle, Children
  <2>2. CASE p = cur + 1
    <3>1. Managed(p)!Launch
      BY <1>1, <1>3, <2>1, <2>2 DEF Spawn, ChildTypeOK, Managed!Launch
    <3>. QED
      BY <3>1 DEF Managed!Next
  <2>3. CASE p # cur + 1
    BY <1>1, <1>3, <2>3 DEF Spawn, ChildTypeOK
  <2>. QED
    BY <2>2, <2>3
<1>4. ASSUME NEW q \in Children, q # p,
             LeaderExits(q) \/ GroupExits(q) \/ Reap(q)
      PROVE  UNCHANGED Managed(p)!vars
  BY <1>1, <1>4 DEF LeaderExits, GroupExits, Reap, ChildTypeOK
<1>5. CASE LeaderExits(p)
  <2>1. procs'[p] = "lingering" => UNCHANGED Managed(p)!vars
    BY <1>1, <1>5 DEF LeaderExits, ChildTypeOK
  <2>2. procs'[p] = "exited" => Managed(p)!End
    BY <1>1, <1>5 DEF LeaderExits, ChildTypeOK, Managed!End
  <2>3. procs'[p] \in {"lingering", "exited"}
    BY <1>1, <1>5 DEF LeaderExits, ChildTypeOK
  <2>. QED
    BY <2>1, <2>2, <2>3 DEF Managed!Next
<1>6. CASE GroupExits(p)
  <2>1. Managed(p)!End
    BY <1>1, <1>6 DEF GroupExits, ChildTypeOK, Managed!End
  <2>. QED
    BY <2>1 DEF Managed!Next
<1>7. CASE Reap(p)
  <2>1. Managed(p)!Finish
    BY <1>1, <1>7 DEF Reap, ChildTypeOK, Ended, Managed!Finish
  <2>. QED
    BY <2>1 DEF Managed!Next
<1>8. ASSUME NEW q \in Children, Kill(q), UNCHANGED <<procs, outcome>>
      PROVE  [Managed(p)!Next]_(Managed(p)!vars)
  <2>1. CASE p = q /\ IsRunning(p)
    <3>1. Managed(p)!Kill
      BY <1>1, <1>8, <2>1 DEF Kill, IsRunning, ChildTypeOK, Managed!Kill
    <3>. QED
      BY <3>1 DEF Managed!Next
  <2>2. CASE ~(p = q /\ IsRunning(p))
    BY <1>8, <2>2 DEF Kill
  <2>. QED
    BY <2>1, <2>2
<1>. QED
  BY <1>2, <1>3, <1>4, <1>5, <1>6, <1>7, <1>8, ChildSteps DEF vars

\* The Supervisor treats every one of its children as what Process promises:
\* a result once everything is gone, one result, and no kill after it.
THEOREM EachChildManaged ==
  ASSUME NEW p \in Children
  PROVE  Spec => Managed(p)!Spec
<1>1. Init => Ended
  BY DEF Init, Ended
<1>2. Spec => []Ended
  BY <1>1, EndedStep, Invariance, PTL DEF Spec
<1>3. Init => Managed(p)!Init
  BY InitManaged
<1>4. IInv /\ Ended /\ [Next]_vars => [Managed(p)!Next]_(Managed(p)!vars)
  BY ManagedStep
<1>. QED
  BY <1>2, <1>3, <1>4, Invariance, PTL DEF Spec, Managed!Spec

-----------------------------------------------------------------------------
(* What Supervision says by itself                                         *)

Alive == \E p \in Children : IsRunning(p)

\* Consequences of Supervision alone, in the words of the Supervisor.
Meaning ==
  /\ Alive => Phase = "up"
  /\ MaxRestarts > 0 => metrics.restarts <= MaxRestarts
  /\ cur <= metrics.restarts + 1

\* What makes them inductive: the number of launches lags where one is due.
Sense ==
  /\ Meaning
  /\ cur \in Nat /\ metrics.restarts \in Nat
  /\ Phase \in {"idle", "checking", "launching"} => cur <= metrics.restarts
  /\ Phase = "retrying" => Promised!BudgetLeft

\* Whatever implements Supervision has at most one child at a time and pays
\* for every launch: its steps alone, none of the Supervisor's, give this.
THEOREM PromiseMeans == Promise => []Meaning
<1>. USE BudgetAssumption DEF Sense, Meaning, Alive, Promised!BudgetLeft
<1>1. Promised!Init => Sense
  BY DEF Promised!Init
<1>2. Sense /\ [Promised!Next]_(Promised!vars) => Sense'
  <2>. SUFFICES ASSUME Sense, [Promised!Next]_(Promised!vars) PROVE Sense'
    OBVIOUS
  <2>1. CASE UNCHANGED Promised!vars
    BY <2>1 DEF Promised!vars
  <2>2. CASE Promised!Begin \/ Promised!Halt \/ Promised!Permit
    BY <2>2 DEF Promised!Begin, Promised!Halt, Promised!Permit
  <2>3. CASE Promised!Launch
    BY <2>3 DEF Promised!Launch
  <2>4. CASE Promised!LaunchFails \/ Promised!ChildEnds \/ Promised!Notice
    BY <2>4 DEF Promised!LaunchFails, Promised!ChildEnds, Promised!Notice
  <2>5. CASE Promised!DecideRetry
    BY <2>5 DEF Promised!DecideRetry
  <2>6. CASE Promised!Retry
    BY <2>6 DEF Promised!Retry
  <2>7. CASE Promised!GiveUp \/ Promised!Close
    BY <2>7 DEF Promised!GiveUp, Promised!Close
  <2>. QED
    BY <2>1, <2>2, <2>3, <2>4, <2>5, <2>6, <2>7 DEF Promised!Next
<1>3. Sense => Meaning
  OBVIOUS
<1>. QED
  BY <1>1, <1>2, <1>3, PTL DEF Promise, Promised!Spec
=============================================================================
