----------------------------- MODULE Supervisor -----------------------------
(***************************************************************************)
(* tools/cmdrunner/supervisor.go: a Supervisor keeps one child process     *)
(* running.  The goroutines of one Supervisor are the actors:              *)
(*   - loop()       launches the child, waits for its end, decides;        *)
(*   - healthLoop() one per launched child, may outlive that child;        *)
(*   - Stop()       any number of concurrent callers;                      *)
(*   - the child and the parent context, which act on their own.           *)
(* A step is what a goroutine does between two points where another one    *)
(* can observe it: one critical section of s.mu, one channel operation or  *)
(* one system call.  A child is named by the number of its launch, which   *)
(* also stands for its PID; 0 is the nil *Process.                         *)
(***************************************************************************)
EXTENDS Integers, FiniteSets

CONSTANTS
  MaxRestarts,          \* SupervisorOptions.MaxRestarts, 0 is "unlimited"
  HealthCheck,          \* HealthCheck # nil and HealthCheckInterval > 0
  HealthCheckFailures,  \* consecutive failures that condemn a child
  HooksFail,            \* BeforeStart and AfterStop are set and may fail
  Lingers,              \* descendants may keep the child's pipes open
  Stoppers,             \* concurrent callers of Stop
  RestartBound,         \* bound on metrics.restarts when unlimited
  CheckBound            \* bound on metrics.healthChecks

ASSUME BudgetAssumption == MaxRestarts \in Nat
ASSUME FlagAssumption ==
  HealthCheck \in BOOLEAN /\ HooksFail \in BOOLEAN /\ Lingers \in BOOLEAN
ASSUME ThresholdAssumption == HealthCheckFailures \in Nat \ {0}
ASSUME BoundAssumption ==
  /\ RestartBound \in Nat /\ CheckBound \in Nat
  /\ MaxRestarts <= RestartBound

\* The children the model can launch: one per granted restart, and the first.
Children == 1 .. (RestartBound + 1)

VARIABLES
  \* fields of Supervisor
  started, stopping, proc, unhealthyStop, lastHealth, last, finalErr, metrics,
  policy,       \* opts.RestartPolicy as NewSupervisor normalised it
  cancelled,    \* runCtx.Err() # nil
  \* locals of loop()
  pc, cur, unhealthy,
  \* the children
  procs, outcome, killed,
  \* the health loops
  hl, failures, hcStopped,
  \* the callers of Stop
  st, target,
  \* history: when a child's health loop marked it, see MarkUnhealthy
  marked

loopVars   == <<pc, cur, unhealthy>>
childVars  == <<procs, outcome, killed>>
healthVars == <<hl, failures, hcStopped, marked>>
stopVars   == <<st, target>>
resultVars == <<last, finalErr>>
ctlVars    == <<started, stopping, cancelled, policy>>
flagVars   == <<unhealthyStop, lastHealth>>

vars == <<loopVars, childVars, healthVars, stopVars, resultVars, ctlVars,
          flagVars, proc, metrics>>

LoopPoints == {"idle", "top", "before", "spawn", "setproc", "recstart",
               "await", "consume", "clear", "recstop", "after", "postcheck",
               "judge", "terminal", "record", "backoff", "closing", "done"}
HealthPoints == {"none", "select", "checking", "mark", "stop", "grace", "quit"}
StopPoints == {"idle", "signal", "grace", "cancel", "join", "returned",
               "refused"}
Errors == {"nil", "process", "before-start", "start", "after-stop", "health"}
Policies == {"never", "always", "on-failure"}

Results == [exitCode : {0, 1}, err : Errors]

Metrics ==
  [starts : Nat, stops : Nat, restarts : Nat, crashes : Nat,
   consecutiveRestarts : Nat, running : BOOLEAN,
   currentPID : 0 .. (RestartBound + 1), healthChecks : Nat,
   healthCheckSuccesses : Nat, healthCheckFailures : Nat,
   consecutiveHCFailures : Nat]

ControlTypeOK ==
  /\ started \in BOOLEAN /\ stopping \in BOOLEAN /\ cancelled \in BOOLEAN
  /\ policy \in Policies
  /\ proc \in 0 .. (RestartBound + 1)
  /\ unhealthyStop \in BOOLEAN
  /\ lastHealth \in {"nil", "failing"}
  /\ last \in Results
  /\ finalErr \in Errors
  /\ pc \in LoopPoints
  /\ cur \in 0 .. (RestartBound + 1)
  /\ unhealthy \in BOOLEAN

ChildTypeOK ==
  /\ procs \in [Children -> {"unborn", "running", "lingering", "exited",
                             "finished"}]
  /\ outcome \in [Children -> {"pending", "clean", "failed"}]
  /\ killed \in SUBSET Children

HealthTypeOK ==
  /\ hl \in [Children -> HealthPoints]
  /\ failures \in [Children -> Nat]
  /\ hcStopped \in SUBSET Children
  /\ marked \in [Children -> {"no", "intime", "late"}]

StopTypeOK ==
  /\ st \in [Stoppers -> StopPoints]
  /\ target \in [Stoppers -> 0 .. (RestartBound + 1)]

TypeOK ==
  ControlTypeOK /\ metrics \in Metrics /\ ChildTypeOK /\ HealthTypeOK
    /\ StopTypeOK

-----------------------------------------------------------------------------
(* Operators of the code                                                   *)

\* normalizeRestartPolicy: "" falls back to the older AutoRestart flag; an
\* unknown policy is refused by NewSupervisor, so no Supervisor has one.
NormalizeMutant(option, autoRestart) ==   \* AutoRestart is not looked at
  option

NormalizeRestartPolicy(option, autoRestart) ==
  IF option = "" THEN IF autoRestart THEN "always" ELSE "never" ELSE option

ConfiguredPolicies ==
  {NormalizeRestartPolicy(o, a) : o \in Policies \cup {""}, a \in BOOLEAN}

\* Process.IsRunning: true until Process.Wait has recorded the result.
IsRunning(p) == procs[p] \in {"running", "lingering", "exited"}

\* A group signal fails with ESRCH when the whole group is gone; between the
\* leader's death and its reaping either answer is possible.
SignalReaches(p) == IsRunning(p)
SignalMayMiss(p) == ~IsRunning(p) \/ procs[p] = "exited"

ShouldExit == ~started \/ stopping \/ cancelled

BudgetMutant ==   \* off by one at the limit
  MaxRestarts > 0 => metrics.restarts <= MaxRestarts

BudgetLeft == MaxRestarts > 0 => metrics.restarts < MaxRestarts

\* The policy switch of shouldRestart.
PolicyAllows ==
  \/ policy = "always"
  \/ /\ policy = "on-failure"
     /\ unhealthy \/ last.err # "nil" \/ last.exitCode # 0

ShouldRestartMutant ==   \* trusts the earlier shouldExit
  BudgetLeft /\ PolicyAllows

ShouldRestart == ~stopping /\ ~cancelled /\ BudgetLeft /\ PolicyAllows

\* terminalError; the start failures, for which the code passes its own err
\* to setFinalErr, agree with it because unhealthy is then FALSE.
TerminalMutant ==   \* what the health check found is not looked at
  IF last.err # "nil" THEN last.err
  ELSE IF last.exitCode # 0 THEN "process" ELSE "nil"

TerminalError ==
  IF unhealthy /\ lastHealth # "nil" THEN "health"
  ELSE IF last.err # "nil" THEN last.err
  ELSE IF last.exitCode # 0 THEN "process" ELSE "nil"

\* Process.Wait: a failed run has both an error and a non-zero exit code.
ResultOf(p) == IF outcome[p] = "clean" THEN [exitCode |-> 0, err |-> "nil"]
                                       ELSE [exitCode |-> 1, err |-> "process"]

CleanStopMutant ==   \* a stop by the health loop passes for a clean one
  last.err = "nil" /\ last.exitCode = 0

\* What recordStop takes for the end of a chain of crashes.
CleanStop == last.err = "nil" /\ last.exitCode = 0 /\ ~unhealthy

-----------------------------------------------------------------------------

Init ==
  /\ started = FALSE /\ stopping = FALSE /\ cancelled = FALSE
  /\ policy \in ConfiguredPolicies
  /\ proc = 0
  /\ unhealthyStop = FALSE
  /\ lastHealth = "nil"
  /\ last = [exitCode |-> 0, err |-> "nil"]
  /\ finalErr = "nil"
  /\ metrics = [starts |-> 0, stops |-> 0, restarts |-> 0, crashes |-> 0,
                consecutiveRestarts |-> 0, running |-> FALSE,
                currentPID |-> 0, healthChecks |-> 0,
                healthCheckSuccesses |-> 0, healthCheckFailures |-> 0,
                consecutiveHCFailures |-> 0]
  /\ pc = "idle" /\ cur = 0 /\ unhealthy = FALSE
  /\ procs = [p \in Children |-> "unborn"]
  /\ outcome = [p \in Children |-> "pending"]
  /\ killed = {}
  /\ hl = [p \in Children |-> "none"]
  /\ failures = [p \in Children |-> 0]
  /\ hcStopped = {}
  /\ marked = [p \in Children |-> "no"]
  /\ st = [c \in Stoppers |-> "idle"]
  /\ target = [c \in Stoppers |-> 0]

-----------------------------------------------------------------------------
(* loop()                                                                  *)

\* started is never reset: a second Start returns ErrSupervisorStarted.
Start ==
  /\ pc = "idle" /\ ~started
  /\ started' = TRUE
  /\ pc' = "top"
  /\ UNCHANGED <<stopping, cancelled, policy, cur, unhealthy, childVars,
                 healthVars, stopVars, resultVars, flagVars, proc, metrics>>

\* setFinalErr and the return that follows it.
EndLoop(err) == finalErr' = err /\ pc' = "closing"

CheckTop ==
  /\ pc = "top"
  /\ \/ ShouldExit /\ EndLoop("nil")
     \/ ~ShouldExit /\ pc' = "before" /\ UNCHANGED finalErr
  /\ UNCHANGED <<cur, unhealthy, childVars, healthVars, stopVars, last,
                 ctlVars, flagVars, proc, metrics>>

\* A launch that failed: setLast(Result{}, err) and recordCrash(err), and
\* then the same decision as after a child's end, with unhealthy = FALSE.
LaunchFailed(err) ==
  /\ last' = [exitCode |-> 0, err |-> err]
  /\ metrics' = [metrics EXCEPT !.crashes = @ + 1]
  /\ unhealthy' = FALSE
  /\ pc' = "judge"
  /\ UNCHANGED <<cur, childVars, healthVars, stopVars, finalErr, ctlVars,
                 flagVars, proc>>

BeforeStart ==
  /\ pc = "before"
  /\ \/ HooksFail /\ LaunchFailed("before-start")
     \/ /\ pc' = "spawn"
        /\ UNCHANGED <<cur, unhealthy, childVars, healthVars, stopVars,
                       resultVars, ctlVars, flagVars, proc, metrics>>

\* cmd.Start refuses a context that is already done; exec itself may fail too.
SpawnFails == pc = "spawn" /\ LaunchFailed("start")

Spawn ==
  /\ pc = "spawn" /\ ~cancelled
  /\ cur' = cur + 1
  /\ procs' = [procs EXCEPT ![cur + 1] = "running"]
  /\ pc' = "setproc"
  /\ UNCHANGED <<unhealthy, outcome, killed, healthVars, stopVars, resultVars,
                 ctlVars, flagVars, proc, metrics>>

SetProcess ==
  /\ pc = "setproc"
  /\ proc' = cur
  /\ pc' = "recstart"
  /\ UNCHANGED <<cur, unhealthy, childVars, healthVars, stopVars, resultVars,
                 ctlVars, flagVars, metrics>>

RecordStart ==
  /\ pc = "recstart"
  /\ metrics' = [metrics EXCEPT !.starts = @ + 1, !.running = TRUE,
                                !.currentPID = cur]
  /\ hl' = [hl EXCEPT ![cur] = IF HealthCheck THEN "select" ELSE "none"]
  /\ pc' = "await"
  /\ UNCHANGED <<cur, unhealthy, childVars, failures, hcStopped, marked,
                 stopVars, resultVars, ctlVars, flagVars, proc>>

DoneMutant ==   \* the leader's death is taken for the end of the child
  procs[cur] \in {"exited", "lingering", "finished"}

\* proc.Done() delivers only after Process.Wait has recorded the result.
Done == procs[cur] = "finished"

\* done := <-proc.Done(); close(hcStop)
AwaitDone ==
  /\ pc = "await" /\ Done
  /\ hcStopped' = hcStopped \cup {cur}
  /\ pc' = "consume"
  /\ UNCHANGED <<cur, unhealthy, childVars, hl, failures, marked, stopVars,
                 resultVars, ctlVars, flagVars, proc, metrics>>

FlagMutant ==   \* asks for the failure that set the flag too
  unhealthyStop /\ lastHealth # "nil"

FlagValue == unhealthyStop

ConsumeUnhealthyFlag ==
  /\ pc = "consume"
  /\ unhealthy' = FlagValue
  /\ unhealthyStop' = FALSE
  /\ pc' = "clear"
  /\ UNCHANGED <<cur, childVars, healthVars, stopVars, resultVars, ctlVars,
                 lastHealth, proc, metrics>>

ClearProcess ==
  /\ pc = "clear"
  /\ proc' = 0
  /\ last' = ResultOf(cur)
  /\ pc' = "recstop"
  /\ UNCHANGED <<cur, unhealthy, childVars, healthVars, stopVars, finalErr,
                 ctlVars, flagVars, metrics>>

StopMetricsMutant(m) ==   \* the PID is not reset
  [m EXCEPT !.stops = @ + 1, !.running = FALSE]

StopMetrics(m) == [m EXCEPT !.stops = @ + 1, !.running = FALSE,
                            !.currentPID = 0]

RecordStop ==
  /\ pc = "recstop"
  /\ \/ /\ CleanStop
        /\ metrics' = [StopMetrics(metrics) EXCEPT !.consecutiveRestarts = 0]
     \/ /\ ~CleanStop
        /\ metrics' = [StopMetrics(metrics) EXCEPT !.crashes = @ + 1]
  /\ pc' = "after"
  /\ UNCHANGED <<cur, unhealthy, childVars, healthVars, stopVars, resultVars,
                 ctlVars, flagVars, proc>>

\* The hook's error replaces the child's only when the child had none.
AfterStop ==
  /\ pc = "after"
  /\ \/ UNCHANGED last
     \/ /\ HooksFail /\ last.err = "nil"
        /\ last' = [last EXCEPT !.err = "after-stop"]
  /\ pc' = "postcheck"
  /\ UNCHANGED <<cur, unhealthy, childVars, healthVars, stopVars, finalErr,
                 ctlVars, flagVars, proc, metrics>>

CheckAfterStop ==
  /\ pc = "postcheck"
  /\ \/ ShouldExit /\ EndLoop("nil")
     \/ ~ShouldExit /\ pc' = "judge" /\ UNCHANGED finalErr
  /\ UNCHANGED <<cur, unhealthy, childVars, healthVars, stopVars, last,
                 ctlVars, flagVars, proc, metrics>>

Judge ==
  /\ pc = "judge"
  /\ pc' = IF ShouldRestart THEN "record" ELSE "terminal"
  /\ UNCHANGED <<cur, unhealthy, childVars, healthVars, stopVars, resultVars,
                 ctlVars, flagVars, proc, metrics>>

\* s.lastHealth is read without s.mu, after shouldRestart has released it.
Terminal ==
  /\ pc = "terminal"
  /\ EndLoop(TerminalError)
  /\ UNCHANGED <<cur, unhealthy, childVars, healthVars, stopVars, last,
                 ctlVars, flagVars, proc, metrics>>

RecordRestart ==
  /\ pc = "record" /\ metrics.restarts < RestartBound
  /\ metrics' = [metrics EXCEPT !.restarts = @ + 1,
                                !.consecutiveRestarts = @ + 1]
  /\ pc' = "backoff"
  /\ UNCHANGED <<cur, unhealthy, childVars, healthVars, stopVars, resultVars,
                 ctlVars, flagVars, proc>>

\* The timer, or no wait at all, lets the loop go on even when cancelled.
SleepBackoff ==
  /\ pc = "backoff"
  /\ \/ pc' = "top" /\ UNCHANGED finalErr
     \/ cancelled /\ EndLoop("nil")
  /\ UNCHANGED <<cur, unhealthy, childVars, healthVars, stopVars, last,
                 ctlVars, flagVars, proc, metrics>>

\* The deferred function: the log files are closed, then doneCh.
CloseDone ==
  /\ pc = "closing"
  /\ pc' = "done"
  /\ UNCHANGED <<cur, unhealthy, childVars, healthVars, stopVars, resultVars,
                 ctlVars, flagVars, proc, metrics>>

LoopStep ==
  \/ CheckTop \/ BeforeStart \/ SpawnFails \/ Spawn \/ SetProcess
  \/ RecordStart \/ AwaitDone \/ ConsumeUnhealthyFlag \/ ClearProcess
  \/ RecordStop \/ AfterStop \/ CheckAfterStop \/ Judge \/ Terminal
  \/ RecordRestart \/ SleepBackoff \/ CloseDone

-----------------------------------------------------------------------------
(* healthLoop(proc, stopCh) of child p                                     *)

HealthAt(p, from, to) == hl[p] = from /\ hl' = [hl EXCEPT ![p] = to]

\* stopCh or runCtx.Done() is ready; select may still prefer the ticker.
HealthQuit(p) ==
  /\ HealthAt(p, "select", "quit")
  /\ p \in hcStopped \/ cancelled
  /\ UNCHANGED <<loopVars, childVars, failures, hcStopped, marked, stopVars,
                 resultVars, ctlVars, flagVars, proc, metrics>>

\* A tick that finds the child finished ends the loop.
HealthTickFinished(p) ==
  /\ HealthAt(p, "select", "quit")
  /\ ~IsRunning(p)
  /\ UNCHANGED <<loopVars, childVars, failures, hcStopped, marked, stopVars,
                 resultVars, ctlVars, flagVars, proc, metrics>>

\* Any other tick starts a check, which runs without any lock.
HealthTick(p) ==
  /\ HealthAt(p, "select", "checking")
  /\ IsRunning(p)
  /\ metrics.healthChecks < CheckBound
  /\ metrics' = [metrics EXCEPT !.healthChecks = @ + 1]
  /\ UNCHANGED <<loopVars, childVars, failures, hcStopped, marked, stopVars,
                 resultVars, ctlVars, flagVars, proc>>

RecordHealthSuccess(p) ==
  /\ HealthAt(p, "checking", "select")
  /\ failures' = [failures EXCEPT ![p] = 0]
  /\ lastHealth' = "nil"
  /\ metrics' = [metrics EXCEPT !.healthCheckSuccesses = @ + 1,
                                !.consecutiveHCFailures = 0]
  /\ UNCHANGED <<loopVars, childVars, hcStopped, marked, stopVars, resultVars,
                 ctlVars, unhealthyStop, proc>>

Condemns(n) == n >= HealthCheckFailures

RecordHealthFailure(p) ==
  /\ HealthAt(p, "checking",
              IF Condemns(failures[p] + 1) THEN "mark" ELSE "select")
  /\ failures' = [failures EXCEPT ![p] = @ + 1]
  /\ lastHealth' = "failing"
  /\ metrics' = [metrics EXCEPT !.healthCheckFailures = @ + 1,
                                !.consecutiveHCFailures = @ + 1]
  /\ UNCHANGED <<loopVars, childVars, hcStopped, marked, stopVars, resultVars,
                 ctlVars, unhealthyStop, proc>>

\* Has loop() still to consume the flag for child p?
FlagAhead(p) == p = cur /\ pc \in {"await", "consume"}

\* The flag names no child: one set after its own child's flag was consumed
\* ("late") stays for the next child.
MarkUnhealthy(p) ==
  /\ HealthAt(p, "mark", "stop")
  /\ unhealthyStop' = TRUE
  /\ lastHealth' = "failing"
  /\ marked' = [marked EXCEPT ![p] = IF FlagAhead(p) THEN "intime" ELSE "late"]
  /\ UNCHANGED <<loopVars, childVars, failures, hcStopped, stopVars,
                 resultVars, ctlVars, proc, metrics>>

\* GracefulStop up to the signal: it returns at once when the child is not
\* running any more or the group is gone.
HealthStop(p) ==
  /\ \/ SignalReaches(p) /\ HealthAt(p, "stop", "grace")
     \/ SignalMayMiss(p) /\ HealthAt(p, "stop", "quit")
  /\ UNCHANGED <<loopVars, childVars, failures, hcStopped, marked, stopVars,
                 resultVars, ctlVars, flagVars, proc, metrics>>

KillMutant(p) ==   \* nothing to kill once the leader is dead
  killed' = IF procs[p] = "running" THEN killed \cup {p} ELSE killed

\* Kill: SIGKILL to the group, unless the child is not running any more.
Kill(p) == killed' = IF IsRunning(p) THEN killed \cup {p} ELSE killed

\* The rest of GracefulStop: waitDone, or the timeout and Kill.
HealthGrace(p) ==
  /\ HealthAt(p, "grace", "quit")
  /\ \/ procs[p] = "finished" /\ UNCHANGED killed
     \/ Kill(p)
  /\ UNCHANGED <<loopVars, procs, outcome, failures, hcStopped, marked,
                 stopVars, resultVars, ctlVars, flagVars, proc, metrics>>

HealthStep(p) ==
  \/ HealthQuit(p) \/ HealthTickFinished(p) \/ HealthTick(p)
  \/ RecordHealthSuccess(p) \/ RecordHealthFailure(p) \/ MarkUnhealthy(p)
  \/ HealthStop(p) \/ HealthGrace(p)

-----------------------------------------------------------------------------
(* Stop(timeout) called by c                                               *)

StopAt(c, from, to) == st[c] = from /\ st' = [st EXCEPT ![c] = to]

\* ErrSupervisorStopped, for a Supervisor never started.
StopRefused(c) ==
  /\ StopAt(c, "idle", "refused")
  /\ ~started
  /\ UNCHANGED <<loopVars, childVars, healthVars, target, resultVars, ctlVars,
                 flagVars, proc, metrics>>

StopCallMutant(c) ==   \* relies on the cancellation that follows
  /\ StopAt(c, "idle", "signal")
  /\ started
  /\ target' = [target EXCEPT ![c] = proc]
  /\ UNCHANGED <<loopVars, childVars, healthVars, resultVars, ctlVars,
                 flagVars, proc, metrics>>

\* The critical section: stopping is set and proc is read, then s.mu released.
StopCall(c) ==
  /\ StopAt(c, "idle", "signal")
  /\ started
  /\ stopping' = TRUE
  /\ target' = [target EXCEPT ![c] = proc]
  /\ UNCHANGED <<loopVars, childVars, healthVars, resultVars, started,
                 cancelled, policy, flagVars, proc, metrics>>

\* GracefulStop on the child read before, if any; with a timeout <= 0 it
\* returns right after the signal.
StopSignal(c) ==
  /\ \/ StopAt(c, "signal", "cancel")
     \/ /\ target[c] # 0 /\ SignalReaches(target[c])
        /\ StopAt(c, "signal", "grace")
  /\ UNCHANGED <<loopVars, childVars, healthVars, target, resultVars, ctlVars,
                 flagVars, proc, metrics>>

StopGrace(c) ==
  /\ StopAt(c, "grace", "cancel")
  /\ \/ procs[target[c]] = "finished" /\ UNCHANGED killed
     \/ Kill(target[c])
  /\ UNCHANGED <<loopVars, procs, outcome, healthVars, target, resultVars,
                 ctlVars, flagVars, proc, metrics>>

StopCancelMutant(c) ==   \* stops only the child it has seen
  /\ StopAt(c, "cancel", "join")
  /\ UNCHANGED <<loopVars, childVars, healthVars, target, resultVars, ctlVars,
                 flagVars, proc, metrics>>

StopCancel(c) ==
  /\ StopAt(c, "cancel", "join")
  /\ cancelled' = TRUE
  /\ UNCHANGED <<loopVars, childVars, healthVars, target, resultVars, started,
                 stopping, policy, flagVars, proc, metrics>>

\* Wait: <-doneCh
StopJoin(c) ==
  /\ StopAt(c, "join", "returned")
  /\ pc = "done"
  /\ UNCHANGED <<loopVars, childVars, healthVars, target, resultVars, ctlVars,
                 flagVars, proc, metrics>>

\* What a caller does once it has called.
StopStep(c) == StopSignal(c) \/ StopGrace(c) \/ StopCancel(c) \/ StopJoin(c)

-----------------------------------------------------------------------------
(* The surroundings                                                        *)

ParentCancel ==
  /\ started /\ ~cancelled
  /\ cancelled' = TRUE
  /\ UNCHANGED <<loopVars, childVars, healthVars, stopVars, resultVars,
                 started, stopping, policy, flagVars, proc, metrics>>

\* The child's own end, whatever ended it; one killed by SIGKILL fails.
LeaderExits(p) ==
  /\ procs[p] = "running"
  /\ \E o \in IF p \in killed THEN {"failed"} ELSE {"clean", "failed"} :
       outcome' = [outcome EXCEPT ![p] = o]
  /\ \E s \in IF Lingers /\ p \notin killed
              THEN {"lingering", "exited"} ELSE {"exited"} :
       procs' = [procs EXCEPT ![p] = s]
  /\ UNCHANGED <<loopVars, killed, healthVars, stopVars, resultVars, ctlVars,
                 flagVars, proc, metrics>>

\* The last descendant that holds the child's pipes lets go of them.
GroupExits(p) ==
  /\ procs[p] = "lingering"
  /\ procs' = [procs EXCEPT ![p] = "exited"]
  /\ UNCHANGED <<loopVars, outcome, killed, healthVars, stopVars, resultVars,
                 ctlVars, flagVars, proc, metrics>>

\* The goroutine of Start: Process.Wait records the result and delivers it.
Reap(p) ==
  /\ procs[p] = "exited"
  /\ procs' = [procs EXCEPT ![p] = "finished"]
  /\ UNCHANGED <<loopVars, outcome, killed, healthVars, stopVars, resultVars,
                 ctlVars, flagVars, proc, metrics>>

\* Every goroutine has returned, or the loop met the model's restart bound.
Quiet ==
  \/ /\ pc = "done"
     /\ \A p \in Children : hl[p] \in {"none", "quit"}
     /\ \A c \in Stoppers : st[c] \in {"returned", "refused"}
  \/ pc = "record" /\ metrics.restarts = RestartBound

Next ==
  \/ Start \/ LoopStep \/ ParentCancel
  \/ \E p \in Children :
       HealthStep(p) \/ LeaderExits(p) \/ GroupExits(p) \/ Reap(p)
  \/ \E c \in Stoppers : StopRefused(c) \/ StopCall(c) \/ StopStep(c)
  \/ Quiet /\ UNCHANGED vars

Spec == Init /\ [][Next]_vars

-----------------------------------------------------------------------------
(* Fairness: the Go scheduler runs every goroutine that can run, tickers   *)
(* and timers fire, hooks and health checks return, a signal that cannot   *)
(* be caught is obeyed.  A child left alone need not end, nobody need call *)
(* Start or Stop, and a descendant that was not killed may live for ever.  *)

Fairness ==
  /\ WF_vars(LoopStep)
  /\ \A p \in Children :
       /\ WF_vars(HealthStep(p))
       /\ WF_vars(Reap(p))
       /\ WF_vars((p \in killed \/ cancelled) /\ LeaderExits(p))
       /\ WF_vars(p \in killed /\ GroupExits(p))
  /\ \A c \in Stoppers : WF_vars(StopStep(c))

FairSpec == Spec /\ Fairness

-----------------------------------------------------------------------------
(* Properties                                                              *)

\* MaxRestarts limits the restarts, and every launch but the first is one of
\* them, whichever of hooks, start failures, crashes and health checks asked.
RestartBudget ==
  /\ MaxRestarts > 0 => metrics.restarts <= MaxRestarts
  /\ cur <= metrics.restarts + 1

\* A child that is not finished is the latest one, loop() is waiting for it,
\* and but for the moment before setProcess Stop can find it.
NoOrphan ==
  \A p \in Children : IsRunning(p) =>
    /\ p = cur
    /\ pc \in {"setproc", "recstart", "await"}
    /\ pc # "setproc" => proc = p

\* Outside the two windows between proc and the metrics, SnapshotMetrics and
\* CurrentProcess speak of the same child, and Starts and Stops agree.
GaugeTracksProcess ==
  pc \notin {"recstart", "recstop"} =>
    /\ metrics.currentPID = proc
    /\ (metrics.running <=> proc # 0)
    /\ metrics.starts = metrics.stops + (IF proc # 0 THEN 1 ELSE 0)

\* A child its health loop condemned before its end was processed is always
\* processed as unhealthy, whatever older health loops still record.
CondemnedIsUnhealthy ==
  /\ cur # 0 /\ marked[cur] = "intime"
  /\ pc \in {"clear", "recstop", "after", "postcheck"}
  => unhealthy

\* Only a later success of another child's health loop, which the same
\* lastHealth serves, can make Wait forget that a child was condemned.
Overlapped == cur > 1 /\ metrics.healthCheckSuccesses > 0

\* A loop that nobody halted has spent its budget or follows its policy, and
\* Wait returns nil only for a last launch that neither failed nor, but for
\* such an overlap, was condemned.  However Stop and the health loops race
\* with its end, the error Wait returns is the last launch's own.
EndIsJustified ==
  pc = "done" =>
    /\ \/ finalErr \in {"nil", last.err}
       \/ finalErr = "health" /\ unhealthy
    /\ ~stopping /\ ~cancelled =>
         \/ MaxRestarts > 0 /\ metrics.restarts = MaxRestarts
         \/ policy = "never"
         \/ policy = "on-failure" /\ last.err = "nil" /\ ~unhealthy
    /\ ~stopping /\ ~cancelled /\ finalErr = "nil" =>
         last.err = "nil" /\ (unhealthy => Overlapped)

\* The child a caller of Stop has found is the last that will ever be
\* launched: no restart slips between its signal and its cancellation.
StopSignalsLastChild ==
  \A c \in Stoppers : target[c] # 0 => target[c] = cur

\* Under on-failure every restart is paid for by a counted crash, hooks
\* apart: the counters the Prometheus page exports tell one story.
RestartsPaidByCrashes ==
  policy = "on-failure" /\ ~HooksFail =>
    metrics.restarts <= metrics.crashes

\* Stop returns, whatever the loop was doing when it was called, unless a
\* descendant holds the pipes of a child that nobody signals as a group.
StopReturns ==
  \A c \in Stoppers :
    st[c] = "signal" ~>
      \/ st[c] = "returned"
      \/ [](\E p \in Children : procs[p] = "lingering")

\* A child its health loop decided to stop ends, descendants that hold its
\* pipes included: GracefulStop falls back on killing the whole group.
CondemnedChildEnds ==
  \A p \in Children : hl[p] = "stop" ~> procs[p] = "finished"

\* supervisor.go:680: a child that ran to its end with exit code 0, and that
\* its own health loop did not condemn, breaks the chain of restarts.
CleanExitBreaksChain ==
  pc = "after" /\ outcome[cur] = "clean" /\ marked[cur] = "no" =>
    metrics.consecutiveRestarts = 0

-----------------------------------------------------------------------------
(* What the Supervisor promises                                            *)

Phase ==
  CASE pc = "idle" -> "idle"
    [] pc \in {"top", "backoff"} -> "checking"
    [] pc \in {"before", "spawn"} -> "launching"
    [] pc \in {"setproc", "recstart", "await"} -> "up"
    [] pc \in {"consume", "clear", "recstop", "after", "postcheck", "judge",
               "terminal"} -> "down"
    [] pc = "record" -> "retrying"
    [] pc = "closing" -> "ending"
    [] pc = "done" -> "over"

Promised == INSTANCE Supervision WITH
  phase <- Phase,
  halted <- (stopping \/ cancelled),
  alive <- (\E p \in Children : IsRunning(p)),
  launches <- cur,
  retries <- metrics.restarts

\* Every behaviour of the Supervisor is one that Supervision allows.
Promise == Promised!Spec
=============================================================================
