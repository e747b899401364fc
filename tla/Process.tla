------------------------------ MODULE Process ------------------------------
(***************************************************************************)
(* tools/cmdrunner/cmdrunner.go: one started child process.  The actors    *)
(* are the goroutine that Start leaves behind (the reaper), other callers  *)
(* of Wait, callers of GracefulStop and Kill, the goroutine of os/exec     *)
(* that watches the context, and the operating system.                     *)
(*                                                                         *)
(* The part of Wait inside exec.Cmd.Wait is external, modelled as far as   *)
(* its callers can tell: who reaps the child, which caller the watcher     *)
(* answers, and that the output pipes must be closed by every holder.      *)
(***************************************************************************)
EXTENDS Naturals, FiniteSets

CONSTANTS
  reaper,        \* the goroutine of Start
  UserWaiters,   \* other callers of Wait
  Stoppers,      \* callers of GracefulStop or Kill
  Lingers,       \* descendants of the child may hold its output pipes
  WriterFails    \* opts.Stdout or opts.Stderr may return an error

ASSUME WaiterAssumption == reaper \notin UserWaiters
ASSUME SwitchAssumption == Lingers \in BOOLEAN /\ WriterFails \in BOOLEAN

Waiters == UserWaiters \cup {reaper}

VARIABLES
  \* the operating system's view of the child and its process group
  leader, exit, holders, killed,
  \* os/exec: Cmd.ProcessState is set; the context's watcher
  procState, watcher,
  \* fields of Process; result stands for both result.ExitCode and err
  ctxDone, finished, result, closes,
  \* the callers of Wait, their local err and what Wait returned to them
  wpc, werr, got,
  \* the callers of GracefulStop and Kill
  spc

osVars   == <<leader, exit, holders, killed>>
execVars == <<procState, watcher>>
procVars == <<ctxDone, finished, result, closes>>
waitVars == <<wpc, werr, got>>
vars == <<osVars, execVars, procVars, waitVars, spc>>

\* nil, an exit error, the context's error, a failed copy of the output, and
\* the two answers os/exec has for a second Wait.
WaitErrors == {"nil", "exit", "cancelled", "copy", "echild", "already"}

TypeOK ==
  /\ leader \in {"running", "zombie", "reaped"}
  /\ exit \in {"pending", "clean", "failed"}
  /\ holders \in BOOLEAN /\ killed \in BOOLEAN
  /\ procState \in BOOLEAN
  /\ watcher \in {"armed", "fired", "late", "gone"}
  /\ ctxDone \in BOOLEAN /\ finished \in BOOLEAN
  /\ result \in WaitErrors \cup {"none"}
  /\ closes \in {0, 1}
  /\ wpc \in [Waiters -> {"idle", "state", "reap", "context", "pipes",
                          "record", "deliver", "done"}]
  /\ werr \in [Waiters -> WaitErrors \cup {"none"}]
  /\ got \in [Waiters -> WaitErrors \cup {"none"}]
  /\ spc \in [Stoppers -> {"idle", "signal", "grace", "kill", "sigkill",
                           "returned"}]

-----------------------------------------------------------------------------

\* Start, once cmd.Start has succeeded: the reaper is inside Wait.
Init ==
  /\ leader = "running" /\ exit = "pending"
  /\ holders \in (IF Lingers THEN BOOLEAN ELSE {FALSE})
  /\ killed = FALSE
  /\ procState = FALSE /\ watcher = "armed"
  /\ ctxDone = FALSE /\ finished = FALSE /\ result = "none" /\ closes = 0
  /\ wpc = [w \in Waiters |-> IF w = reaper THEN "state" ELSE "idle"]
  /\ werr = [w \in Waiters |-> "none"]
  /\ got = [w \in Waiters |-> "none"]
  /\ spc = [c \in Stoppers |-> "idle"]

IsRunning == ~finished

-----------------------------------------------------------------------------
(* The child, its context and the watcher                                  *)

\* SIGKILL, to the group or from the watcher, is not survived.
LeaderExits ==
  /\ leader = "running"
  /\ leader' = "zombie"
  /\ exit' \in IF killed \/ watcher = "fired" THEN {"failed"}
                                              ELSE {"clean", "failed"}
  /\ UNCHANGED <<holders, killed, execVars, procVars, waitVars, spc>>

\* The last descendant that holds the output pipes ends.
HoldersExit ==
  /\ holders
  /\ holders' = FALSE
  /\ UNCHANGED <<leader, exit, killed, execVars, procVars, waitVars, spc>>

\* opts.Timeout, or the caller's context.
ContextEnds ==
  /\ ~ctxDone
  /\ ctxDone' = TRUE
  /\ UNCHANGED <<osVars, execVars, finished, result, closes, waitVars, spc>>

\* Cmd.Cancel kills the leader alone; it is too late once it was reaped.
WatcherFires ==
  /\ watcher = "armed" /\ ctxDone
  /\ watcher' = IF leader = "reaped" THEN "late" ELSE "fired"
  /\ UNCHANGED <<osVars, procState, procVars, waitVars, spc>>

-----------------------------------------------------------------------------
(* Wait() called by w                                                      *)

WaitAt(w, from, to) == wpc[w] = from /\ wpc' = [wpc EXCEPT ![w] = to]

CallWait(w) ==
  /\ WaitAt(w, "idle", "state")
  /\ UNCHANGED <<osVars, execVars, procVars, werr, got, spc>>

\* Cmd.Wait looks at ProcessState first: "exec: Wait was already called".
CheckState(w) ==
  /\ \/ procState /\ WaitAt(w, "state", "record")
        /\ werr' = [werr EXCEPT ![w] = "already"]
     \/ ~procState /\ WaitAt(w, "state", "reap") /\ UNCHANGED werr
  /\ UNCHANGED <<osVars, execVars, procVars, got, spc>>

\* Only one caller reaps the child; another that was waiting for it gets
\* ECHILD and clears ProcessState.
ReapChild(w) ==
  /\ WaitAt(w, "reap", "context")
  /\ \/ /\ leader = "zombie"
        /\ leader' = "reaped" /\ procState' = TRUE
        /\ werr' = [werr EXCEPT ![w] = IF exit = "clean" THEN "nil"
                                                          ELSE "exit"]
     \/ /\ leader = "reaped"
        /\ procState' = FALSE
        /\ werr' = [werr EXCEPT ![w] = "echild"]
        /\ UNCHANGED leader
  /\ UNCHANGED <<exit, holders, killed, watcher, procVars, got, spc>>

\* The watcher answers one caller, the others wait for ever.
AwaitWatcher(w) ==
  /\ WaitAt(w, "context", "pipes")
  /\ watcher # "gone"
  /\ watcher' = "gone"
  /\ werr' = [werr EXCEPT ![w] = IF @ = "nil" /\ watcher = "fired"
                                 THEN "cancelled" ELSE @]
  /\ UNCHANGED <<osVars, procState, procVars, got, spc>>

\* The copies of stdout and stderr end when nobody holds the pipes.
AwaitPipesMutant(w) ==   \* the leader's end is enough
  /\ WaitAt(w, "pipes", "record")
  /\ UNCHANGED <<osVars, execVars, procVars, werr, got, spc>>

AwaitPipes(w) ==
  /\ WaitAt(w, "pipes", "record")
  /\ ~holders
  /\ \/ UNCHANGED werr
     \/ /\ WriterFails /\ werr[w] = "nil"
        /\ werr' = [werr EXCEPT ![w] = "copy"]
  /\ UNCHANGED <<osVars, execVars, procVars, got, spc>>

AfterRecord(w) == IF w = reaper THEN "deliver" ELSE "done"

RecordFirstMutant(w) ==   \* err is shadowed and never reaches the result
  /\ WaitAt(w, "record", AfterRecord(w))
  /\ ~finished
  /\ finished' = TRUE
  /\ result' = "nil" /\ got' = [got EXCEPT ![w] = "nil"]
  /\ ctxDone' = TRUE
  /\ closes' = closes + 1
  /\ UNCHANGED <<osVars, execVars, werr, spc>>

\* The critical section of p.mu when the result is not known yet; cancel()
\* ends the context, and close(waitDone) wakes GracefulStop.
RecordFirst(w) ==
  /\ WaitAt(w, "record", AfterRecord(w))
  /\ ~finished
  /\ finished' = TRUE
  /\ result' = werr[w] /\ got' = [got EXCEPT ![w] = werr[w]]
  /\ ctxDone' = TRUE
  /\ closes' = closes + 1
  /\ UNCHANGED <<osVars, execVars, werr, spc>>

RecordAgainMutant(w) ==   \* without "if p.finished"
  /\ WaitAt(w, "record", AfterRecord(w))
  /\ finished
  /\ result' = werr[w] /\ got' = [got EXCEPT ![w] = werr[w]]
  /\ closes' = closes + 1
  /\ UNCHANGED <<osVars, execVars, ctxDone, finished, werr, spc>>

\* "if p.finished": a later caller gets what was recorded.
RecordAgain(w) ==
  /\ WaitAt(w, "record", AfterRecord(w))
  /\ finished
  /\ got' = [got EXCEPT ![w] = result]
  /\ UNCHANGED <<osVars, execVars, procVars, werr, spc>>

\* The reaper's send into doneCh, which has room for it, and its close.
Deliver ==
  /\ WaitAt(reaper, "deliver", "done")
  /\ UNCHANGED <<osVars, execVars, procVars, werr, got, spc>>

WaitStep(w) ==
  \/ CheckState(w) \/ ReapChild(w) \/ AwaitWatcher(w) \/ AwaitPipes(w)
  \/ RecordFirst(w) \/ RecordAgain(w)

-----------------------------------------------------------------------------
(* GracefulStop(timeout) or Kill() called by c                             *)

StopAt(c, from, to) == spc[c] = from /\ spc' = [spc EXCEPT ![c] = to]

CallGracefulStop(c) ==
  /\ StopAt(c, "idle", IF IsRunning THEN "signal" ELSE "returned")
  /\ UNCHANGED <<osVars, execVars, procVars, waitVars>>

CallKill(c) ==
  /\ StopAt(c, "idle", "kill")
  /\ UNCHANGED <<osVars, execVars, procVars, waitVars>>

\* A group is there to be signalled while it has a member, dead or alive;
\* some systems refuse to signal one that has only dead members.
GroupExists == leader # "reaped" \/ holders
GroupMayBeGone == leader # "running" /\ ~holders

\* SIGTERM to the group, which the child may ignore.  GracefulStop returns
\* here when the group is gone, and with a timeout <= 0.
SendTerm(c) ==
  /\ \/ GroupExists /\ StopAt(c, "signal", "grace")
     \/ StopAt(c, "signal", "returned")
  /\ UNCHANGED <<osVars, execVars, procVars, waitVars>>

AwaitEndMutant(c) ==   \* the timer has no effect
  /\ closes > 0 /\ StopAt(c, "grace", "returned")
  /\ UNCHANGED <<osVars, execVars, procVars, waitVars>>

\* The select: waitDone is closed, or the timer wins.
AwaitEnd(c) ==
  /\ \/ closes > 0 /\ StopAt(c, "grace", "returned")
     \/ StopAt(c, "grace", "kill")
  /\ UNCHANGED <<osVars, execVars, procVars, waitVars>>

CheckRunning(c) ==
  /\ StopAt(c, "kill", IF IsRunning THEN "sigkill" ELSE "returned")
  /\ UNCHANGED <<osVars, execVars, procVars, waitVars>>

\* killProcessTree: IsRunning may be out of date by now; ESRCH is no error.
SendKill(c) ==
  /\ StopAt(c, "sigkill", "returned")
  /\ \/ GroupExists /\ killed' = TRUE
     \/ GroupMayBeGone /\ UNCHANGED killed
  /\ UNCHANGED <<leader, exit, holders, execVars, procVars, waitVars>>

StopStep(c) == SendTerm(c) \/ AwaitEnd(c) \/ CheckRunning(c) \/ SendKill(c)

-----------------------------------------------------------------------------

\* Nobody is left with anything to do.
Quiet ==
  /\ \A w \in Waiters : wpc[w] \in {"idle", "done"}
  /\ \A c \in Stoppers : spc[c] \in {"idle", "returned"}

Next ==
  \/ LeaderExits \/ HoldersExit \/ ContextEnds \/ WatcherFires \/ Deliver
  \/ \E w \in Waiters : CallWait(w) \/ WaitStep(w)
  \/ \E c \in Stoppers : CallGracefulStop(c) \/ CallKill(c) \/ StopStep(c)
  \/ Quiet /\ UNCHANGED vars

Spec == Init /\ [][Next]_vars

\* The scheduler runs every goroutine that can run, timers fire, and SIGKILL
\* is obeyed.  A child that is left alone need not end, nor its descendants.
Fairness ==
  /\ WF_vars(WatcherFires)
  /\ WF_vars((killed \/ watcher = "fired") /\ LeaderExits)
  /\ WF_vars(killed /\ HoldersExit)
  /\ WF_vars(Deliver)
  /\ \A w \in Waiters : WF_vars(WaitStep(w))
  /\ \A c \in Stoppers : WF_vars(StopStep(c))

FairSpec == Spec /\ Fairness

-----------------------------------------------------------------------------
(* Properties                                                              *)

\* However many callers Wait has, waitDone is closed once (a second close
\* panics), together with the result, and every caller gets that result.
OneResult ==
  /\ closes = IF finished THEN 1 ELSE 0
  /\ \A w \in Waiters : wpc[w] \in {"deliver", "done"} =>
       finished /\ got[w] = result

\* With no caller of Wait but the reaper, the result is recorded after the
\* child was reaped and its output read to the end, no failure passes for a
\* success, and a success is only denied for the context or the writers.
ResultIsTruthful ==
  finished =>
    /\ leader = "reaped" /\ ~holders
    /\ result = "nil" => exit = "clean"
    /\ exit = "clean" => result \in {"nil", "cancelled", "copy"}

\* GracefulStop with a timeout ends the child and all who hold its output,
\* even if they ignore SIGTERM and the leader dies before its descendants,
\* and what it ended is delivered by Done.
StopEndsChild ==
  \A c \in Stoppers :
    spc[c] = "grace" ~> ~GroupExists /\ wpc[reaper] = "done"

\* skill.zip, references/usage-recipes.md:121-150: Start, work, then Wait,
\* which tells how the child ended.
WaitTellsExit ==
  \A w \in Waiters : wpc[w] = "done" => got[w] \notin {"echild", "already"}

-----------------------------------------------------------------------------
(* What a Process promises                                                 *)

Child == INSTANCE ManagedChild WITH
  life <- (IF finished THEN "finished"
           ELSE IF leader = "running" \/ holders THEN "alive" ELSE "gone"),
  result <- (IF ~finished THEN "none"
             ELSE IF result = "nil" THEN "clean" ELSE "failed")

\* With the reaper alone, a Process is a child as ManagedChild describes it.
ChildPromise == Child!FairSpec
=============================================================================
