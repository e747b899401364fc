--------------------------- MODULE ProcessProofs ---------------------------
(* Theorems about Process, for every set of callers of Wait and of         *)
(* GracefulStop.  Shared holds with any number of callers of Wait; Alone   *)
(* adds what only holds while the reaper is the only one.                  *)
EXTENDS Process, TLAPS

Shared ==
  /\ TypeOK
  /\ OneResult
  /\ exit = "pending" <=> leader = "running"

\* Wait's way through os/exec when nobody else has called it.
Alone ==
  /\ procState <=> leader = "reaped"
  /\ leader = "reaped" <=>
       wpc[reaper] \in {"context", "pipes", "record", "deliver", "done"}
  /\ wpc[reaper] # "idle"
  /\ leader = "reaped" =>
       /\ werr[reaper] = "nil" => exit = "clean"
       /\ exit = "clean" => werr[reaper] \in {"nil", "cancelled", "copy"}
  /\ wpc[reaper] \in {"record", "deliver", "done"} => ~holders
  /\ finished <=> wpc[reaper] \in {"deliver", "done"}
  /\ finished => result = werr[reaper]

-----------------------------------------------------------------------------
(* Any number of callers of Wait                                           *)

\* Start leaves a consistent Process behind.
LEMMA InitShared == Init => Shared
<1>. SUFFICES ASSUME Init PROVE Shared
  OBVIOUS
<1>1. TypeOK
  <2>1. holders \in BOOLEAN
    BY SwitchAssumption DEF Init
  <2>. QED
    BY <2>1 DEF Init, TypeOK, WaitErrors
<1>. QED
  BY <1>1 DEF Init, Shared, OneResult

\* The steps of one caller of Wait keep the result single and shared.
LEMMA WaitShared ==
  ASSUME Shared, NEW w \in Waiters, CallWait(w) \/ WaitStep(w)
  PROVE  Shared'
<1>. USE DEF Shared, TypeOK, OneResult, WaitErrors, WaitAt, osVars, execVars,
             procVars
<1>1. CASE CallWait(w)
  BY <1>1 DEF CallWait
<1>2. CASE CheckState(w)
  BY <1>2 DEF CheckState
<1>3. CASE ReapChild(w)
  <2>1. TypeOK'
    <3>1. /\ leader' \in {"running", "zombie", "reaped"}
          /\ procState' \in BOOLEAN
          /\ wpc' = [wpc EXCEPT ![w] = "context"]
          /\ \E e \in WaitErrors : werr' = [werr EXCEPT ![w] = e]
      BY <1>3 DEF ReapChild
    <3>2. UNCHANGED <<exit, holders, killed, watcher, procVars, got, spc>>
      BY <1>3 DEF ReapChild
    <3>. QED
      BY <3>1, <3>2
  <2>2. OneResult' /\ (exit = "pending" <=> leader = "running")'
    BY <1>3 DEF ReapChild
  <2>. QED
    BY <2>1, <2>2
<1>4. CASE AwaitWatcher(w)
  BY <1>4 DEF AwaitWatcher
<1>5. CASE AwaitPipes(w)
  BY <1>5 DEF AwaitPipes
<1>6. CASE RecordFirst(w)
  <2>1. \A v \in Waiters : wpc[v] \notin {"deliver", "done"}
    BY <1>6 DEF RecordFirst
  <2>2. werr[w] \in WaitErrors \cup {"none"}
    OBVIOUS
  <2>. QED
    BY <1>6, <2>1, <2>2 DEF RecordFirst, AfterRecord
<1>7. CASE RecordAgain(w)
  BY <1>7 DEF RecordAgain, AfterRecord
<1>. QED
  BY <1>1, <1>2, <1>3, <1>4, <1>5, <1>6, <1>7 DEF WaitStep

\* Nobody else records anything.
LEMMA OthersShared ==
  ASSUME Shared,
         \/ LeaderExits \/ HoldersExit \/ ContextEnds \/ WatcherFires
         \/ Deliver
         \/ \E c \in Stoppers :
              CallGracefulStop(c) \/ CallKill(c) \/ StopStep(c)
         \/ UNCHANGED vars
  PROVE  Shared'
<1>. USE DEF Shared, TypeOK, OneResult, vars, osVars, execVars, procVars,
             waitVars
<1>1. CASE LeaderExits
  BY <1>1 DEF LeaderExits
<1>2. CASE HoldersExit
  BY <1>2 DEF HoldersExit
<1>3. CASE ContextEnds
  BY <1>3 DEF ContextEnds
<1>4. CASE WatcherFires
  BY <1>4 DEF WatcherFires
<1>5. CASE Deliver
  BY <1>5 DEF Deliver, WaitAt, Waiters
<1>6. CASE \E c \in Stoppers : CallGracefulStop(c) \/ CallKill(c)
  BY <1>6 DEF CallGracefulStop, CallKill, StopAt
<1>7. CASE \E c \in Stoppers : StopStep(c)
  <2>. PICK c \in Stoppers : StopStep(c)
    BY <1>7
  <2>1. CASE SendTerm(c) \/ AwaitEnd(c)
    BY <2>1 DEF SendTerm, AwaitEnd, StopAt
  <2>2. CASE CheckRunning(c)
    BY <2>2 DEF CheckRunning, StopAt
  <2>3. CASE SendKill(c)
    <3>1. killed' \in BOOLEAN
      BY <2>3 DEF SendKill
    <3>2. /\ spc' = [spc EXCEPT ![c] = "returned"]
          /\ UNCHANGED <<leader, exit, holders, execVars, procVars, waitVars>>
      BY <2>3 DEF SendKill, StopAt
    <3>. QED
      BY <3>1, <3>2
  <2>. QED
    BY <2>1, <2>2, <2>3 DEF StopStep
<1>8. CASE UNCHANGED vars
  BY <1>8
<1>. QED
  BY <1>1, <1>2, <1>3, <1>4, <1>5, <1>6, <1>7, <1>8

\* Shared is inductive.
LEMMA StepShared == Shared /\ [Next]_vars => Shared'
  BY WaitShared, OthersShared DEF Next

\* Whoever calls Wait, and whenever, there is one result and one close.
THEOREM ResultIsOne == Spec => []OneResult
<1>1. Shared => OneResult
  BY DEF Shared
<1>. QED
  BY <1>1, InitShared, StepShared, PTL DEF Spec

\* Every variable keeps its type.
THEOREM TypeCorrect == Spec => []TypeOK
<1>1. Shared => TypeOK
  BY DEF Shared
<1>. QED
  BY <1>1, InitShared, StepShared, PTL DEF Spec

-----------------------------------------------------------------------------
(* The reaper is the only caller of Wait                                   *)

\* Start leaves the reaper at the beginning of Wait.
LEMMA InitAlone == Init => Alone
  BY DEF Init, Alone, Waiters

\* The reaper's steps through os/exec and its record.
LEMMA ReaperAlone ==
  ASSUME Shared, Alone, CallWait(reaper) \/ WaitStep(reaper)
  PROVE  Alone'
<1>. USE DEF Shared, TypeOK, Alone, WaitAt, Waiters, osVars, execVars, procVars
<1>1. CASE CallWait(reaper)
  BY <1>1 DEF CallWait
<1>2. CASE CheckState(reaper)
  BY <1>2 DEF CheckState
<1>3. CASE ReapChild(reaper)
  BY <1>3 DEF ReapChild
<1>4. CASE AwaitWatcher(reaper)
  BY <1>4 DEF AwaitWatcher
<1>5. CASE AwaitPipes(reaper)
  BY <1>5 DEF AwaitPipes
<1>6. CASE RecordFirst(reaper)
  BY <1>6 DEF RecordFirst, AfterRecord
<1>7. CASE RecordAgain(reaper)
  BY <1>7 DEF RecordAgain
<1>. QED
  BY <1>1, <1>2, <1>3, <1>4, <1>5, <1>6, <1>7 DEF WaitStep

\* The others neither reap the child nor open its pipes again.
LEMMA OthersAlone ==
  ASSUME Shared, Alone,
         \/ LeaderExits \/ HoldersExit \/ ContextEnds \/ WatcherFires
         \/ Deliver
         \/ \E c \in Stoppers :
              CallGracefulStop(c) \/ CallKill(c) \/ StopStep(c)
         \/ UNCHANGED vars
  PROVE  Alone'
<1>. USE DEF Shared, TypeOK, Alone, vars, osVars, execVars, procVars, waitVars
<1>1. CASE LeaderExits
  BY <1>1 DEF LeaderExits
<1>2. CASE HoldersExit
  BY <1>2 DEF HoldersExit
<1>3. CASE ContextEnds
  BY <1>3 DEF ContextEnds
<1>4. CASE WatcherFires
  BY <1>4 DEF WatcherFires
<1>5. CASE Deliver
  BY <1>5 DEF Deliver, WaitAt, Waiters
<1>6. CASE \E c \in Stoppers : CallGracefulStop(c) \/ CallKill(c)
  BY <1>6 DEF CallGracefulStop, CallKill
<1>7. CASE \E c \in Stoppers : StopStep(c)
  BY <1>7 DEF StopStep, SendTerm, AwaitEnd, CheckRunning, SendKill
<1>8. CASE UNCHANGED vars
  BY <1>8
<1>. QED
  BY <1>1, <1>2, <1>3, <1>4, <1>5, <1>6, <1>7, <1>8

\* Shared and Alone are inductive while nobody else calls Wait.
LEMMA StepAlone ==
  ASSUME UserWaiters = {}
  PROVE  Shared /\ Alone /\ [Next]_vars => Shared' /\ Alone'
<1>1. Waiters = {reaper}
  BY DEF Waiters
<1>. QED
  BY <1>1, StepShared, ReaperAlone, OthersAlone DEF Next

\* Under the reaper alone, as under a Supervisor, the result is the truth.
THEOREM TruthfulAlone ==
  ASSUME UserWaiters = {}
  PROVE  Spec => []ResultIsTruthful
<1>1. Shared /\ Alone => ResultIsTruthful
  BY DEF Shared, Alone, ResultIsTruthful
<1>. QED
  BY <1>1, InitShared, InitAlone, StepAlone, PTL DEF Spec

-----------------------------------------------------------------------------
(* Process implements ManagedChild                                         *)

\* A child just started is an alive one.
LEMMA InitChild == Init => Child!Init
  BY DEF Init, Child!Init

\* Steps that change nothing ManagedChild speaks of.
LEMMA HiddenFromChild ==
  ASSUME UNCHANGED <<finished, result, killed, leader, holders>>
  PROVE  UNCHANGED Child!vars
  BY DEF Child!vars

\* Every step of a lone Process is a step of ManagedChild or hidden from it.
LEMMA StepChild ==
  ASSUME UserWaiters = {}, Shared, Alone, [Next]_vars
  PROVE  [Child!Next]_(Child!vars)
<1>. USE DEF osVars, execVars, procVars
<1>1. CASE LeaderExits \/ HoldersExit
  BY <1>1 DEF LeaderExits, HoldersExit, Alone, Shared, TypeOK, Child!Next,
              Child!End, Child!vars
<1>2. CASE RecordFirst(reaper)
  BY <1>2 DEF RecordFirst, WaitAt, Alone, Shared, TypeOK, Child!Next,
              Child!Finish
<1>3. CASE ReapChild(reaper)
  BY <1>3 DEF ReapChild, WaitAt, Alone, Shared, TypeOK, Child!vars
<1>4. CASE \E c \in Stoppers : SendKill(c)
  BY <1>4 DEF SendKill, GroupExists, Alone, Shared, TypeOK, Child!Next,
              Child!Kill, Child!vars
<1>5. CASE UNCHANGED <<finished, result, killed, leader, holders>>
  BY <1>5, HiddenFromChild
<1>. QED
  BY <1>1, <1>2, <1>3, <1>4, <1>5
     DEF Next, vars, WaitStep, StopStep, Waiters, ContextEnds, WatcherFires,
         Deliver, CallWait, CheckState, AwaitWatcher, AwaitPipes, RecordAgain,
         CallGracefulStop, CallKill, SendTerm, AwaitEnd, CheckRunning

\* A lone Process is a child as ManagedChild describes it, fairness apart.
THEOREM ChildSafety ==
  ASSUME UserWaiters = {}
  PROVE  Spec => Child!Spec
<1>1. Shared /\ Alone /\ [Next]_vars => [Child!Next]_(Child!vars)
  BY StepChild
<1>. QED
  BY <1>1, InitChild, InitShared, InitAlone, StepAlone, PTL
     DEF Spec, Child!Spec

-----------------------------------------------------------------------------
(* Success, with any number of callers of Wait                             *)

\* Nobody is told of a success but of a child that ended well, was reaped and
\* whose output was read to the end; a result of any kind needs the reaping.
SuccessIsReal ==
  /\ finished => leader = "reaped"
  /\ result = "nil" \/ (\E w \in Waiters : got[w] = "nil") =>
       exit = "clean" /\ ~holders

\* Callers that disturb each other in os/exec all get errors.
Honest ==
  /\ procState => leader = "reaped"
  /\ \A w \in Waiters :
       /\ wpc[w] \in {"context", "pipes", "record", "deliver", "done"} =>
            leader = "reaped"
       /\ werr[w] = "nil" =>
            exit = "clean" /\ (wpc[w] \in {"record", "deliver", "done"} =>
                                 ~holders)
       /\ got[w] = "nil" => result = "nil"
  /\ finished => leader = "reaped"
  /\ result = "nil" => finished /\ exit = "clean" /\ ~holders

\* The steps of one caller of Wait invent no success.
LEMMA WaitHonest ==
  ASSUME Shared, Honest, NEW w \in Waiters, CallWait(w) \/ WaitStep(w)
  PROVE  Honest'
<1>. USE DEF Shared, TypeOK, Honest, WaitAt, osVars, execVars, procVars
<1>1. CASE CallWait(w)
  BY <1>1 DEF CallWait
<1>2. CASE CheckState(w)
  BY <1>2 DEF CheckState
<1>3. CASE ReapChild(w)
  <2>1. leader' = "reaped" /\ wpc' = [wpc EXCEPT ![w] = "context"]
    BY <1>3 DEF ReapChild
  <2>2. \/ werr' = [werr EXCEPT ![w] = "nil"] /\ exit = "clean"
        \/ werr' = [werr EXCEPT ![w] = "exit"]
        \/ werr' = [werr EXCEPT ![w] = "echild"]
    BY <1>3 DEF ReapChild
  <2>3. UNCHANGED <<exit, holders, got, finished, result>>
    BY <1>3 DEF ReapChild
  <2>. QED
    BY <2>1, <2>2, <2>3
<1>4. CASE AwaitWatcher(w)
  BY <1>4 DEF AwaitWatcher
<1>5. CASE AwaitPipes(w)
  BY <1>5 DEF AwaitPipes
<1>6. CASE RecordFirst(w)
  <2>1. /\ wpc[w] = "record" /\ finished' = TRUE
        /\ wpc'[w] \in {"deliver", "done"}
        /\ \A v \in Waiters : v # w => wpc'[v] = wpc[v] /\ got'[v] = got[v]
        /\ result' = werr[w] /\ got'[w] = werr[w] /\ result # "nil"
        /\ UNCHANGED <<leader, exit, holders, procState, werr>>
    BY <1>6 DEF RecordFirst, AfterRecord
  <2>. QED
    BY <2>1
<1>7. CASE RecordAgain(w)
  BY <1>7 DEF RecordAgain, AfterRecord
<1>. QED
  BY <1>1, <1>2, <1>3, <1>4, <1>5, <1>6, <1>7 DEF WaitStep

\* The others change neither the record nor what it was made from.
LEMMA OthersHonest ==
  ASSUME Shared, Honest,
         \/ LeaderExits \/ HoldersExit \/ ContextEnds \/ WatcherFires
         \/ Deliver
         \/ \E c \in Stoppers :
              CallGracefulStop(c) \/ CallKill(c) \/ StopStep(c)
         \/ UNCHANGED vars
  PROVE  Honest'
<1>. USE DEF Shared, TypeOK, Honest, vars, osVars, execVars, procVars, waitVars
<1>1. CASE LeaderExits \/ HoldersExit \/ ContextEnds \/ WatcherFires
  BY <1>1 DEF LeaderExits, HoldersExit, ContextEnds, WatcherFires
<1>2. CASE Deliver
  BY <1>2 DEF Deliver, WaitAt, Waiters
<1>3. CASE \E c \in Stoppers : CallGracefulStop(c) \/ CallKill(c) \/ StopStep(c)
  BY <1>3 DEF CallGracefulStop, CallKill, StopStep, SendTerm, AwaitEnd,
              CheckRunning, SendKill
<1>4. CASE UNCHANGED vars
  BY <1>4
<1>. QED
  BY <1>1, <1>2, <1>3, <1>4

\* However many goroutines call Wait, and whichever of them reaps the child,
\* none is told of a success there was not.
THEOREM SuccessNeverInvented == Spec => []SuccessIsReal
<1>1. Init => Honest
  BY DEF Init, Honest
<1>2. Shared /\ Honest /\ [Next]_vars => Honest'
  BY WaitHonest, OthersHonest DEF Next
<1>3. Honest => SuccessIsReal
  BY DEF Honest, SuccessIsReal
<1>. QED
  BY <1>1, <1>2, <1>3, InitShared, StepShared, PTL DEF Spec

-----------------------------------------------------------------------------
(* The reaper is the only caller of Wait: what its callers can rely on     *)

\* os/exec never confuses the reaper with another caller.
Unconfused ==
  werr[reaper] \notin {"echild", "already"} /\ got[reaper] \in {"none", result}

\* Under the reaper alone Wait tells how the child ended: it takes a second
\* caller to lose that (WaitTellsExit fails with one).
THEOREM AloneTellsExit ==
  ASSUME UserWaiters = {}
  PROVE  Spec => []WaitTellsExit
<1>1. Waiters = {reaper}
  BY DEF Waiters
<1>2. Init => Unconfused
  BY DEF Init, Unconfused, Waiters
<1>3. Shared /\ Alone /\ Unconfused /\ [Next]_vars => Unconfused'
  <2>. SUFFICES ASSUME Shared, Alone, Unconfused, [Next]_vars PROVE Unconfused'
    OBVIOUS
  <2>. USE DEF Shared, TypeOK, Alone, Unconfused, Waiters, WaitAt, procVars
  <2>1. CASE CallWait(reaper) \/ CheckState(reaper)
    BY <2>1 DEF CallWait, CheckState
  <2>2. CASE ReapChild(reaper)
    BY <2>2 DEF ReapChild
  <2>3. CASE AwaitWatcher(reaper) \/ AwaitPipes(reaper)
    BY <2>3 DEF AwaitWatcher, AwaitPipes
  <2>4. CASE RecordFirst(reaper) \/ RecordAgain(reaper)
    BY <2>4 DEF RecordFirst, RecordAgain
  <2>5. CASE UNCHANGED <<werr, got, result>>
    BY <2>5
  <2>. QED
    BY <1>1, <2>1, <2>2, <2>3, <2>4, <2>5
       DEF Next, vars, waitVars, WaitStep, StopStep, LeaderExits, HoldersExit,
           ContextEnds, WatcherFires, Deliver, CallGracefulStop, CallKill,
           SendTerm, AwaitEnd, CheckRunning, SendKill
<1>4. Shared /\ Alone /\ Unconfused => WaitTellsExit
  BY <1>1 DEF Shared, OneResult, Alone, Unconfused, WaitTellsExit
<1>. QED
  BY <1>2, <1>3, <1>4, InitShared, InitAlone, StepAlone, PTL DEF Spec

\* The leader is dead, and no descendant holds the pipes of the child's output.
HoldersGone == leader # "running" /\ ~holders

\* A call of GracefulStop or Kill that comes back, other than right after its
\* SIGTERM, finds all that Wait waits for gone, or leaves SIGKILL behind.  It
\* says nothing of a descendant that has redirected its output: that one may
\* live on in the group when waitDone or IsRunning ends the call, for neither
\* cmdrunner.go:838 nor waitDone is about more than the holders of the pipes.
NoHolderLeft ==
  [][\A c \in Stoppers :
       spc[c] # "returned" /\ spc'[c] = "returned" =>
         spc[c] = "signal" \/ HoldersGone \/ killed']_vars

\* IsRunning and waitDone speak of the result that Wait has recorded, which
\* under the reaper alone it does after the leader and the last holder of the
\* pipes: a stop that relies on one of them leaves no holder behind.
THEOREM StopLeavesNoHolder ==
  ASSUME UserWaiters = {}
  PROVE  Spec => NoHolderLeft
<1>1. Shared /\ Alone /\ [Next]_vars =>
        [\A c \in Stoppers :
           spc[c] # "returned" /\ spc'[c] = "returned" =>
             spc[c] = "signal" \/ HoldersGone \/ killed']_vars
  <2>. SUFFICES ASSUME Shared, Alone, Next, NEW c \in Stoppers,
                       spc[c] # "returned", spc'[c] = "returned"
                PROVE  spc[c] = "signal" \/ HoldersGone \/ killed'
    OBVIOUS
  <2>1. finished => HoldersGone
    BY DEF Alone, HoldersGone
  <2>2. closes > 0 => finished
    BY DEF Shared, OneResult
  <2>3. PICK d \in Stoppers :
          CallGracefulStop(d) \/ CallKill(d) \/ StopStep(d)
    BY DEF Next, vars, waitVars, WaitStep, LeaderExits, HoldersExit,
           ContextEnds, WatcherFires, Deliver, CallWait, CheckState, ReapChild,
           AwaitWatcher, AwaitPipes, RecordFirst, RecordAgain
  <2>4. c = d
    BY <2>3 DEF CallGracefulStop, CallKill, StopStep, SendTerm, AwaitEnd,
                CheckRunning, SendKill, StopAt, Shared, TypeOK
  <2>5. CASE CallGracefulStop(c) \/ CheckRunning(c)
    BY <2>1, <2>5 DEF CallGracefulStop, CheckRunning, StopAt, IsRunning,
                      Shared, TypeOK
  <2>6. CASE CallKill(c)
    BY <2>6 DEF CallKill, StopAt, Shared, TypeOK
  <2>7. CASE SendTerm(c)
    BY <2>7 DEF SendTerm, StopAt
  <2>8. CASE AwaitEnd(c)
    BY <2>1, <2>2, <2>8 DEF AwaitEnd, StopAt, Shared, TypeOK
  <2>9. CASE SendKill(c)
    BY <2>9 DEF SendKill, GroupMayBeGone, HoldersGone
  <2>. QED
    BY <2>3, <2>4, <2>5, <2>6, <2>7, <2>8, <2>9 DEF StopStep
<1>. QED
  BY <1>1, InitShared, InitAlone, StepAlone, PTL DEF Spec, NoHolderLeft
=============================================================================
