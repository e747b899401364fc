# A verification of opengrab

opengrab is a command-line assistant written in Go. It sends what its user
types to a language model, runs the commands the model asks for, and remembers
the conversation in markdown files. Commands run through the package
`tools/cmdrunner`, which can also keep a long-lived child process running under
a `Supervisor`. This directory holds TLA+ modules for the parts of the program
that keep state, the configurations that model-check them, and proofs.

    tlc -workers 2 -config SupervisorSafety.cfg MCSupervisor.tla
    tlapm SupervisorProofs.tla

## The system

| Component | Source | State | Operations |
|---|---|---|---|
| Supervisor | `tools/cmdrunner/supervisor.go` | `started`, `stopping`, `proc`, `unhealthyStop`, `lastHealth`, last result, final error, metrics, a context | `NewSupervisor`, `Start`, `Wait`, `Stop`, the goroutines `loop` and `healthLoop`, getters |
| Managed process | `cmdrunner.go:675-866` | result, `finished`, `waitDone`, `doneCh`, the child and its group | `Start`, `Wait`, `Done`, `Kill`, `GracefulStop`, `IsRunning` |
| Process groups | `process_group_unix.go`, `process_group_windows.go` | none of their own | signal a group, kill a tree |
| RingBuffer | `ring_buffer.go` | the last bytes of a stream | `Write`, `Bytes`, `String`, `Clear` |
| RotateWriter | `rotate_writer.go` | a log file, its size, numbered backups | `NewRotateWriter`, `Write`, `rotate`, `Close` |
| Output pipeline | `combineWriters`, `buildOutputWriter` | what each writer of a stream has got | one `Write` fans out |
| Command parsing | `cmdrunner.go:255-667` | none | `NormalizeRequest`, `NeedsShell`, `SplitCommandLine` |
| One-shot run | `Run`, `runArgs`, `runShell` | none | start, wait, exit code |
| Backoff | `supervisor.go:796-850` | none | fixed, exponential, with jitter |
| Metrics export | `SnapshotMetrics`, `prometheus.go` | none of their own | a text page |
| Memory store | `memory.go` | pages, log, index, schema | `Init`, `Remember`, `Context` |
| Agent loop | `main.go`, `command.go` | the messages of the conversation | one turn per input line |
| Chat client | `chat.go` | none | one request and its event stream |
| Configuration | `env.go`, `config.go` | the environment | load, read |

How they interact:

- `Supervisor.loop` starts one managed process at a time, waits on its `Done`
  channel, and decides whether to start another. `healthLoop`, one goroutine per
  child, calls the user's check and may call `GracefulStop` on the child;
  `Stop`, called from any goroutine, does the same and then cancels the context
  and waits for `loop`. They share the fields of `Supervisor` under `s.mu`, but
  for `lastHealth`, which `loop` reads without it.
- A managed process has a goroutine, the reaper, inside `Wait` from the start.
  `GracefulStop` signals the group and waits for the channel that `Wait` closes.
- The child's output goes to the user's writer, a `RingBuffer` and a
  `RotateWriter`, in that order, through one `io.MultiWriter`.
- The agent loop calls the chat client, then `Run` if the reply is a command,
  and calls `Remember` once at the end of a turn.

What is hard: the order of the critical sections of three kinds of goroutines;
old health loops that outlive their child; a `Stop` at any point of the loop;
children that ignore signals, and descendants that keep pipes open after the
leader is dead; concurrent calls of `Wait`; failures and crashes between the
system calls of a rotation and between the three writes of `Remember`; and the
boundaries of buffers, budgets and files. `PROJECT.json` lists these hazards
line by line with the properties that speak of them.

What makes each component correct:

- Supervisor: at most one child, which `Stop` and the getters can find; restarts
  within the budget and according to the policy; no launch decided after a stop;
  metrics that agree with the child; `Stop` returns; a condemned child ends.
- Managed process: one result, true, the same for all; `GracefulStop` ends the
  child and the descendants that hold its pipes.
- RingBuffer: the exact tail. RotateWriter: in order, within its limits and of the
  size it thinks, after any failure; nothing lost but the oldest backup, as long as
  `rotate` has not ignored an error of `os.Stat` or `os.Rename`, and else one file a
  step.
- Memory store: no link to nothing, an append-only log, a complete index.
- Output pipeline: every writer was given all the output of a child that succeeded,
  and no writer has more than the one before it. What a writer keeps of it is its
  own affair: the ring has the tail, the log what no rotation has given up.
- Command parsing: the words the shell would see, and a shell exactly when one
  is needed. Backoff, where one is set: the doubled base up to the maximum, and
  no wait shorter than an earlier one but for the jitter.
- Agent loop: every command has its result in the conversation, and what is
  remembered is what the assistant said at last.

## Modules

| Module | What it is |
|---|---|
| `Supervision` | abstract specification: what a supervisor promises |
| `Supervisor` | `supervisor.go` with its goroutines; implements `Supervision` |
| `ManagedChild` | abstract specification: what a process promises to its manager |
| `Process` | a started child with its waiters and stoppers; implements `ManagedChild` |
| `RingBuffer`, `RotateWriter` | the two output components |
| `OutputPipeline` | both behind the process's buffer and the user's writer, over several children; extends `RotateWriter` and has a `RingBuffer` as `Ring` |
| `CommandLine` | what becomes of a request: two scans, the choice of a mode, and the tokenizer of a shell beside them |
| `Backoff` | the three backoff functions in words of a chosen width |
| `MemoryStore` | the assistant's wiki |
| `Assistant` | the conversation; extends `MemoryStore`, which it calls |
| `MCSupervisor`, `MCProcess`, `MCCommandLine`, `MCBackoff`, `MCMemoryStore`, `MCAssistant` | model values, symmetry and arguments for TLC |
| `SupervisorProofs`, `ProcessProofs`, `RingBufferProofs`, `OutputPipelineProofs`, `CommandLineProofs`, `BackoffProofs`, `MemoryStoreProofs`, `AssistantProofs` | theorems |

### Supervisor

A step is what a goroutine does between two points at which another goroutine
can observe it: one critical section, one channel operation or one system call.
`pc` is the place of `loop`; the actions `CheckTop`, `BeforeStart`, `Spawn`,
`SetProcess`, `RecordStart`, `AwaitDone`, `ConsumeUnhealthyFlag`,
`ClearProcess`, `RecordStop`, `AfterStop`, `CheckAfterStop`, `Judge`,
`Terminal`, `RecordRestart`, `SleepBackoff` and `CloseDone` follow its body from
top to bottom. `hl[p]` is the place of child `p`'s health loop, and stays
meaningful after the child is gone. `st[c]` and `target[c]` are the place and
the local `proc` of a caller of `Stop`. A child's number is the number of its
launch. `procs[p]` goes from "running" through "lingering" (the leader is dead
and descendants hold its pipes) and "exited" to "finished", when `Wait` has
recorded the result: `IsRunning` of the code is true until then.

Three choices of the code show in the guards. `shouldExit` and `shouldRestart`
are two critical sections, so `Stop` may come between them. `cmd.Start` refuses a
context that is done, so `Spawn` needs `~cancelled` while `stopping` alone does
not hinder it. `exec.CommandContext` kills the leader and not the group, so
cancellation is fair to `LeaderExits` and not to `GroupExits`.

The health check, the hooks and the launch may each succeed or fail at any time.
The backoff lasts any length of time. `marked` is history: it tells whether a
health loop's mark came before the loop consumed the flag for that child.

`Supervision` has none of these goroutines. Its refinement mapping takes `Phase`
from `pc`, `halted` from `stopping` or cancellation, `alive` from the children,
`launches` from `cur` and `retries` from `metrics.restarts`.

### Process

`Process` opens up what `Supervisor` has as `LeaderExits`, `GroupExits`, `Reap`,
`Kill` and the grace period. `wpc[w]` is the place of a caller of `Wait`; the
steps inside `exec.Cmd.Wait` are external and modelled as far as callers can
tell them apart: the test of `ProcessState`, the reaping, of which there is one,
the answer of the context's watcher, which one caller gets, and the end of the
copies of the output, for which every holder of the pipes must be gone. `spc[c]`
is the place of a caller of `GracefulStop` or `Kill`, between whose test and
whose signal everything else can happen.

`ManagedChild` is what remains of a child for its manager. `Supervisor` has the
same life under its own names: "running" and "lingering" are `alive`, "exited" is
`gone`. Two assumptions of `Supervisor` are what `ProcessAlone.cfg` checks of
`Process`: that a killed child and its holders end and are reaped, and that a
recorded result is that of the child.

### RingBuffer and RotateWriter

Bytes are named by their place in the whole output, which lets an invariant say
"the tail" or "in order". Each method of `RingBuffer` holds its lock throughout
and is one action. `RotateWriter` has one action per system call, since a crash
may come between two of them; a file is the interval of bytes it holds. `file`
is "stale" when `Close` failed and `w.file` was left pointing to a closed file,
and "nil" after a rotation that failed half-way, after which every `Write` is
refused until the program restarts.

Two errors of a rotation are not reported. A backup whose `os.Stat` or `os.Rename`
fails stays where it is, and the next one may be renamed onto it. An `os.Stat` of the
log that fails at `rotate_writer.go:130` for whatever reason passes for "no such file":
the rename is skipped and `O_TRUNC` at line 136 empties the full log. `MoveMain` has
this path. `ignored` is history: of which files such an error was ignored. The
properties that it breaks are stated for runs without, and `OnlyOldestLost` says besides
what it can cost.

### OutputPipeline

One stream of the children: `ReadChunk` is os/exec's copy and the process's own
buffer, `UserWrites` the user's writer, `RingWrites` the ring and `LogBegins` and
`LogWorks` the rotating log, in the order in which `buildOutputWriter` and
`combineWriters` put them. `stage` is who is to get the chunk; the first error
makes it "broken", and the child's `Exit` then cannot be a success. `StartChild`
combines the writers anew while ring and log stay, `Die` loses everything but the
disk, and `NewSupervisor` opens what is there.

### CommandLine

A command is typed one character at a time. `scan` is the state of
`hasUnquotedShellMeta`, `split` that of `SplitCommandLine` and `sh` that of the
tokenizer of a POSIX shell; each has a step per character, and `Resolve` makes of
the three what `NormalizeRequest` returns. Characters are eleven kinds: blanks
and newlines, both quotes, the backslash, `$` and the other metacharacters, `#`, `=`
and what words are made of. The tokenizer is the reference definition, and
external: it gives words, tells whether everything was literal, and notes the
`gaps`, the places where the source and a shell are known to differ (`GapAt`: an
unquoted newline, a comment, an assignment before the program, a line
continuation, an empty word, and between double quotes an expansion or a backslash
that a shell keeps). The properties
are about everything but the gaps, and the finding `ArgsHasNoShellSyntax` is about
the one gap that contradicts the documentation.

### Backoff

`Restart` is a call from `sleepBackoff` with the number of all restarts, `Double`
one turn of the loop of `ExponentialBackoff`, `Return` its end, `Jitter` the
function around it. A duration wraps at `Half`; a float64 out of range becomes one
of the values the conversion gives on the machines Go runs on. `exact` doubles
without a limit. A ratio is a whole number of `Parts`, and the factor may be any
value the random number allows.

### MemoryStore

`Remember` fixes the name of the page and then makes its three writes, an action
each: `WritePage`, `AppendLog`, `InsertIndexEntry`. Each may fail or leave a torn
file, and the program may die before or after it. A page is named by its second
and its slug, as in the code, and a first line that leaves no slug gets the
default. An index that cannot be read passes for an empty one. An entry written
in part is taken for none.

### Assistant

`main` is the place of `main()`: `ReadInput`, then `Reply` or `ChatFails`, `RunCommand`
after a command, and `Save` or `SkipSave` at the end of the turn; `Saving` are the
writes of `MemoryStore`, whose actions and variables the module uses as they are.
A reply is a command, a text or nothing; `Delivered` says what a stream cut short,
or a chunk that cannot be parsed, makes of it. `messages` keeps the last message
of the turn before and those of this turn: nothing reads or changes the others.
`Context` is what `memory.Context` shows the model, counted in entries. The program
may die at any point and start again on the same files.

## Runs

| Configuration | Question |
|---|---|
| `SupervisorSafety` | who lives, who is signalled, what flag and metrics say, and whether the end and the error of `Wait` are justified, with two callers of `Stop`, two children and lingering descendants |
| `SupervisorLiveness` | `Stop` returns, a condemned child ends, the budget holds, and `Supervision` is implemented, with failing hooks and launches and lingering descendants |
| `SupervisorStaleFlag` | the flag of one child reaches the next (violated, see below) |
| `ProcessAlone` | truth of the result, end of the child and the holders of its pipes, refinement of `ManagedChild` with its fairness |
| `ProcessWaiters` | one result for three callers of `Wait` |
| `ProcessRecipe` | what a second `Wait` may be told (violated, see below) |
| `Backoff` | the doubling against its exact value, and the bounds and order of the waits, at the edges of the word |
| `OutputPipeline` | the ring is the tail, the files are in order, bounded and of the size the writer thinks under failures and crashes; without holes, and with a successful child's output but for what the oldest backups took along, as long as no error was ignored; what a step can lose in any case |
| `CommandLine` | both scans against each other and against a shell, and what `NormalizeRequest` returns |
| `CommandQuoted` | shell syntax that is run without a shell (violated, see below) |
| `MemoryCollision` | two turns in one second (violated, see below) |
| `Assistant` | commands and results, what is remembered, what the model is shown, links, log and index, and the end of a turn, under failures and crashes |

Every property of a run was also checked against a mutation of the source: the
operators whose names end in `Mutant` are such mutations, each next to the
definition it changes, and nothing else uses them.

### Bounds

- Supervisor: `MaxRestarts = 1` and `RestartBound` one above it: enough for an old
  health loop, the current child and the limit; the theorems need no such bound.
- `CheckBound = 2`: one check for the old child and one for the new, or two for
  one child; `SupervisorLiveness`, whose graph carries the fairness, has one. One
  failure condemns a child; larger thresholds only delay the mark.
- Two callers of `Stop`, which differ in their targets and can overtake each
  other at every point.
- `Process`: two stoppers, and up to two callers of `Wait` besides the reaper.
- `OutputPipeline`: `maxBackups = 3`, so that one backup has neighbours on both
  sides; `maxBytes = 2`, so that a file of two Writes may reach the limit and one of
  3 bytes shows whether it was passed by one Write or by two; a ring of 2; chunks of up
  to 3 bytes, so that they fit, fill and exceed both; 5 bytes, which with short writes
  are enough to rotate every file out, and to wrap the ring.
- `CommandLine`: six characters, enough for a word, a blank and a second word with
  a quoted or escaped character; every request with and without its explicit
  fields, except that only one of the requests whose explicit fields are blank is
  combined with longer commands (`Typed`: the fields play no part in them).
- `Backoff`: words of seven bits, `MCBases` and `MCMaxes` on both sides of a quarter
  of the range, eight restarts, one more than it takes to overflow from the
  smallest base, and every ratio in sixths, of which a third is one.
- `MemoryCollision`: two turns in at most two seconds, two of three inputs with no slug.
- `Assistant`: three turns of up to two commands, in two seconds, with three inputs,
  of which two have no slug; index and log each show one entry, so that with three
  turns something is cut from both.

### Fairness

Weak fairness of `LoopStep`, `HealthStep`, `StopStep`, `WaitStep`, `Reap` and the
watcher says that the Go scheduler runs what can run, that tickers and timers
fire, and that hooks and health checks return. Weak fairness of the leader's
exit is assumed only once it was killed, by SIGKILL to the group or by the
context, and of the descendants' exit only once the group was killed: SIGKILL
cannot be ignored, SIGTERM can. Nothing is assumed of a child left alone, of
`Start`, of a caller, or of a descendant that nobody killed.

`StopReturns` therefore excepts a child that lingers for ever: a caller of `Stop`
that came before `setProcess` has only the cancellation, which does not reach a
descendant that holds the pipes, and waits with it. `CondemnedChildEnds` has no such
exception, since its path goes through `GracefulStop` and reaches the whole group.

`MainSpec` of `Assistant` has weak fairness of `MainStep`: the program runs, a request
has a timeout of a minute, and a system call returns. Nothing is assumed of the
user or of a command: `TurnEnds` excepts a command that runs for ever, for `Run` has
no timeout there, and a command that leaves a process in the background with the
pipes is one. That the model stops asking for commands is `CommandBound`'s doing;
the code does not see to it.

### What disagrees

- `CleanExitBreaksChain`. `supervisor.go:680` says that a clean exit ends a chain
  of crashes. `unhealthyStop` does not name a child and nobody waits for an old
  health loop, so a check that fails after its child has ended marks the next
  one, whose clean exit then counts as unhealthy.
- `WaitTellsExit`. The recipes in `skill.zip` call `Wait` on a started process,
  inside which the reaper already is. One of the two gets an error of os/exec,
  and if it comes first, that error is the recorded result.
- `ArgsHasNoShellSyntax`. `cmdrunner.go:133` has args mode for commands with no
  shell syntax and names the expansion of variables as such. A variable between
  double quotes is not seen by `hasUnquotedShellMeta`, so `echo "$HOME"` runs
  without a shell and prints `$HOME`.
- `SavedTurnsStay`. `MEMORY.md:10` has every turn saved as a page. Two turns with
  the same slug in one second share a page, and the second replaces the first.

## Proofs

The theorems hold for every value of the constants that satisfies the `ASSUME`s
of the module, and so for any number of restarts, callers, backups and turns.

- `SupervisorProofs`. The safety properties are not inductive. `IInv` adds:
  `Lifecycle` (children are born and finish in order, and `proc` names `cur`
  exactly between `SetProcess` and `ClearProcess`), `Gauge` (the metrics as a
  function of `pc`), `Budget` (on the way to a launch its restart is already
  counted), `Targets` (a caller of `Stop` that found a child has set `stopping`
  while `loop` could not have passed `shouldRestart`) and `Flags` (where a mark
  set in time is). From it follow `TypeOK`, `RestartBudget`, `NoOrphan`,
  `GaugeTracksProcess`, `StopSignalsLastChild` and `CondemnedIsUnhealthy`, and
  `PromiseKept`: every step of `Supervisor` is a step of `Supervision` or a
  stutter. More invariants rest on `IInv`: `Verdict` (from the decision against a
  restart to the end of `loop` its reason stays the case, and the error is the last
  launch's) with `Remembered` (what a check has found stays in `lastHealth`, unless the
  loop of another child has overlapped) gives `EndIsJustified`, and `Payment` (a crash is
  counted before the restart it asks for) gives
  `RestartsPaidByCrashes`. `Marks` and `Traced` follow a verdict back to the health loop
  that gave it: it counted enough failures (`CondemnationEarned`), and a mark that
  comes after the flag was consumed is the only thing that makes
  `SupervisorStaleFlag` fail (`OnlyLateMarksMislead`). `AttemptsAddUp` relates the
  counters of the metrics to the launches. Two ranks stand for the part of liveness that
  is a matter of single steps: `StepsLeft` shrinks with every step of `loop` after a halt
  (`StopShortensLoop`), `LoopsLeft` with every step of a health loop whose child has
  finished (`OutlivedLoopsFinish`). `EachChildManaged` maps one child to `ManagedChild`,
  so the two halves meet: `Process` implements what the `Supervisor` takes for granted.
  `PromiseMeans` draws on `Supervision` alone, to show that it is no empty promise.
- `ProcessProofs`. `Shared` (one result) is inductive for any number of callers
  of `Wait`. `Alone` follows the reaper through os/exec and needs that it is the
  only caller: from it come `ResultIsTruthful` and the safety part of
  `ManagedChild`. The counterexample of `ProcessRecipe` shows that the restriction
  is needed; what it violates, `WaitTellsExit`, is proved of the reaper alone
  (`AloneTellsExit`). So is `StopLeavesNoHolder`: a `GracefulStop` that trusts `waitDone` or
  `IsRunning` leaves no descendant that holds the child's pipes. It says nothing of one
  that has redirected its output, which may live on. Without the
  restriction `Honest` still holds: callers of `Wait` that get in each other's way get
  errors, never a success there was not (`SuccessNeverInvented`).
- `RingBufferProofs`. `KeepsTail` is inductive with `TypeOK`; the work is in the
  arithmetic of the three cases of `Write`. The theorems have `SizeAssumption` as
  their hypothesis: it is an `ASSUME` of `OutputPipeline`, which has the ring's
  constants as its own. Here `Clear` may come at any point, which nothing in the
  package does.
- `OutputPipelineProofs`. Of the log alone: `Control` (which file `Write` has at each
  point) and `Intervals` (files are intervals of what was written) make
  `SizeIsTrue`, `FilesBounded` and `Chronological` inductive. Every step of the pipeline
  is a step of the log or leaves it alone (`LogAction`), so they hold there too.
  As long as no error was ignored, a rename goes to an empty path or onto the
  oldest backup of a full set (`Vacant`), and files are next to one another
  (`Adjacent`, `Chained`): that gives `NoHoles` and, step by step, `OnlyOldestLost`.
  Whatever was ignored, a step costs one file at most (`OneGivenUp`), and the log only
  where `O_TRUNC` empties one that `os.Stat` did not see. `CallsLeft` counts the
  system calls that a rotation has before it
  (`RotationShortens`).
  `Place` says for each `stage` which writers have the chunk: from it comes
  `WritersInOrder`, and with `NoHoles` (a byte below the end is in a file, or older than
  all of them: `NoByteMissing`) `SuccessMeansAll`. `KeepsTail` is that of `RingBufferProofs`, taken
  as an instance.
- `CommandLineProofs`. For commands of any length: the invariant relates the three
  scanners after every character (what is quoted, escaped and open, and the words
  so far), and from it `ScansAgree`, `ArgsMeanShellWords` and `ShellOnlyWhenNeeded`
  follow at `Resolve`. No induction over data is needed, since a character is a
  step of the specification. `NormalIsStable` is about a second call, of a request
  the specification does not make: its lemmas go through the cases of the result, of
  which one, a first word of quoted blanks, is refused the second time.
- `BackoffProofs`. Below a quarter of the range a doubling that does not exceed the
  maximum cannot wrap: that makes `d` equal to `exact` throughout the loop
  (`DoublesUpToMax`), and the bounds of `Stretched` do the rest (`WaitsAreBounded`).
  `WaitsGrow` compares two calls, each of which doubles the same base: the invariant
  `Growth` says that there is one curve both go along, and extends it by a point
  when a call goes further than all before, which stands for an induction.
- `MemoryStoreProofs`. `Pending` says that `Remember` goes on to the next file only
  when the last is written; with it `NoDanglingLinks` is inductive, and
  `LogIsHistory` follows step by step. `Indexed` says what index and log have in
  common at each of the places; with `NoDoubles` it gives `TurnsIndexed`. `Ordered`
  says where: the entry of the j-th turn is among the last j of the index. `Filing` does
  the same for the log (`LogInOrder`, `TurnsFiled`). `Holding` and `Apart` say how far the
  finding of `MemoryCollision` goes: a page is lost to a later turn of its name and to
  nothing else (`LostToLaterTurns`), so none is while every turn gets a name that the log
  does not have (`FreshNamesKeepTurns`), as it does when turns are saved in different
  seconds (`OneTurnASecondKeepsTurns`). These rest on a clock that is never set back.
- `AssistantProofs`. `UsesMemory`: every step of `Assistant` is a step of `MemoryStore`
  or leaves it alone, so what is proved of the store holds in the whole program
  (`StoreHolds`), and `Ordered` gives `ContextComplete`. `CommandsAnswered` and `RememberedIsFinal` are inductive with the
  place of `main()`, for any number of commands and turns. `TurnsReachDisk`, of what was
  remembered and what the log has, needs nothing but the theorems of the store.

Only model-checked: the liveness properties `StopReturns`, `CondemnedChildEnds`,
`StopEndsChild` and `TurnEnds` and the fairness part of `ManagedChild`, which are out
of the prover's reach. The ranks above say that there are few steps left and that
nobody adds to them; that they are taken is for TLC to show. Every other property of a
passing run is a theorem, or a conjunct of one. Of the four properties that are
violated, three are theorems under the condition whose absence the counterexample
uses: `CleanExitBreaksChain` (no late mark), `WaitTellsExit` (no second caller) and
`SavedTurnsStay` (no name twice). The fourth, `ArgsHasNoShellSyntax`, is about one of the gaps
that `ArgsAreShellWords` excepts: where there is none, nothing is left to a shell.

## What is not modelled

- Time stamps, uptime and the strings of the metrics: data no decision reads. The
  text that `prometheus.go` writes of them is formatting.
- A second `Start` of a `Supervisor`, which is refused without effect.
- Windows, whose `taskkill` has no source here; descendants that hold no pipe and
  ignore SIGTERM, which outlive `GracefulStop` unnoticed; the reuse of PIDs.
- Hooks and checks that call back into their supervisor; a user who takes the one
  value of `Done`; a writer or a path given for both streams.
- `env.go` and `config.go`, which run once before the first turn; that they fail is
  modelled. The order of precedence is a sequential loop with no state of its own.
- The characters of replies, pages and the event stream, and the schema file of the
  memory store. Two programs over one memory directory, of which no document
  speaks.
- exec.Cmd.Run, exit codes and the texts of a one-shot `Run`.
- Constant data: the tool definition and the JSON schema. The `.old` sources are not
  compiled.

## Plan

The modules planned at first are there, but for the configuration and the text of
the metrics, which are left out for the reasons above, and the proofs planned for
them are done, with the exact scope of each violated property after them. What could
follow is a larger part of the environment: hooks that
call back into their supervisor, two programs over one memory directory, and a
group whose members outlive `GracefulStop`. Each needs a statement in the sources of
what is meant to happen there, which they do not have now.
