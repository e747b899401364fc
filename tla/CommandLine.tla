---------------------------- MODULE CommandLine ----------------------------
(***************************************************************************)
(* tools/cmdrunner/cmdrunner.go: how Run decides between executing a       *)
(* program and handing the command to a shell, and how it splits a command *)
(* into words.  NeedsShell and SplitCommandLine scan the command with two  *)
(* loops of their own; they are run here side by side, together with the   *)
(* tokenizer of a POSIX shell, one character at a time.                    *)
(*                                                                         *)
(* A character is one of its class: "a" is any character that means        *)
(* nothing to anybody, "b" one that spells a builtin, "expand" one of $    *)
(* and backquote, "meta" any other character of hasUnquotedShellMeta.      *)
(***************************************************************************)
EXTENDS Naturals, Sequences

CONSTANTS
  Builtins,    \* the words NeedsShell takes for builtins of the shell
  LengthBound  \* bound on the characters of a command

White == {"blank", "newline"}
Chars == White \cup {"a", "b", "backslash", "single", "double", "expand",
                     "meta", "hash", "equals"}
Words == Seq(Chars)

ASSUME BuiltinAssumption == Builtins \subseteq Words
ASSUME BoundAssumption == LengthBound \in Nat

VARIABLES
  req,      \* the Request, but for its Command
  count,    \* characters of Command so far
  last,     \* the class of the last one
  scan,     \* the locals of hasUnquotedShellMeta
  split,    \* the locals of SplitCommandLine
  sh,       \* what a shell makes of the same characters
  gaps,     \* history: where the splitter and a shell are known to differ
  pc,       \* "typing", "resolved"
  result    \* what NormalizeRequest returns

input == <<req, count, last, scan, split, sh, gaps>>
vars == <<req, count, last, scan, split, sh, gaps, pc, result>>

Blank(w) == \A k \in DOMAIN w : w[k] \in White

\* The fields of a request.  A shell_command is "", blank, some text, or the
\* text of Command.
Modes == {"", "auto", "args", "shell", "other"}
Requests == [mode : Modes, program : Words, args : Seq(Words),
             shell : {"", "blank", "text", "command"}]
Errors == {"empty", "args", "shell", "mode"}

ScanState == [single : BOOLEAN, double : BOOLEAN, escaped : BOOLEAN,
              meta : BOOLEAN]
SplitState == [single : BOOLEAN, double : BOOLEAN, escaped : BOOLEAN,
               buf : Words, parts : Seq(Words)]
ShState == [quote : {"none", "escape", "single", "double", "dqescape"},
            open : BOOLEAN, word : Words, words : Seq(Words), plain : BOOLEAN]
Differences == {"second command", "empty word", "comment", "assignment",
                "line continuation", "quoted expansion", "kept backslash"}

-----------------------------------------------------------------------------
(* The two scans of the program                                            *)

ScanSingleMutant(s, c) ==   \* a backslash escapes in single quotes too
  IF s.meta THEN s
  ELSE IF s.escaped THEN [s EXCEPT !.escaped = FALSE]
  ELSE CASE c = "backslash" -> [s EXCEPT !.escaped = TRUE]
         [] c = "single" -> [s EXCEPT !.single = (s.single # ~s.double)]
         [] c = "double" -> [s EXCEPT !.double = (s.double # ~s.single)]
         [] c \in {"expand", "meta"} -> [s EXCEPT !.meta = ~s.single /\ ~s.double]
         [] OTHER -> s

ScanDoubleMutant(s, c) ==   \* double quotes do not hide a metacharacter
  IF s.meta THEN s
  ELSE IF s.escaped THEN [s EXCEPT !.escaped = FALSE]
  ELSE CASE c = "backslash" -> [s EXCEPT !.escaped = ~s.single]
         [] c = "single" -> [s EXCEPT !.single = (s.single # ~s.double)]
         [] c = "double" -> [s EXCEPT !.double = (s.double # ~s.single)]
         [] c \in {"expand", "meta"} -> [s EXCEPT !.meta = ~s.single]
         [] OTHER -> s

\* One turn of the loop of hasUnquotedShellMeta, which returns at the first
\* metacharacter.
ScanStep(s, c) ==
  IF s.meta THEN s
  ELSE IF s.escaped THEN [s EXCEPT !.escaped = FALSE]
  ELSE CASE c = "backslash" -> [s EXCEPT !.escaped = ~s.single]
         [] c = "single" -> [s EXCEPT !.single = (s.single # ~s.double)]
         [] c = "double" -> [s EXCEPT !.double = (s.double # ~s.single)]
         [] c \in {"expand", "meta"} ->
              [s EXCEPT !.meta = ~s.single /\ ~s.double]
         [] OTHER -> s

\* flush of SplitCommandLine: an empty word is dropped.
Flush(s) ==
  IF s.buf = <<>> THEN s
  ELSE [s EXCEPT !.parts = Append(s.parts, s.buf), !.buf = <<>>]

\* One turn of the loop of SplitCommandLine.
SplitStep(s, c) ==
  LET put == [s EXCEPT !.buf = Append(s.buf, c), !.escaped = FALSE]
  IN  CASE s.escaped -> put
        [] ~s.escaped /\ c = "backslash" ->
             IF s.single THEN put ELSE [s EXCEPT !.escaped = TRUE]
        [] ~s.escaped /\ c = "single" ->
             IF s.double THEN put ELSE [s EXCEPT !.single = ~s.single]
        [] ~s.escaped /\ c = "double" ->
             IF s.single THEN put ELSE [s EXCEPT !.double = ~s.double]
        [] ~s.escaped /\ c \in White ->
             IF s.single \/ s.double THEN put ELSE Flush(s)
        [] OTHER -> put

SplitFails == split.escaped \/ split.single \/ split.double
Parts == Flush(split).parts

-----------------------------------------------------------------------------
(* The shell: quoting and quote removal as POSIX has them (XCU 2.2, 2.3).  *)
(* plain says that the text so far is a simple command of literal words; a *)
(* metacharacter that happens to be harmless, as in "}", counts as syntax. *)

Push(s) ==
  IF ~s.open THEN s
  ELSE [s EXCEPT !.words = Append(s.words, s.word), !.word = <<>>,
                 !.open = FALSE]

Unquoted(s, c) ==
  CASE c = "blank" -> Push(s)
    [] c = "newline" -> [Push(s) EXCEPT !.plain = FALSE]
    [] c = "backslash" -> [s EXCEPT !.quote = "escape"]
    [] c \in {"single", "double"} -> [s EXCEPT !.quote = c, !.open = TRUE]
    [] c \in {"expand", "meta"} -> [s EXCEPT !.plain = FALSE]
    [] c = "hash" /\ ~s.open -> [s EXCEPT !.plain = FALSE]
    [] c = "equals" /\ s.open /\ s.words = <<>> -> [s EXCEPT !.plain = FALSE]
    [] OTHER -> [s EXCEPT !.word = Append(s.word, c), !.open = TRUE]

ShStep(s, c) ==
  LET put == [s EXCEPT !.word = Append(s.word, c), !.open = TRUE]
  IN  CASE s.quote = "none" -> Unquoted(s, c)
        [] s.quote = "escape" ->
             IF c = "newline" THEN [s EXCEPT !.quote = "none"]
             ELSE [put EXCEPT !.quote = "none"]
        [] s.quote = "single" ->
             IF c = "single" THEN [s EXCEPT !.quote = "none"] ELSE put
        [] s.quote = "double" ->
             CASE c = "double" -> [s EXCEPT !.quote = "none"]
               [] c = "backslash" -> [s EXCEPT !.quote = "dqescape"]
               [] c = "expand" -> [s EXCEPT !.plain = FALSE]
               [] OTHER -> put
        [] s.quote = "dqescape" ->
             IF c = "newline" THEN [s EXCEPT !.quote = "double"]
             ELSE IF c \in {"expand", "double", "backslash"}
             THEN [put EXCEPT !.quote = "double"]
             ELSE [s EXCEPT !.word = s.word \o <<"backslash", c>>,
                            !.quote = "double"]

\* Everything the splitter does not know of the shell.
EmptyWord(s) == IF s.quote = "none" /\ s.open /\ s.word = <<>>
                THEN {"empty word"} ELSE {}

GapAt(s, c) ==
  CASE s.quote = "none" /\ c = "newline" -> {"second command"}
    [] s.quote = "none" /\ c = "blank" -> EmptyWord(s)
    [] s.quote = "none" /\ c = "hash" /\ ~s.open -> {"comment"}
    [] s.quote = "none" /\ c = "equals" /\ s.open /\ s.words = <<>> ->
         {"assignment"}
    [] s.quote \in {"escape", "dqescape"} /\ c = "newline" ->
         {"line continuation"}
    [] s.quote = "double" /\ c = "expand" -> {"quoted expansion"}
    [] s.quote = "dqescape" /\
       c \notin {"newline", "expand", "double", "backslash"} ->
         {"kept backslash"}
    [] OTHER -> {}

Gaps == gaps \cup EmptyWord(sh)

-----------------------------------------------------------------------------
(* The decision                                                            *)

FirstToken == IF SplitFails \/ Parts = <<>> THEN <<>> ELSE Parts[1]

NeedsShell == scan.meta \/ FirstToken \in Builtins

IsEmpty(r) ==
  /\ Blank(r.program) /\ r.args = <<>>
  /\ r.shell \in {"", "blank"}
  /\ count = 0

Error(e) == [error |-> e]
Args(p, a) == [mode |-> "args", program |-> p, args |-> a, shell |-> ""]
Shell(s) == [mode |-> "shell", program |-> <<>>, args |-> <<>>, shell |-> s]

ResolveSplitsMutant(r) ==   \* splits whatever it can
  IF ~Blank(r.program) THEN Args(r.program, r.args)
  ELSE IF r.shell \notin {"", "blank"} THEN Shell(r.shell)
  ELSE IF count = 0 THEN Error("empty")
  ELSE IF SplitFails \/ Parts = <<>> THEN Shell("command")
  ELSE Args(Parts[1], Tail(Parts))

ResolveBlankMutant(r) ==   \* looks for a missing program, not for a blank one
  IF r.program # <<>> THEN Args(r.program, r.args)
  ELSE IF r.shell \notin {"", "blank"} THEN Shell(r.shell)
  ELSE IF count = 0 THEN Error("empty")
  ELSE IF NeedsShell \/ SplitFails \/ Parts = <<>> THEN Shell("command")
  ELSE Args(Parts[1], Tail(Parts))

\* ModeAuto: an explicit program goes before an explicit shell_command, and
\* that before Command.
ResolveAuto(r) ==
  IF ~Blank(r.program) THEN Args(r.program, r.args)
  ELSE IF r.shell \notin {"", "blank"} THEN Shell(r.shell)
  ELSE IF count = 0 THEN Error("empty")
  ELSE IF NeedsShell \/ SplitFails \/ Parts = <<>> THEN Shell("command")
  ELSE Args(Parts[1], Tail(Parts))

NormalizeRequest(r) ==
  IF IsEmpty(r) THEN Error("empty")
  ELSE CASE r.mode = "args" ->
              IF Blank(r.program) THEN Error("args")
              ELSE Args(r.program, r.args)
         [] r.mode = "shell" ->
              IF r.shell \in {"", "blank"} THEN Error("shell")
              ELSE Shell(r.shell)
         [] r.mode \in {"", "auto"} -> ResolveAuto(r)
         [] OTHER -> Error("mode")

-----------------------------------------------------------------------------

\* Command is looked at in auto mode without explicit fields only.
ReadsCommand(r) ==
  r.mode \in {"", "auto"} /\ Blank(r.program) /\ r.shell \in {"", "blank"}

\* Bound: the blank fields play no part in what becomes of Command, so one of
\* these requests stands for all when Command is longer than a character.
Typed(r) == ReadsCommand(r) /\ r.mode = "auto" /\ r.program = <<>> /\
            r.args = <<>> /\ r.shell = ""

Init ==
  /\ req \in [mode : Modes, program : {<<>>, <<"blank">>, <<"a">>},
              args : {<<>>, <<<<"b">>>>}, shell : {"", "blank", "text"}]
  /\ count = 0 /\ last = "blank"
  /\ scan = [single |-> FALSE, double |-> FALSE, escaped |-> FALSE,
             meta |-> FALSE]
  /\ split = [single |-> FALSE, double |-> FALSE, escaped |-> FALSE,
              buf |-> <<>>, parts |-> <<>>]
  /\ sh = [quote |-> "none", open |-> FALSE, word |-> <<>>, words |-> <<>>,
           plain |-> TRUE]
  /\ gaps = {} /\ pc = "typing" /\ result = Error("empty")

\* One more character.  strings.TrimSpace has removed what is blank at the
\* beginning, and Resolve takes no command that is blank at the end.
Type(c) ==
  /\ pc = "typing" /\ count < LengthBound
  /\ count = 0 => c \notin White
  /\ Typed(req) \/ (count = 0 /\ c = "a")
  /\ count' = count + 1 /\ last' = c
  /\ scan' = ScanStep(scan, c)
  /\ split' = SplitStep(split, c)
  /\ sh' = ShStep(sh, c)
  /\ gaps' = gaps \cup GapAt(sh, c)
  /\ UNCHANGED <<req, pc, result>>

\* Run normalises the request and executes what it gets.
Resolve ==
  /\ pc = "typing"
  /\ count > 0 => last \notin White
  /\ result' = NormalizeRequest(req)
  /\ pc' = "resolved"
  /\ UNCHANGED input

Next == Resolve \/ \E c \in Chars : Type(c)

Spec == Init /\ [][Next]_vars

-----------------------------------------------------------------------------
(* Properties                                                              *)

Failed == "error" \in DOMAIN result
\* What Run will execute, when it comes from Command.
FromCommand(mode) ==
  pc = "resolved" /\ ReadsCommand(req) /\ ~Failed /\ result.mode = mode

TypeOK ==
  /\ req \in Requests
  /\ count \in 0 .. LengthBound /\ last \in Chars
  /\ scan \in ScanState /\ split \in SplitState /\ sh \in ShState
  /\ gaps \subseteq Differences
  /\ pc \in {"typing", "resolved"}
  /\ IF Failed THEN result.error \in Errors
     ELSE result \in Requests /\ result.mode \in {"args", "shell"}

\* The loop that looks for metacharacters and the loop that splits are never
\* of two minds about what is quoted: a metacharacter the first calls quoted
\* is part of a word for the second.
ScansAgree ==
  ~scan.meta => /\ scan.single = split.single
                /\ scan.double = split.double
                /\ scan.escaped = split.escaped

\* A command that Run executes without a shell has the words a shell would
\* give it, quotes and escapes resolved alike, and asks for nothing a shell
\* would do besides, the listed gaps apart.
ArgsMeanShellWords ==
  FromCommand("args") /\ Gaps = {} =>
    /\ sh.plain /\ sh.quote = "none"
    /\ <<result.program>> \o result.args = Push(sh).words

\* A shell runs only what needs one: syntax beyond literal words, a builtin,
\* an open quote, or a first word the splitter would lose.
ShellOnlyWhenNeeded ==
  FromCommand("shell") =>
    \/ ~sh.plain \/ sh.quote # "none" \/ Gaps # {}
    \/ Push(sh).words[1] \in Builtins

\* Run executes two modes, so NormalizeRequest may leave no other; and Run
\* normalises whatever it is given, so a request that NormalizeRequest (which
\* is exported) has returned must come through it unchanged.  The one
\* exception is a command whose first word is quoted blanks: its program is
\* blank, and what auto mode has made of it is refused the second time.
NormalIsStable ==
  pc = "resolved" /\ ~Failed =>
    /\ result.mode \in {"args", "shell"}
    /\ IF FromCommand("args") /\ Blank(result.program)
       THEN "error" \in DOMAIN NormalizeRequest(result)
       ELSE NormalizeRequest(result) = result

\* cmdrunner.go:133 has args mode for commands "with no shell syntax" and
\* lists environment-variable expansion as shell syntax.
ArgsHasNoShellSyntax ==
  FromCommand("args") => "quoted expansion" \notin gaps
=============================================================================
