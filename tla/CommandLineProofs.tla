------------------------- MODULE CommandLineProofs -------------------------
(***************************************************************************)
(* For every set of builtins and commands of any length: the two scans     *)
(* agree on what is quoted, and a command that is run without a shell has  *)
(* the words a shell would give it.                                        *)
(***************************************************************************)
EXTENDS CommandLine, SequenceTheorems, TLAPS

-----------------------------------------------------------------------------
(* The steps of the three scanners keep their types.                       *)

LEMMA ScanStepType ==
  ASSUME NEW s \in ScanState, NEW c \in Chars
  PROVE  ScanStep(s, c) \in ScanState
BY DEF ScanStep, ScanState

LEMMA FlushType ==
  ASSUME NEW s \in SplitState
  PROVE  Flush(s) \in SplitState
<1>1. Append(s.parts, s.buf) \in Seq(Words) /\ <<>> \in Words
  BY DEF SplitState, Words
<1> QED
  BY <1>1 DEF Flush, SplitState

LEMMA SplitStepType ==
  ASSUME NEW s \in SplitState, NEW c \in Chars
  PROVE  SplitStep(s, c) \in SplitState
<1>1. Append(s.buf, c) \in Words
  BY DEF SplitState, Words
<1>2. [s EXCEPT !.buf = Append(s.buf, c), !.escaped = FALSE] \in SplitState
  BY <1>1 DEF SplitState
<1>3. /\ [s EXCEPT !.escaped = TRUE] \in SplitState
      /\ [s EXCEPT !.single = ~s.single] \in SplitState
      /\ [s EXCEPT !.double = ~s.double] \in SplitState
  BY DEF SplitState
<1> QED
  BY <1>2, <1>3, FlushType DEF SplitStep

LEMMA PushType ==
  ASSUME NEW s \in ShState
  PROVE  Push(s) \in ShState
<1>1. Append(s.words, s.word) \in Seq(Words) /\ <<>> \in Words
  BY DEF ShState, Words
<1> QED
  BY <1>1 DEF Push, ShState

LEMMA PutType ==
  ASSUME NEW s \in ShState, NEW c \in Chars
  PROVE  /\ [s EXCEPT !.word = Append(s.word, c), !.open = TRUE] \in ShState
         /\ [s EXCEPT !.word = s.word \o <<"backslash", c>>,
                      !.quote = "double"] \in ShState
<1>1. Append(s.word, c) \in Words /\ s.word \o <<"backslash", c>> \in Words
  BY DEF ShState, Words, Chars
<1> QED
  BY <1>1 DEF ShState

LEMMA MarkType ==
  ASSUME NEW s \in ShState
  PROVE  /\ [s EXCEPT !.plain = FALSE] \in ShState
         /\ \A q \in {"none", "escape", "single", "double", "dqescape"} :
              /\ [s EXCEPT !.quote = q] \in ShState
              /\ [s EXCEPT !.quote = q, !.open = TRUE] \in ShState
BY DEF ShState

LEMMA UnquotedType ==
  ASSUME NEW s \in ShState, NEW c \in Chars
  PROVE  Unquoted(s, c) \in ShState
<1>1. [Push(s) EXCEPT !.plain = FALSE] \in ShState
  BY PushType, MarkType
<1> QED
  BY <1>1, PushType, PutType, MarkType DEF Unquoted

LEMMA ShStepType ==
  ASSUME NEW s \in ShState, NEW c \in Chars
  PROVE  ShStep(s, c) \in ShState
<1> DEFINE put == [s EXCEPT !.word = Append(s.word, c), !.open = TRUE]
<1>1. /\ [put EXCEPT !.quote = "none"] \in ShState
      /\ [put EXCEPT !.quote = "double"] \in ShState
  BY PutType, MarkType
<1>2. s.quote \in {"none", "escape", "single", "double", "dqescape"}
  BY DEF ShState
<1> QED
  BY <1>1, <1>2, PutType, MarkType, UnquotedType DEF ShStep

LEMMA GapAtType ==
  ASSUME NEW s, NEW c
  PROVE  GapAt(s, c) \subseteq Differences
BY DEF GapAt, EmptyWord, Differences

-----------------------------------------------------------------------------
(* The result is one NormalizeRequest may return.                          *)

Returned(r) ==
  IF "error" \in DOMAIN r THEN r.error \in Errors
  ELSE r \in Requests /\ r.mode \in {"args", "shell"}

LEMMA ResultType ==
  ASSUME TypeOK
  PROVE  Returned(NormalizeRequest(req))
<1>1. ASSUME NEW p \in Words, NEW a \in Seq(Words)
      PROVE  Returned(Args(p, a))
  BY <1>1 DEF Args, Requests, Modes, Returned
<1>2. ASSUME NEW t \in {"", "blank", "text", "command"}
      PROVE  Returned(Shell(t))
  <2>1. <<>> \in Words /\ <<>> \in Seq(Words)
    BY EmptySeq DEF Words
  <2> QED
    BY <1>2, <2>1 DEF Shell, Requests, Modes, Returned
<1>3. ASSUME NEW e \in {"empty", "args", "shell", "mode"}
      PROVE  Returned(Error(e))
  BY <1>3 DEF Error, Errors, Returned
<1>4. /\ req.program \in Words /\ req.args \in Seq(Words)
      /\ req.shell \in {"", "blank", "text", "command"}
  BY DEF TypeOK, Requests
<1>5. Parts \in Seq(Words)
  BY FlushType DEF TypeOK, Parts, SplitState
<1>6. Parts # <<>> => Parts[1] \in Words /\ Tail(Parts) \in Seq(Words)
  BY <1>5
<1>7. Returned(ResolveAuto(req))
  <2>1. CASE ~Blank(req.program)
    BY <1>1, <1>4, <2>1 DEF ResolveAuto
  <2>2. CASE Blank(req.program) /\ req.shell \notin {"", "blank"}
    BY <1>2, <1>4, <2>2 DEF ResolveAuto
  <2>3. CASE Blank(req.program) /\ req.shell \in {"", "blank"}
    BY <1>1, <1>2, <1>3, <1>6, <2>3 DEF ResolveAuto
  <2> QED
    BY <2>1, <2>2, <2>3
<1>8. CASE IsEmpty(req)
  BY <1>3, <1>8 DEF NormalizeRequest
<1>9. CASE ~IsEmpty(req)
  BY <1>1, <1>2, <1>3, <1>4, <1>7, <1>9 DEF NormalizeRequest
<1> QED
  BY <1>8, <1>9

-----------------------------------------------------------------------------
(* The three scanners in step.                                             *)

\* The two loops have the same idea of what is quoted.
Agree(a, s) ==
  ~a.meta => a.single = s.single /\ a.double = s.double /\ a.escaped = s.escaped

\* The splitter is where a shell would be.
Match(s, h) ==
  /\ h.plain /\ s.parts = h.words /\ s.buf = h.word
  /\ s.escaped <=> h.quote \in {"escape", "dqescape"}
  /\ s.single <=> h.quote = "single"
  /\ s.double <=> h.quote \in {"double", "dqescape"}
  /\ ~h.open => h.word = <<>> /\ h.quote \in {"none", "escape"}

LEMMA AgreeStep ==
  ASSUME NEW a \in ScanState, NEW s \in SplitState, NEW c \in Chars,
         ~(s.single /\ s.double), Agree(a, s)
  PROVE  Agree(ScanStep(a, c), SplitStep(s, c))
BY DEF Agree, ScanStep, SplitStep, Flush, ScanState, SplitState, Chars, White

LEMMA NeverBoth ==
  ASSUME NEW s \in SplitState, NEW c \in Chars, ~(s.single /\ s.double)
  PROVE  ~(SplitStep(s, c).single /\ SplitStep(s, c).double)
BY DEF SplitStep, Flush, SplitState

\* Push and Flush do the same to a word, unless it is empty but quoted.
LEMMA FlushIsPush ==
  ASSUME NEW s \in SplitState, NEW h \in ShState, Match(s, h),
         h.quote = "none", EmptyWord(h) = {}
  PROVE  Match(Flush(s), Push(h)) /\ Flush(s).parts = Push(h).words
BY DEF Match, Flush, Push, EmptyWord, SplitState, ShState

LEMMA MatchStep ==
  ASSUME NEW a \in ScanState, NEW s \in SplitState, NEW h \in ShState,
         NEW c \in Chars, ~a.meta, Agree(a, s), Match(s, h),
         ~ScanStep(a, c).meta, GapAt(h, c) = {}
  PROVE  Match(SplitStep(s, c), ShStep(h, c))
<1>1. CASE h.quote = "none"
  <2>1. CASE c = "blank"
    BY <1>1, <2>1, FlushIsPush
    DEF SplitStep, ShStep, Unquoted, GapAt, Match, SplitState, White
  <2>2. CASE c # "blank"
    BY <1>1, <2>2 DEF ScanStep, SplitStep, ShStep, Unquoted, GapAt, Match,
                      Agree, ScanState, SplitState, ShState, Chars, White
  <2> QED
    BY <2>1, <2>2
<1>2. CASE h.quote = "escape"
  BY <1>2 DEF SplitStep, ShStep, GapAt, Match, SplitState, ShState
<1>3. CASE h.quote = "single"
  BY <1>3 DEF SplitStep, ShStep, GapAt, Match, SplitState, ShState, White
<1>4. CASE h.quote = "double"
  BY <1>4 DEF SplitStep, ShStep, GapAt, Match, SplitState, ShState, White
<1>5. CASE h.quote = "dqescape"
  BY <1>5 DEF SplitStep, ShStep, GapAt, Match, SplitState, ShState
<1> QED
  BY <1>1, <1>2, <1>3, <1>4, <1>5 DEF ShState

\* A metacharacter the first loop finds is one a shell obeys.
LEMMA MetaStep ==
  ASSUME NEW a \in ScanState, NEW s \in SplitState, NEW h \in ShState,
         NEW c \in Chars, ~a.meta, Agree(a, s), Match(s, h),
         ScanStep(a, c).meta
  PROVE  ~ShStep(h, c).plain
BY DEF ScanStep, ShStep, Unquoted, Agree, Match, ScanState, SplitState, ShState

LEMMA PlainBefore ==
  ASSUME NEW h \in ShState, NEW c \in Chars, ShStep(h, c).plain
  PROVE  h.plain
BY DEF ShStep, Unquoted, Push, ShState

\* Something other than blanks has been read.
Started(h) == h.words # <<>> \/ h.open \/ h.quote = "escape"

LEMMA StartedStep ==
  ASSUME NEW h \in ShState, NEW c \in Chars, Started(h) \/ c \notin White,
         ~h.open => h.quote \in {"none", "escape"},
         ShStep(h, c).plain, GapAt(h, c) = {}
  PROVE  Started(ShStep(h, c))
<1>1. Append(h.words, h.word) # <<>>
  <2>1. h.words \in Seq(Words)
    BY DEF ShState
  <2> QED
    BY <2>1
<1>2. CASE h.quote = "none"
  <2>1. CASE c = "blank"
    BY <1>1, <1>2, <2>1 DEF Started, ShStep, Unquoted, Push, ShState, White
  <2>2. CASE c # "blank"
    BY <1>2, <2>2 DEF Started, ShStep, Unquoted, GapAt, ShState, White
  <2> QED
    BY <2>1, <2>2
<1>3. CASE h.quote = "escape"
  BY <1>3 DEF Started, ShStep, GapAt, ShState
<1>4. CASE h.quote \in {"single", "double", "dqescape"}
  BY <1>4 DEF Started, ShStep, ShState
<1> QED
  BY <1>2, <1>3, <1>4 DEF ShState

-----------------------------------------------------------------------------
(* The inductive invariant.                                                *)

IInv ==
  /\ TypeOK
  /\ ~(split.single /\ split.double)
  /\ Agree(scan, split)
  /\ gaps = {} /\ (sh.plain \/ ~scan.meta) =>
       ~scan.meta /\ Match(split, sh) /\ (count > 0 => Started(sh))
  /\ pc = "resolved" => result = NormalizeRequest(req)

LEMMA InitInv == Init => IInv
<1> SUFFICES ASSUME Init PROVE IInv
  OBVIOUS
<1>0. <<>> \in Words /\ <<>> \in Seq(Words)
  BY EmptySeq DEF Words
<1>1. <<"blank">> \in Words /\ <<"a">> \in Words /\ <<<<"b">>>> \in Seq(Words)
  BY DEF Words, Chars, White
<1>2. scan \in ScanState /\ split \in SplitState /\ sh \in ShState
  BY <1>0 DEF Init, ScanState, SplitState, ShState
<1>3. req \in Requests
  BY <1>0, <1>1 DEF Init, Requests
<1>4. TypeOK
  <2>1. count \in 0 .. LengthBound /\ last \in Chars /\ gaps \subseteq Differences
    <3>1. 0 \in 0 .. LengthBound
      BY BoundAssumption
    <3> QED
      BY <3>1 DEF Init, Chars, White
  <2>2. Failed /\ result.error \in Errors /\ pc \in {"typing", "resolved"}
    BY DEF Init, Failed, Error, Errors
  <2> QED
    BY <1>2, <1>3, <2>1, <2>2 DEF TypeOK
<1>5. Match(split, sh) /\ Agree(scan, split) /\ ~scan.meta
  BY DEF Init, Match, Agree
<1>6. ~(split.single /\ split.double) /\ count = 0 /\ pc # "resolved"
  BY DEF Init
<1> QED
  BY <1>4, <1>5, <1>6 DEF IInv

LEMMA NextInv == IInv /\ [Next]_vars => IInv'
<1> SUFFICES ASSUME IInv, [Next]_vars PROVE IInv'
  OBVIOUS
<1> USE DEF IInv
<1>1. ASSUME NEW c \in Chars, Type(c) PROVE IInv'
  <2>1. scan \in ScanState /\ split \in SplitState /\ sh \in ShState
    BY DEF TypeOK
  <2>2. /\ scan' = ScanStep(scan, c) /\ split' = SplitStep(split, c)
        /\ sh' = ShStep(sh, c) /\ gaps' = gaps \cup GapAt(sh, c)
        /\ pc' = "typing" /\ UNCHANGED <<req, result>>
        /\ count' = count + 1 /\ count < LengthBound /\ last' = c
        /\ count = 0 => c \notin White
    BY <1>1 DEF Type
  <2>3. TypeOK'
    <3>1. scan' \in ScanState /\ split' \in SplitState /\ sh' \in ShState
      BY <2>1, <2>2, ScanStepType, SplitStepType, ShStepType
    <3>2. gaps' \subseteq Differences
      BY <2>2, GapAtType DEF TypeOK
    <3> QED
      BY <2>2, <3>1, <3>2, BoundAssumption DEF TypeOK, Failed
  <2>4. ~(split.single /\ split.double)'
    BY <2>1, <2>2, NeverBoth
  <2>5. Agree(scan, split)'
    BY <2>1, <2>2, AgreeStep
  <2>6. ASSUME gaps' = {}, sh'.plain \/ ~scan'.meta
        PROVE  ~scan'.meta /\ Match(split', sh') /\ Started(sh')
    <3>1. gaps = {} /\ GapAt(sh, c) = {}
      BY <2>2, <2>6
    <3>2. sh.plain \/ ~scan.meta
      BY <2>1, <2>2, <2>6, PlainBefore DEF ScanStep
    <3>3. ~scan'.meta
      BY <2>1, <2>2, <2>6, <3>1, <3>2, MetaStep
    <3>4. Match(split', sh')
      BY <2>1, <2>2, <3>1, <3>2, <3>3, MatchStep
    <3>5. sh'.plain
      BY <3>4 DEF Match
    <3>6. /\ Started(sh) \/ c \notin White
          /\ ~sh.open => sh.quote \in {"none", "escape"}
      BY <2>2, <3>1, <3>2 DEF TypeOK, Match
    <3> QED
      BY <2>1, <2>2, <3>1, <3>3, <3>4, <3>5, <3>6, StartedStep
  <2> QED
    BY <2>2, <2>3, <2>4, <2>5, <2>6
<1>2. CASE Resolve
  <2>1. /\ result' = NormalizeRequest(req) /\ pc' = "resolved"
        /\ UNCHANGED input
    BY <1>2 DEF Resolve
  <2>2. NormalizeRequest(req)' = NormalizeRequest(req)
    BY <2>1 DEF NormalizeRequest, ResolveAuto, IsEmpty, NeedsShell, FirstToken,
                SplitFails, Parts, input
  <2>3. TypeOK'
    BY <2>1, ResultType DEF TypeOK, input, Returned, Failed
  <2> QED
    BY <2>1, <2>2, <2>3 DEF input
<1>3. CASE UNCHANGED vars
  <2>1. NormalizeRequest(req)' = NormalizeRequest(req)
    BY <1>3 DEF NormalizeRequest, ResolveAuto, IsEmpty, NeedsShell, FirstToken,
                SplitFails, Parts, vars
  <2> QED
    BY <1>3, <2>1 DEF vars, TypeOK, Failed
<1> QED
  BY <1>1, <1>2, <1>3 DEF Next

THEOREM Invariance == Spec => []IInv
BY InitInv, NextInv, PTL DEF Spec

-----------------------------------------------------------------------------

\* Every variable keeps its type, and NormalizeRequest returns a request that
\* Run knows how to execute or one of its errors.
THEOREM TypeCorrect == Spec => []TypeOK
<1>1. IInv => TypeOK
  BY DEF IInv
<1> QED
  BY <1>1, Invariance, PTL

\* hasUnquotedShellMeta and SplitCommandLine never differ in what is quoted.
THEOREM QuotingAgrees == Spec => []ScansAgree
<1>1. IInv => ScansAgree
  BY DEF IInv, Agree, ScansAgree
<1> QED
  BY <1>1, Invariance, PTL

LEMMA FromCommandResult ==
  ASSUME IInv, NEW mode, FromCommand(mode)
  PROVE  /\ count > 0
         /\ IF NeedsShell \/ SplitFails \/ Parts = <<>>
            THEN result = Shell("command")
            ELSE result = Args(Parts[1], Tail(Parts))
<1>1. result = NormalizeRequest(req) /\ ReadsCommand(req) /\ ~Failed
  BY DEF IInv, FromCommand
<1>2. "error" \in DOMAIN Error("empty")
  BY DEF Error
<1>3. result = ResolveAuto(req) /\ ~IsEmpty(req)
  BY <1>1, <1>2 DEF NormalizeRequest, ReadsCommand, Failed
<1>4. count # 0
  BY <1>1, <1>2, <1>3 DEF ResolveAuto, ReadsCommand, Failed
<1>5. count > 0
  BY <1>4, BoundAssumption DEF IInv, TypeOK
<1>6. Blank(req.program) /\ req.shell \in {"", "blank"}
  BY <1>1 DEF ReadsCommand
<1> QED
  BY <1>3, <1>4, <1>5, <1>6 DEF ResolveAuto

\* A command that Run executes itself has the words of a shell, for commands of
\* any length.
THEOREM ArgsAreShellWords == Spec => []ArgsMeanShellWords
<1>1. ASSUME IInv, FromCommand("args"), Gaps = {}
      PROVE  /\ sh.plain /\ sh.quote = "none"
             /\ <<result.program>> \o result.args = Push(sh).words
  <2>1. /\ ~NeedsShell /\ ~SplitFails /\ Parts # <<>>
        /\ result = Args(Parts[1], Tail(Parts))
    BY <1>1, FromCommandResult DEF FromCommand, Shell
  <2>2. split \in SplitState /\ sh \in ShState
    BY <1>1 DEF IInv, TypeOK
  <2>3. ~scan.meta /\ gaps = {} /\ EmptyWord(sh) = {}
    BY <1>1, <2>1 DEF NeedsShell, Gaps
  <2>4. Match(split, sh)
    BY <1>1, <2>3 DEF IInv
  <2>5. sh.plain /\ sh.quote = "none"
    BY <2>1, <2>2, <2>4 DEF Match, SplitFails, ShState
  <2>6. Parts = Push(sh).words
    BY <2>2, <2>3, <2>4, <2>5, FlushIsPush DEF Parts
  <2>7. Parts \in Seq(Words)
    BY <2>2, FlushType DEF Parts, SplitState
  <2>8. <<Parts[1]>> \o Tail(Parts) = Parts
    BY <2>1, <2>7
  <2> QED
    BY <2>1, <2>5, <2>6, <2>8 DEF Args
<1>2. IInv => ArgsMeanShellWords
  BY <1>1 DEF ArgsMeanShellWords
<1> QED
  BY <1>2, Invariance, PTL

\* A shell is started for nothing that plain words could say.
THEOREM ShellIsNeeded == Spec => []ShellOnlyWhenNeeded
<1>1. ASSUME IInv, FromCommand("shell"),
             sh.plain, sh.quote = "none", Gaps = {}
      PROVE  Push(sh).words[1] \in Builtins
  <2>1. count > 0 /\ (NeedsShell \/ SplitFails \/ Parts = <<>>)
    <3>1. result.mode = "shell"
      BY <1>1 DEF FromCommand
    <3>2. Args(Parts[1], Tail(Parts)).mode = "args"
      BY DEF Args
    <3> QED
      BY <1>1, <3>1, <3>2, FromCommandResult
  <2>2. split \in SplitState /\ sh \in ShState
    BY <1>1 DEF IInv, TypeOK
  <2>3. gaps = {} /\ EmptyWord(sh) = {}
    BY <1>1 DEF Gaps
  <2>4. ~scan.meta /\ Match(split, sh) /\ Started(sh)
    BY <1>1, <2>1, <2>3 DEF IInv
  <2>5. Parts = Push(sh).words
    BY <1>1, <2>2, <2>3, <2>4, FlushIsPush DEF Parts
  <2>6. ~SplitFails
    BY <1>1, <2>2, <2>4 DEF SplitFails, Match
  <2>7. Parts # <<>>
    <3>1. Append(sh.words, sh.word) # <<>>
      BY <2>2 DEF ShState, Words
    <3> QED
      BY <1>1, <2>2, <2>4, <2>5, <3>1 DEF Push, Started, ShState
  <2> QED
    BY <2>1, <2>4, <2>5, <2>6, <2>7 DEF NeedsShell, FirstToken
<1>2. IInv => ShellOnlyWhenNeeded
  BY <1>1 DEF ShellOnlyWhenNeeded
<1> QED
  BY <1>2, Invariance, PTL

-----------------------------------------------------------------------------
(* What NormalizeRequest has returned                                      *)

\* A request with a program in args mode is left as it is.
LEMMA ArgsStable ==
  ASSUME NEW p, NEW a, ~Blank(p)
  PROVE  NormalizeRequest(Args(p, a)) = Args(p, a)
BY DEF NormalizeRequest, IsEmpty, Args

\* So is one with a command for the shell.
LEMMA ShellStable ==
  ASSUME NEW s, s \notin {"", "blank"}
  PROVE  NormalizeRequest(Shell(s)) = Shell(s)
BY DEF NormalizeRequest, IsEmpty, Shell

\* A request that NormalizeRequest has returned comes through it unchanged,
\* whatever it was, but for one case: what it makes of a command whose first
\* word is quoted blanks is refused when it is normalised again, as by Run.
THEOREM NormalIsNormal == Spec => []NormalIsStable
<1>1. ASSUME IInv, pc = "resolved", ~Failed,
             ~(FromCommand("args") /\ Blank(result.program))
      PROVE  /\ result.mode \in {"args", "shell"}
             /\ NormalizeRequest(result) = result
  <2>1. result = NormalizeRequest(req)
    BY <1>1 DEF IInv
  <2>2. \A e : "error" \in DOMAIN Error(e)
    BY DEF Error
  <2>3. \A p, a : Args(p, a).mode = "args" /\ Args(p, a).program = p
    BY DEF Args
  <2>4. \A s : Shell(s).mode = "shell"
    BY DEF Shell
  <2>5. \/ ~Blank(req.program) /\ result = Args(req.program, req.args)
        \/ req.shell \notin {"", "blank"} /\ result = Shell(req.shell)
        \/ ReadsCommand(req) /\ result = Shell("command")
        \/ ReadsCommand(req) /\ result = Args(Parts[1], Tail(Parts))
    BY <1>1, <2>1, <2>2 DEF NormalizeRequest, ResolveAuto, ReadsCommand, Failed
  <2>6. ASSUME ReadsCommand(req), result = Args(Parts[1], Tail(Parts))
        PROVE  ~Blank(result.program) /\ result.program = Parts[1]
    BY <1>1, <2>3, <2>6 DEF FromCommand
  <2>7. ASSUME NEW p, NEW a, ~Blank(p), result = Args(p, a)
        PROVE  result.mode = "args" /\ NormalizeRequest(result) = result
    BY <2>3, <2>7, ArgsStable
  <2>8. ASSUME NEW s, s \notin {"", "blank"}, result = Shell(s)
        PROVE  result.mode = "shell" /\ NormalizeRequest(result) = result
    BY <2>4, <2>8, ShellStable
  <2>9. CASE ReadsCommand(req) /\ result = Args(Parts[1], Tail(Parts))
    BY <2>6, <2>7, <2>9
  <2>10. CASE ReadsCommand(req) /\ result = Shell("command")
    BY <2>8, <2>10
  <2> QED
    BY <2>5, <2>7, <2>8, <2>9, <2>10
<1>2. ASSUME IInv, FromCommand("args"), Blank(result.program)
      PROVE  /\ result.mode = "args"
             /\ "error" \in DOMAIN NormalizeRequest(result)
  <2>1. result.mode = "args"
    BY <1>2 DEF FromCommand
  <2>2. NormalizeRequest(result) \in {Error("empty"), Error("args")}
    BY <1>2, <2>1 DEF NormalizeRequest
  <2>. QED
    BY <2>1, <2>2 DEF Error
<1>3. IInv => NormalIsStable
  BY <1>1, <1>2 DEF NormalIsStable
<1> QED
  BY <1>3, Invariance, PTL
=============================================================================
