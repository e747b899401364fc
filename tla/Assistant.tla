------------------------------ MODULE Assistant ------------------------------
(***************************************************************************)
(* main.go, command.go and chat.go: the conversation.  A turn is one line  *)
(* of the user, any number of replies that are commands, each answered by  *)
(* the output of the command, and a last reply, which is remembered.  The  *)
(* module extends MemoryStore, whose Remember it calls and whose files it  *)
(* shows to the model when the program starts.                             *)
(*                                                                         *)
(* A reply is a "command", a "text" or empty.  What has the prefix of a    *)
(* command but no ASCII colon is a text.                                   *)
(***************************************************************************)
EXTENDS MemoryStore

CONSTANTS
  IndexKeep,     \* entries of the index that fit into 8000 bytes
  LogKeep,       \* entries of the log that fit into 4000 bytes, 20 at most
  CommandBound   \* bound on the commands of a turn

ASSUME KeepAssumption == IndexKeep \in Nat /\ LogKeep \in Nat \ {0}
ASSUME CommandAssumption == CommandBound \in Nat

VARIABLES
  main,        \* where main() is
  messages,    \* the messages of the conversation, from the last of the
               \* turn before this one on: nothing reads or changes the others
  lastReply,   \* the local of main()
  asked,       \* commands of this turn so far
  replied,     \* history: what Remember was given for each turn
  broken       \* history: turns in which the API failed

mainVars == <<main, messages, lastReply, asked, replied, broken>>
allVars == <<vars, mainVars>>

Message(role, content) == [role |-> role, content |-> content]
Replies == {"command", "text", ""}
Results == {"output", "command error"}

-----------------------------------------------------------------------------
(* What the model is shown                                                 *)

\* readTextOrEmpty with a limit keeps the end of a file, tailLog the last
\* entries of the log.
Latest(s, n) == SubSeq(s, IF Len(s) < n THEN 1 ELSE Len(s) - n + 1, Len(s))

ContextMutant ==   \* tailLog keeps the first entries
  ToSet(Latest(index, IndexKeep)) \cup
  ToSet(SubSeq(log, 1, IF Len(log) < LogKeep THEN Len(log) ELSE LogKeep))

\* The entries the model is shown when the program starts.
Context == ToSet(Latest(index, IndexKeep)) \cup ToSet(Latest(log, LogKeep))

-----------------------------------------------------------------------------
(* main()                                                                  *)

MainInit ==
  /\ Init
  /\ main = "off" /\ messages = <<>> /\ lastReply = "" /\ asked = 0
  /\ replied = <<>> /\ broken = {}

\* The settings and Agent.md are read, or main() gives up; the store is made
\* ready and its Context goes to the model.
StartUp ==
  /\ Start
  /\ messages' = <<Message("system", "Context")>>
  /\ main' = "input"
  /\ UNCHANGED <<lastReply, asked, replied, broken>>

\* A line of input that is neither empty nor one of the two commands of the
\* program itself.
ReadInput ==
  /\ main = "input" /\ turn < TurnBound
  /\ messages' = <<Last(messages), Message("user", "input")>>
  /\ main' = "chat"
  /\ UNCHANGED <<vars, lastReply, asked, replied, broken>>

\* createChatCompletion: a chunk that cannot be parsed is skipped, and a
\* stream that ends early is taken for complete, so that a command may lose
\* its prefix or its end, and any reply everything.
Delivered(said) ==
  IF CanFail THEN {said, ""} \cup (IF said = "command" THEN {"text"} ELSE {})
  ELSE {said}

\* The reply has the prefix and an ASCII colon.
IsCommand(reply) == reply = "command"

ReplyKeptMutant(reply) ==   \* the first reply of the turn
  IF lastReply = "" THEN reply ELSE lastReply

ReplyKept(reply) == reply

\* A reply of the model, or what arrived of it.
Reply ==
  /\ main = "chat"
  /\ \E said \in Replies : \E reply \in Delivered(said) :
       /\ IsCommand(reply) => asked < CommandBound
       /\ messages' = Append(messages, Message("assistant", reply))
       /\ lastReply' = ReplyKept(reply)
       /\ main' = IF IsCommand(reply) THEN "command" ELSE "remember"
  /\ UNCHANGED <<vars, asked, replied, broken>>

\* No token, no connection, no 2xx, no choices, a stream that breaks, or the
\* timeout of a minute: the turn is over.
ChatFails ==
  /\ CanFail /\ main = "chat"
  /\ main' = "remember"
  /\ broken' = broken \cup {turn + 1}
  /\ UNCHANGED <<vars, messages, lastReply, asked, replied>>

AnswerMutant(r) ==   \* an error of Run is printed only
  IF r = "command error" THEN messages
  ELSE Append(messages, Message("user", r))

Answer(r) == Append(messages, Message("user", r))

\* runCommand: Run succeeds, or its error is what the model gets; either way
\* the model is asked again.  Nothing ends a command that does not end.
RunCommand ==
  /\ main = "command"
  /\ \E r \in Results : messages' = Answer(r)
  /\ asked' = asked + 1 /\ main' = "chat"
  /\ UNCHANGED <<vars, lastReply, replied, broken>>

\* The end of a turn: a last reply that is not empty is remembered.
Save ==
  /\ main = "remember" /\ lastReply # ""
  /\ \E x \in Inputs : Remember(x)
  /\ replied' = Append(replied, lastReply)
  /\ messages' = <<Last(messages)>>
  /\ main' = "saving" /\ lastReply' = "" /\ asked' = 0
  /\ UNCHANGED broken

SkipSaveMutant ==   \* asks again for a reply that is not empty
  /\ main = "remember" /\ lastReply = ""
  /\ main' = "chat" /\ asked' = 0
  /\ UNCHANGED <<vars, messages, lastReply, replied, broken>>

SkipSave ==
  /\ main = "remember" /\ lastReply = ""
  /\ messages' = <<Last(messages)>>
  /\ main' = "input" /\ asked' = 0
  /\ broken' = broken \ {turn + 1}   \* the number goes to the next turn
  /\ UNCHANGED <<vars, lastReply, replied>>

SavingMutant ==   \* main() does not wait for Remember
  /\ main = "saving"
  /\ WritePage \/ AppendLog \/ InsertIndexEntry
  /\ main' = "input"
  /\ UNCHANGED <<messages, lastReply, asked, replied, broken>>

\* Remember at work; when it returns main() reads the next line.
Saving ==
  /\ main = "saving"
  /\ WritePage \/ AppendLog \/ InsertIndexEntry
  /\ main' = IF pc' = "idle" THEN "input" ELSE "saving"
  /\ UNCHANGED <<messages, lastReply, asked, replied, broken>>

\* The end of the input, "exit", or the death of the program.
Quit ==
  /\ main = "input" \/ CanFail
  /\ Stop
  /\ main' = "off" /\ messages' = <<>> /\ lastReply' = "" /\ asked' = 0
  /\ broken' = broken \cap (1 .. turn)
  /\ UNCHANGED replied

MainStep == Reply \/ ChatFails \/ Save \/ SkipSave \/ Saving

MainNext ==
  \/ StartUp \/ ReadInput \/ MainStep \/ RunCommand \/ Quit
  \/ Tick /\ UNCHANGED mainVars

\* The scheduler runs main(), and a request has a timeout.  Nobody need start
\* the program or type, and a command may run for ever.
MainSpec == MainInit /\ [][MainNext]_allVars /\ WF_allVars(MainStep)

-----------------------------------------------------------------------------
(* Properties                                                              *)

MainTypeOK ==
  /\ TypeOK
  /\ main \in {"off", "input", "chat", "command", "remember", "saving"}
  /\ main = "off" <=> pc = "down"
  /\ main = "saving" <=> pc \in {"page", "log", "index"}
  /\ lastReply \in Replies
  /\ asked \in 0 .. CommandBound
  /\ Len(replied) = turn
  /\ broken \subseteq Turns

\* Every command the model asked for has its result, or its error, as the very
\* next message, also when the API failed after it and a new turn began; and
\* the model is told of no result it has not asked for.
CommandsAnswered ==
  \A k \in DOMAIN messages :
    /\ messages[k].content \in Results /\ k > 1 =>
         IsCommand(messages[k - 1].content)
    /\ messages[k].role = "assistant" /\ IsCommand(messages[k].content) =>
         \/ k < Len(messages) /\ messages[k + 1].content \in Results
         \/ k = Len(messages) /\ main = "command"

\* What is remembered is the last thing the model said in the turn.  It is a
\* command, whose result the model never judged, only if the API failed.
RememberedIsFinal ==
  \A t \in DOMAIN replied :
    /\ replied[t] # ""
    /\ t \notin broken => ~IsCommand(replied[t])

\* The index is cut at its new end and the log at its old one, so that while
\* no more turns are remembered than the two show together, the model is
\* shown every one of them.
ContextComplete ==
  ~faulty /\ pc \in {"idle", "down"} /\ Len(log) <= IndexKeep + LogKeep =>
    ToSet(log) \subseteq Context

\* A turn ends, whatever the service answers and wherever the connection
\* breaks, unless one of its commands never does.  That the model stops asking
\* for commands is CommandBound's doing: the code does not see to it.
TurnEnds ==
  main = "chat" ~> main \in {"input", "off"} \/ [](main = "command")
=============================================================================
