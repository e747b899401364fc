-------------------------- MODULE AssistantProofs --------------------------
(***************************************************************************)
(* Theorems about Assistant: the program uses its store as MemoryStore     *)
(* has it, so that what is proved there holds here; and in any run of any  *)
(* length every command is answered and what is remembered is final.       *)
(***************************************************************************)
EXTENDS Assistant, MemoryStoreProofs

MessageSet == [role : {"system", "user", "assistant"},
               content : Replies \cup Results \cup {"Context", "input"}]

\* The conversation is never empty while the program runs, and a command is
\* its last message just as long as the command runs.
Conversation ==
  /\ messages \in Seq(MessageSet)
  /\ main # "off" => messages # <<>>
  /\ main = "command" => IsCommand(Last(messages).content)
  /\ CommandsAnswered

\* A turn ends with a command only when the API has failed in it.
Outcome ==
  /\ lastReply \in Replies /\ replied \in Seq(Replies) /\ Len(replied) = turn
  /\ main = "remember" /\ IsCommand(lastReply) => turn + 1 \in broken
  /\ RememberedIsFinal

USE DEF Message, IsCommand

-----------------------------------------------------------------------------
(* The store                                                               *)

\* Every step of main() is one of the store's, or leaves the store alone.
LEMMA StoreStep == [MainNext]_allVars => [Next]_vars
<1> SUFFICES ASSUME [MainNext]_allVars PROVE [Next]_vars
  OBVIOUS
<1>1. CASE StartUp \/ Save \/ Saving \/ Quit
  BY <1>1 DEF StartUp, Save, Saving, Quit, Next
<1>2. CASE ReadInput \/ Reply \/ ChatFails \/ RunCommand \/ SkipSave
  BY <1>2 DEF ReadInput, Reply, ChatFails, RunCommand, SkipSave
<1>3. CASE Tick
  BY <1>3 DEF Next
<1>4. CASE UNCHANGED allVars
  BY <1>4 DEF allVars
<1> QED
  BY <1>1, <1>2, <1>3, <1>4 DEF MainNext, MainStep

\* main() calls Remember once the last Remember has returned and never while
\* it is down: to the store it is one user after another.
THEOREM UsesMemory == MainSpec => Spec
  BY StoreStep, PTL DEF MainSpec, MainInit, Spec

\* Whatever the service answers and wherever the program dies, the store has
\* no link to nothing, and while nothing fails its index misses no turn.
THEOREM StoreHolds == MainSpec => [](NoDanglingLinks /\ TurnsIndexed)
  BY UsesMemory, LinksHold, IndexMissesNothing, PTL

-----------------------------------------------------------------------------
(* What the model is shown                                                 *)

\* What is cut to its end keeps the entries that are near enough to it.
LEMMA LatestKeeps ==
  ASSUME NEW S, NEW s \in Seq(S), NEW n \in Nat,
         NEW k \in DOMAIN s, Len(s) - k < n
  PROVE  s[k] \in ToSet(Latest(s, n))
<1> DEFINE first == IF Len(s) < n THEN 1 ELSE Len(s) - n + 1
<1>1. DOMAIN s = 1 .. Len(s) /\ Len(s) \in Nat
  BY LenProperties
<1>2. first \in 1 .. k /\ k \in 1 .. Len(s)
  BY <1>1
<1> HIDE DEF first
<1>3. /\ DOMAIN SubSeq(s, first, Len(s)) = 1 .. Len(s) - first + 1
      /\ \A j \in 1 .. Len(s) - first + 1 :
           SubSeq(s, first, Len(s))[j] = s[first + j - 1]
  BY <1>1, <1>2
<1>4. /\ k - first + 1 \in 1 .. Len(s) - first + 1
      /\ first + (k - first + 1) - 1 = k
  BY <1>1, <1>2
<1>5. SubSeq(s, first, Len(s))[k - first + 1] = s[k]
  BY <1>3, <1>4
<1>6. s[k] \in ToSet(SubSeq(s, first, Len(s)))
  BY <1>3, <1>4, <1>5 DEF ToSet
<1> QED  BY <1>6 DEF Latest, first

\* The index is cut at its new end and the log at its old one: no turn falls
\* between them while there are no more than the two show together.
THEOREM ContextShown == MainSpec => []ContextComplete
<1>1. TypeOK /\ Ordered => ContextComplete
  <2> SUFFICES ASSUME TypeOK, Ordered, ~faulty, pc \in {"idle", "down"},
                      Len(log) <= IndexKeep + LogKeep, NEW x \in ToSet(log)
               PROVE  x \in Context
    BY DEF ContextComplete
  <2>1. PICK j \in DOMAIN log : x = log[j]
    BY DEF ToSet
  <2>2. /\ log \in Seq(Entries) /\ index \in Seq(Entries)
        /\ DOMAIN log = 1 .. Len(log) /\ Len(log) \in Nat
        /\ DOMAIN index = 1 .. Len(index) /\ Len(index) \in Nat
    BY LenProperties DEF TypeOK
  <2>3. IndexKeep \in Nat /\ LogKeep \in Nat
    BY KeepAssumption
  <2>4. CASE Len(log) - j < LogKeep
    BY <2>1, <2>2, <2>3, <2>4, LatestKeeps DEF Context
  <2>5. CASE ~(Len(log) - j < LogKeep)
    <3>1. PICK k \in DOMAIN index : index[k] = log[j] /\ Len(index) - k < j
      BY DEF Ordered
    <3>2. j <= IndexKeep
      BY <2>2, <2>3, <2>5
    <3>3. Len(index) - k < IndexKeep
      BY <2>2, <2>3, <3>1, <3>2
    <3> QED  BY <2>1, <2>2, <2>3, <3>1, <3>3, LatestKeeps DEF Context
  <2> QED  BY <2>4, <2>5
<1> QED  BY <1>1, UsesMemory, OrderKept, PTL

-----------------------------------------------------------------------------
(* The conversation                                                        *)

\* What is cut to its last message keeps that one.
LEMMA LastKept ==
  ASSUME NEW S, NEW s \in Seq(S), s # <<>>
  PROVE  /\ Last(s) \in S
         /\ Last(s) = s[Len(s)] /\ Len(s) \in DOMAIN s
         /\ DOMAIN s = 1 .. Len(s) /\ Len(s) \in Nat
  BY DEF Last

\* The program starts with what the store shows the model.
LEMMA InitConversation == MainInit => Conversation
<1> SUFFICES ASSUME MainInit PROVE Conversation
  OBVIOUS
<1>1. messages = <<>> /\ main = "off"
  BY DEF MainInit
<1>2. messages \in Seq(MessageSet) /\ DOMAIN messages = {}
  BY <1>1
<1> QED  BY <1>1, <1>2 DEF Conversation, CommandsAnswered

LEMMA ReplyConversation ==
  ASSUME Conversation, Reply PROVE Conversation'
<1>1. PICK reply \in Replies :
        /\ messages' = Append(messages, Message("assistant", reply))
        /\ main' = IF IsCommand(reply) THEN "command" ELSE "remember"
  BY DEF Reply, Delivered, Replies
<1>2. main = "chat" /\ messages \in Seq(MessageSet) /\ messages # <<>>
  BY DEF Reply, Conversation
<1>3. Message("assistant", reply) \in MessageSet
  BY DEF MessageSet
<1>4. /\ messages' \in Seq(MessageSet)
      /\ Len(messages') = Len(messages) + 1 /\ Len(messages) \in Nat
      /\ DOMAIN messages = 1 .. Len(messages)
      /\ DOMAIN messages' = 1 .. Len(messages) + 1
      /\ \A k \in 1 .. Len(messages) : messages'[k] = messages[k]
      /\ messages'[Len(messages) + 1] = Message("assistant", reply)
  BY <1>1, <1>2, <1>3, AppendProperties, LenProperties
<1>5. messages' # <<>> /\ Last(messages') = Message("assistant", reply)
  BY <1>4, LastKept
<1>6. reply \notin Results
  BY DEF Replies, Results
<1>7. ASSUME NEW k \in DOMAIN messages', messages'[k].content \in Results, k > 1
      PROVE  messages'[k - 1].content = "command"
  <2>1. k \in DOMAIN messages /\ k - 1 \in 1 .. Len(messages)
    BY <1>4, <1>6, <1>7
  <2> QED  BY <1>4, <1>7, <2>1 DEF Conversation, CommandsAnswered
<1>8. ASSUME NEW k \in DOMAIN messages', messages'[k].role = "assistant",
             messages'[k].content = "command"
      PROVE  \/ k < Len(messages') /\ messages'[k + 1].content \in Results
             \/ k = Len(messages') /\ main' = "command"
  <2>1. CASE k = Len(messages) + 1
    BY <1>1, <1>4, <1>8, <2>1
  <2>2. CASE k \in DOMAIN messages
    <3>1. k < Len(messages) /\ messages[k + 1].content \in Results
      BY <1>2, <1>4, <1>8, <2>2 DEF Conversation, CommandsAnswered
    <3> QED  BY <1>4, <3>1
  <2> QED  BY <1>4, <2>1, <2>2
<1>9. CommandsAnswered'
  BY <1>7, <1>8 DEF CommandsAnswered, Results
<1>10. main' = "command" => reply = "command"
  BY <1>1
<1> QED  BY <1>4, <1>5, <1>9, <1>10 DEF Conversation

LEMMA AnswerConversation ==
  ASSUME Conversation, RunCommand PROVE Conversation'
<1>1. PICK r \in Results : messages' = Append(messages, Message("user", r))
  BY DEF RunCommand, Answer
<1>2. /\ main = "command" /\ main' = "chat"
      /\ messages \in Seq(MessageSet) /\ messages # <<>>
      /\ Last(messages).content = "command"
  BY DEF RunCommand, Conversation
<1>3. Message("user", r) \in MessageSet
  BY DEF MessageSet
<1>4. /\ messages' \in Seq(MessageSet)
      /\ Len(messages') = Len(messages) + 1 /\ Len(messages) \in Nat
      /\ DOMAIN messages = 1 .. Len(messages)
      /\ DOMAIN messages' = 1 .. Len(messages) + 1
      /\ \A k \in 1 .. Len(messages) : messages'[k] = messages[k]
      /\ messages'[Len(messages) + 1] = Message("user", r)
  BY <1>1, <1>2, <1>3, AppendProperties, LenProperties
<1>5. messages[Len(messages)].content = "command"
  BY <1>2, LastKept
<1>6. ASSUME NEW k \in DOMAIN messages', messages'[k].content \in Results, k > 1
      PROVE  messages'[k - 1].content = "command"
  <2>1. CASE k = Len(messages) + 1
    BY <1>4, <1>5, <1>6, <2>1
  <2>2. CASE k \in DOMAIN messages
    <3>1. k - 1 \in 1 .. Len(messages)
      BY <1>4, <1>6, <2>2
    <3> QED  BY <1>4, <1>6, <2>2, <3>1 DEF Conversation, CommandsAnswered
  <2> QED  BY <1>4, <2>1, <2>2
<1>7. ASSUME NEW k \in DOMAIN messages', messages'[k].role = "assistant",
             messages'[k].content = "command"
      PROVE  k < Len(messages') /\ messages'[k + 1].content \in Results
  <2>1. k \in DOMAIN messages
    BY <1>4, <1>7
  <2>2. CASE k = Len(messages)
    BY <1>4, <2>2
  <2>3. CASE k # Len(messages)
    <3>1. k < Len(messages) /\ messages[k + 1].content \in Results
      BY <1>4, <1>7, <2>1, <2>3 DEF Conversation, CommandsAnswered
    <3> QED  BY <1>4, <3>1
  <2> QED  BY <2>2, <2>3
<1>8. CommandsAnswered'
  BY <1>6, <1>7 DEF CommandsAnswered, Results
<1> QED  BY <1>2, <1>4, <1>8 DEF Conversation

\* When a turn ends the last message is no command without an answer.
LEMMA CutConversation ==
  ASSUME Conversation, main \in {"input", "remember"},
         \/ messages' = <<Last(messages)>>
         \/ messages' = <<Last(messages), Message("user", "input")>>,
         main' \in {"input", "saving", "chat"}
  PROVE  Conversation'
<1>1. messages \in Seq(MessageSet) /\ messages # <<>>
  BY DEF Conversation
<1>2. /\ Last(messages) \in MessageSet
      /\ Last(messages) = messages[Len(messages)]
      /\ Len(messages) \in DOMAIN messages
      /\ DOMAIN messages = 1 .. Len(messages) /\ Len(messages) \in Nat
  BY <1>1, LastKept
<1>3. ~(Last(messages).role = "assistant" /\ Last(messages).content = "command")
  BY <1>2 DEF Conversation, CommandsAnswered
<1>4. Message("user", "input") \in MessageSet
  BY DEF MessageSet
<1>5. /\ messages' \in Seq(MessageSet) /\ messages' # <<>>
      /\ \A k \in DOMAIN messages' :
           \/ k = 1 /\ messages'[k] = Last(messages)
           \/ k = 2 /\ messages'[k] = Message("user", "input")
  <2> HIDE DEF Message
  <2>1. CASE messages' = <<Last(messages)>>
    BY <1>2, <2>1
  <2>2. CASE messages' = <<Last(messages), Message("user", "input")>>
    BY <1>2, <1>4, <2>2
  <2> QED  BY <2>1, <2>2
<1>6. ASSUME NEW k \in DOMAIN messages'
      PROVE  /\ ~(messages'[k].content \in Results /\ k > 1)
             /\ ~(messages'[k].role = "assistant"
                  /\ messages'[k].content = "command")
  <2>1. CASE k = 1 /\ messages'[k] = Last(messages)
    BY <1>3, <2>1
  <2>2. CASE k = 2 /\ messages'[k] = Message("user", "input")
    BY <2>2 DEF Results
  <2> QED  BY <1>5, <2>1, <2>2
<1>7. CommandsAnswered'
  BY <1>6 DEF CommandsAnswered
<1>8. main' # "command" /\ main' # "off"
  OBVIOUS
<1> QED  BY <1>5, <1>7, <1>8 DEF Conversation

LEMMA NextConversation == Conversation /\ [MainNext]_allVars => Conversation'
<1> SUFFICES ASSUME Conversation, [MainNext]_allVars PROVE Conversation'
  OBVIOUS
<1>1. CASE StartUp
  <2>1. /\ messages' = <<Message("system", "Context")>> /\ main' = "input"
        /\ Message("system", "Context") \in MessageSet
    BY <1>1 DEF StartUp, MessageSet
  <2>2. /\ messages' \in Seq(MessageSet) /\ messages' # <<>>
        /\ \A k \in DOMAIN messages' :
             k = 1 /\ messages'[k] = Message("system", "Context")
    <3> HIDE DEF Message
    <3> QED  BY <2>1
  <2>3. \A k \in DOMAIN messages' :
          /\ ~(k > 1)
          /\ messages'[k].role # "assistant"
    BY <2>2
  <2>4. CommandsAnswered'
    BY <2>3 DEF CommandsAnswered
  <2> QED  BY <2>1, <2>2, <2>4 DEF Conversation
<1>2. CASE ReadInput
  BY <1>2, CutConversation DEF ReadInput
<1>3. CASE Reply
  BY <1>3, ReplyConversation
<1>4. CASE ChatFails
  BY <1>4 DEF ChatFails, Conversation, CommandsAnswered
<1>5. CASE RunCommand
  BY <1>5, AnswerConversation
<1>6. CASE Save \/ SkipSave
  BY <1>6, CutConversation DEF Save, SkipSave
<1>7. CASE Saving
  BY <1>7 DEF Saving, Conversation, CommandsAnswered
<1>8. CASE Quit
  <2>1. messages' = <<>> /\ main' = "off"
    BY <1>8 DEF Quit
  <2>2. messages' \in Seq(MessageSet) /\ DOMAIN messages' = {}
    BY <2>1
  <2> QED  BY <2>1, <2>2 DEF Conversation, CommandsAnswered
<1>9. CASE UNCHANGED mainVars
  BY <1>9 DEF mainVars, Conversation, CommandsAnswered
<1> QED
  BY <1>1, <1>2, <1>3, <1>4, <1>5, <1>6, <1>7, <1>8, <1>9
     DEF MainNext, MainStep, allVars

\* In a conversation of any length, every command has its result or its error
\* as the next message, also when the API fails after it, and no result is
\* there that was not asked for.
THEOREM EveryCommandAnswered == MainSpec => []CommandsAnswered
<1>1. Conversation => CommandsAnswered
  BY DEF Conversation
<1> QED  BY <1>1, InitConversation, NextConversation, PTL DEF MainSpec

-----------------------------------------------------------------------------
(* What is remembered                                                      *)

LEMMA EmptyFirst == <<>> \in Seq(Replies) /\ Len(<<>>) = 0 /\ DOMAIN <<>> = {}
  OBVIOUS

LEMMA OneMore ==
  ASSUME NEW n \in Nat
  PROVE  /\ \A t \in 1 .. n : t # n + 1
         /\ \A t \in 1 .. n + 1 : t \in 1 .. n \/ t = n + 1
  OBVIOUS

\* Nothing has been remembered at first.
LEMMA InitOutcome == MainInit => Outcome
<1> SUFFICES ASSUME MainInit PROVE Outcome
  OBVIOUS
<1>1. replied = <<>> /\ lastReply = "" /\ turn = 0 /\ main = "off"
  BY DEF MainInit, Init
<1>2. replied \in Seq(Replies) /\ Len(replied) = 0 /\ DOMAIN replied = {}
  BY <1>1, EmptyFirst
<1>3. lastReply \in Replies
  BY <1>1 DEF Replies
<1> QED  BY <1>1, <1>2, <1>3 DEF Outcome, RememberedIsFinal

LEMMA NextOutcome == Outcome /\ [MainNext]_allVars => Outcome'
<1> SUFFICES ASSUME Outcome, [MainNext]_allVars PROVE Outcome'
  OBVIOUS
<1> USE DEF Outcome, RememberedIsFinal
<1>0. DOMAIN replied = 1 .. turn /\ turn \in Nat
  BY LenProperties
<1>1. CASE StartUp
  BY <1>1 DEF StartUp, Start
<1>2. CASE ReadInput \/ RunCommand
  BY <1>2 DEF ReadInput, RunCommand, vars
<1>3. CASE Reply
  BY <1>3 DEF Reply, ReplyKept, Delivered, Replies, vars
<1>4. CASE ChatFails
  BY <1>4 DEF ChatFails, vars
<1>5. CASE Save
  <2>1. /\ replied' = Append(replied, lastReply) /\ lastReply # ""
        /\ turn' = turn + 1 /\ main = "remember" /\ main' = "saving"
        /\ UNCHANGED broken
    BY <1>5 DEF Save, Remember
  <2>2. lastReply' \in Replies
    BY <1>5 DEF Save, Replies
  <2>3. /\ replied' \in Seq(Replies) /\ Len(replied') = turn + 1
        /\ DOMAIN replied' = 1 .. turn + 1
        /\ \A t \in 1 .. turn : replied'[t] = replied[t]
        /\ replied'[turn + 1] = lastReply
    <3>1. /\ replied' \in Seq(Replies)
          /\ Len(replied') = Len(replied) + 1
          /\ \A t \in 1 .. Len(replied) : replied'[t] = replied[t]
          /\ replied'[Len(replied) + 1] = lastReply
      <4>1. replied \in Seq(Replies) /\ lastReply \in Replies
        OBVIOUS
      <4>2. replied' = Append(replied, lastReply)
        BY <2>1
      <4> HIDE DEF Outcome, RememberedIsFinal
      <4> QED  BY <4>1, <4>2, AppendProperties
    <3>2. DOMAIN replied' = 1 .. Len(replied')
      BY <3>1, LenProperties
    <3> QED  BY <3>1, <3>2
  <2>4. ASSUME NEW t \in DOMAIN replied'
        PROVE  /\ replied'[t] # ""
               /\ t \notin broken' => replied'[t] # "command"
    <3>1. t \in 1 .. turn \/ t = turn + 1
      <4>1. t \in 1 .. turn + 1
        BY <2>3
      <4> HIDE DEF Outcome
      <4> QED  BY <1>0, <4>1, OneMore
    <3> QED  BY <1>0, <2>1, <2>3, <3>1
  <2> QED  BY <2>1, <2>2, <2>3, <2>4
<1>6. CASE SkipSave
  <2>1. /\ main' = "input" /\ broken' = broken \ {turn + 1}
        /\ UNCHANGED <<turn, lastReply, replied>>
    BY <1>6 DEF SkipSave, vars
  <2>2. \A t \in DOMAIN replied : t # turn + 1
    BY <1>0, OneMore
  <2> QED  BY <2>1, <2>2
<1>7. CASE Saving
  BY <1>7 DEF Saving, WritePage, AppendLog, InsertIndexEntry
<1>8. CASE Quit
  BY <1>0, <1>8 DEF Quit, Stop, Replies
<1>9. CASE Tick /\ UNCHANGED mainVars
  BY <1>9 DEF Tick, mainVars
<1>10. CASE UNCHANGED allVars
  BY <1>10 DEF allVars, vars, mainVars
<1> QED
  BY <1>1, <1>2, <1>3, <1>4, <1>5, <1>6, <1>7, <1>8, <1>9, <1>10
     DEF MainNext, MainStep

\* However many turns are talked, however often the API fails and the program
\* dies: nothing empty is remembered, and a command only if the API failed.
THEOREM OnlyFinalRemembered == MainSpec => []RememberedIsFinal
<1>1. Outcome => RememberedIsFinal
  BY DEF Outcome
<1> QED  BY <1>1, InitOutcome, NextOutcome, PTL DEF MainSpec

-----------------------------------------------------------------------------
(* Types                                                                   *)

\* main() and Remember agree on who is at work, and nothing is marked that
\* has not happened.
Places ==
  /\ main \in {"off", "input", "chat", "command", "remember", "saving"}
  /\ main = "off" <=> pc = "down"
  /\ main = "saving" <=> pc \in {"page", "log", "index"}
  /\ asked \in 0 .. CommandBound
  /\ main \in {"chat", "command", "remember"} => turn + 1 \in Turns
  /\ main = "command" => asked < CommandBound
  /\ broken \subseteq Turns

LEMMA InitPlaces == MainInit => Places
<1> SUFFICES ASSUME MainInit PROVE Places
  OBVIOUS
<1>1. main = "off" /\ pc = "down" /\ asked = 0 /\ broken = {}
  BY DEF MainInit, Init
<1>2. 0 \in 0 .. CommandBound
  BY CommandAssumption
<1> QED  BY <1>1, <1>2 DEF Places

LEMMA NextPlaces ==
  TypeOK /\ TypeOK' /\ Places /\ [MainNext]_allVars => Places'
<1> SUFFICES ASSUME TypeOK, TypeOK', Places, [MainNext]_allVars PROVE Places'
  OBVIOUS
<1> USE CommandAssumption DEF Places, vars
<1>0. turn \in 0 .. TurnBound /\ turn' \in 0 .. TurnBound
  BY DEF TypeOK
<1>a. 0 \in 0 .. CommandBound
  OBVIOUS
<1>1. CASE StartUp
  BY <1>1 DEF StartUp, Start
<1>2. CASE ReadInput
  <2>1. /\ main = "input" /\ main' = "chat"
        /\ UNCHANGED <<pc, turn, asked, broken>>
    BY <1>2 DEF ReadInput
  <2>2. turn + 1 \in Turns
    BY <1>0, <1>2, BoundAssumption DEF ReadInput, Turns
  <2> QED  BY <2>1, <2>2
<1>3. CASE Reply
  BY <1>3 DEF Reply, Replies, Delivered
<1>4. CASE ChatFails
  BY <1>4 DEF ChatFails
<1>5. CASE RunCommand
  BY <1>5 DEF RunCommand
<1>6. CASE Save
  <2>1. /\ main = "remember" /\ main' = "saving" /\ pc' = "page"
        /\ asked' = 0 /\ UNCHANGED broken
    BY <1>6 DEF Save, Remember
  <2> QED  BY <1>a, <2>1
<1>7. CASE SkipSave
  <2>1. /\ main = "remember" /\ main' = "input" /\ UNCHANGED <<pc, turn>>
        /\ asked' = 0 /\ broken' \subseteq broken
    BY <1>7 DEF SkipSave
  <2> QED  BY <1>a, <2>1
<1>8. CASE Saving
  <2>1. /\ pc \in {"page", "log", "index"} /\ turn' = turn
        /\ pc' \in {"idle", "log", "index"}
    BY <1>8 DEF Saving, WritePage, AppendLog, InsertIndexEntry, Fails
  <2>2. /\ main = "saving" /\ UNCHANGED <<asked, broken>>
        /\ main' = IF pc' = "idle" THEN "input" ELSE "saving"
    BY <1>8 DEF Saving
  <2> QED  BY <2>1, <2>2
<1>9. CASE Quit
  <2>1. /\ main' = "off" /\ pc' = "down"
        /\ asked' = 0 /\ broken' \subseteq broken
    BY <1>9 DEF Quit, Stop
  <2> QED  BY <1>a, <2>1
<1>10. CASE Tick /\ UNCHANGED mainVars
  BY <1>10 DEF Tick, mainVars
<1>11. CASE UNCHANGED allVars
  BY <1>11 DEF allVars, mainVars
<1> QED
  BY <1>1, <1>2, <1>3, <1>4, <1>5, <1>6, <1>7, <1>8, <1>9, <1>10, <1>11
     DEF MainNext, MainStep

\* Every variable of the assistant keeps its type, and Remember is at work
\* exactly while main() waits for it.
THEOREM MainTypes == MainSpec => []MainTypeOK
<1>1. TypeOK /\ Outcome /\ Places => MainTypeOK
  BY DEF Outcome, Places, MainTypeOK
<1>2. MainSpec => []TypeOK
  BY UsesMemory, TypeCorrect, PTL
<1>3. MainSpec => []Outcome
  BY InitOutcome, NextOutcome, PTL DEF MainSpec
<1> QED  BY <1>1, <1>2, <1>3, InitPlaces, NextPlaces, PTL DEF MainSpec

-----------------------------------------------------------------------------
(* What of a conversation is on the disk                                   *)

\* Between two turns the log has an entry for every turn that was remembered,
\* as long as nothing has failed, and in any case in the order of the turns.
RepliesFiled ==
  /\ LogTellsOrder
  /\ ~faulty /\ main \in {"input", "off"} => Len(log) = Len(replied)

\* main.go:106-108 only warns when Remember fails: what the user has been told
\* is on the disk unless a warning was printed or the program died.
THEOREM TurnsReachDisk == MainSpec => []RepliesFiled
<1>1. MainTypeOK /\ LogTellsOrder /\ EveryTurnFiled => RepliesFiled
  BY DEF MainTypeOK, TypeOK, EveryTurnFiled, RepliesFiled
<1>2. MainSpec => [](LogTellsOrder /\ EveryTurnFiled)
  BY UsesMemory, LogInOrder, TurnsFiled, PTL
<1> QED  BY <1>1, <1>2, MainTypes, PTL
=============================================================================
