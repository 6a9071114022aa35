---------------------------- MODULE Orchestrator ----------------------------
(***************************************************************************)
(* internal/orchestrator/orchestrator.go over the MemoryStore of           *)
(* internal/session: one turn of a conversation, from a parsed message to  *)
(* the stored reply. Turns of one session run concurrently and meet in the *)
(* store, whose lock covers a single operation, or in the topic itself,    *)
(* where HISTORY_SOURCE leaves the history to Feishu; the model and the    *)
(* tools answer as they like, or fail.                                     *)
(***************************************************************************)
EXTENDS FeishuHistory

CONSTANTS
  Turns,       \* calls of Handle and HandleStream
  NoTurn,      \* the turn of what is read back from Feishu
  MaxTopic,    \* bound: messages in a topic
  Sources,     \* histories considered, of {"memory", "feishu"}
  Messages,    \* message ids
  ChatOf,      \* chat_id of each message
  ThreadIdOf,  \* thread_id of each message, NoId when absent
  RootIdOf,    \* root_id of each message, NoId when absent
  NoId,        \* ""
  Texts,       \* what a model writes; NoText when that is blank
  NoText,
  Calls,       \* ids of tool calls
  CallLists,   \* the ToolCalls an answer may have, none among them
  MaxHistory   \* MAX_HISTORY_MESSAGES, 0 for no limit

ASSUME MaxHistoryAssumption == MaxHistory \in Nat
ASSUME MaxTopicAssumption == MaxTopic \in Nat
ASSUME TurnsAssumption == NoTurn \notin Turns
ASSUME TextsAssumption == NoText \notin Texts
ASSUME NoIdAssumption == NoId \notin Messages
ASSUME CallsAssumption == CallLists \subseteq Seq(Calls)

VARIABLES
  source,    \* HISTORY_SOURCE
  streams,   \* the LLM client can stream
  message,   \* the message of each turn, NoId before it starts
  sink,      \* the caller passed onUpdate
  pc,        \* where each turn is in handle
  log,       \* MemoryStore.messages, by session
  history,   \* the messages of each turn's prompt
  calls,     \* ToolCalls of the first answer
  results,   \* the tool messages that follow it
  reply,     \* what is stored and returned
  update     \* the last onUpdate(text, done)

config == <<source, streams>>
vars == <<config, message, sink, pc, log, history, calls, results, reply, update>>

(* parseIncoming: a message outside any thread is the thread's root. *)
ThreadOf(m) ==
  IF ThreadIdOf[m] # NoId THEN ThreadIdOf[m]
  ELSE IF RootIdOf[m] # NoId THEN RootIdOf[m] ELSE m

(* MemoryStore.GetOrCreate: chat and thread make the id. *)
SessionId(m) == <<ChatOf[m], ThreadOf(m)>>

Sessions == {SessionId(m) : m \in Messages}

Fallback == "no valid reply"      \* saveAndReturnReply, for a blank answer
TextOnly == "can only read text"  \* handle, for a blank message
Replies == Texts \cup {Fallback, TextOnly}

Recalled == "recalled"      \* a message its sender took back
Processing == "processing"  \* STREAM_PLACEHOLDER

(* toSessionMessage knows both, the placeholder by its default text. *)
ASSUME UntoldAssumption == {Recalled, Processing} \subseteq Untold

Entries == [turn : Turns \cup {NoTurn}, from : Messages, role : {"user", "assistant"},
            text : Replies \cup {NoText}]
NoUpdate == [text |-> NoText, done |-> TRUE]

Before == {"idle", "stored", "prompted"}
Ended == {"ok", "error"}
Asked == {"first", "tools", "final", "chat", "saving"}

TypeOK ==
  /\ source \in Sources /\ streams \in BOOLEAN
  /\ message \in [Turns -> Messages \cup {NoId}]
  /\ sink \in [Turns -> BOOLEAN]
  /\ pc \in [Turns -> Before \cup Asked \cup Ended]
  /\ log \in [Sessions -> Seq(Entries)]
  /\ history \in [Turns -> Seq(Entries)]
  /\ calls \in [Turns -> Seq(Calls)]
  /\ results \in [Turns -> Seq(Calls)]
  /\ reply \in [Turns -> Replies \cup {NoText}]
  /\ update \in [Turns -> [text : Replies \cup {NoText}, done : BOOLEAN]]

Init ==
  /\ source \in Sources /\ streams \in BOOLEAN
  /\ message = [t \in Turns |-> NoId]
  /\ sink = [t \in Turns |-> FALSE]
  /\ pc = [t \in Turns |-> "idle"]
  /\ log = [s \in Sessions |-> <<>>]
  /\ history = [t \in Turns |-> <<>>]
  /\ calls = [t \in Turns |-> <<>>]
  /\ results = [t \in Turns |-> <<>>]
  /\ reply = [t \in Turns |-> NoText]
  /\ update = [t \in Turns |-> NoUpdate]

-----------------------------------------------------------------------------
Goto(t, to) == pc' = [pc EXCEPT ![t] = to]
Streaming(t) == sink[t] /\ streams
Entry(t, m, role, text) == [turn |-> t, from |-> m, role |-> role, text |-> text]

(* RecentMessages of the MemoryStore and ensureCurrentUserMessage. *)
Trimmed(s) == IF MaxHistory > 0 THEN Newest(s, MaxHistory) ELSE s

(* What a topic in Feishu may hold when it is read: users post and recall, *)
(* the bot answers, shows a placeholder, or has not yet.                   *)
Said(id) ==
  {Entry(NoTurn, m, "user", x) : m \in {n \in Messages : SessionId(n) = id},
                                 x \in {NoText, Recalled}}
  \cup {Entry(NoTurn, m, "assistant", x) : m \in {n \in Messages : SessionId(n) = id},
                                           x \in {Fallback, Processing}}
Topics(id) ==
  {s \in UNION {[1..n -> Said(id)] : n \in 0..MaxTopic} :
     \A i, k \in DOMAIN s : s[i].from = s[k].from /\ s[i].role = s[k].role => i = k}

(* RecentMessages of the feishuhistory store, whatever the topic. *)
ReadBack == [id \in Sessions |-> {FromFeishu(topic, MaxHistory) : topic \in Topics(id)}]

RecentMessages(id) ==
  IF source = "memory" THEN {Trimmed(log[id])} ELSE ReadBack[id]

Mentions(s, m) == \E i \in 1..Len(s) : s[i].role = "user" /\ s[i].from = m

(* Mutant of EnsureCurrent: the stored history is taken as it is. *)
EnsureNothing(s, t) == s

(* Mutant of EnsureCurrent: the appended message is not made room for. *)
EnsureUntrimmed(s, t) ==
  IF Mentions(s, message[t]) THEN s
  ELSE Append(s, Entry(t, message[t], "user", NoText))

(* A message the window no longer holds is put at its end. *)
EnsureCurrent(s, t) ==
  IF Mentions(s, message[t]) THEN s
  ELSE Trimmed(Append(s, Entry(t, message[t], "user", NoText)))

(* A message without text gets a fixed reply and leaves no trace. *)
StartBlank(t, m, onUpdate) ==
  /\ pc[t] = "idle"
  /\ message' = [message EXCEPT ![t] = m]
  /\ sink' = [sink EXCEPT ![t] = onUpdate]
  /\ reply' = [reply EXCEPT ![t] = TextOnly]
  /\ update' = IF onUpdate
               THEN [update EXCEPT ![t] = [text |-> TextOnly, done |-> TRUE]]
               ELSE update
  /\ Goto(t, "ok")
  /\ UNCHANGED <<config, log, history, calls, results>>

(* Bound: turns that read the history back share nothing; one is run.      *)
Alone == source = "feishu" => \A t \in Turns : pc[t] = "idle"

(* GetOrCreate finds or makes the session, AddMessage appends to it; what  *)
(* is said in Feishu is there already.                                     *)
Start(t, m, onUpdate) ==
  /\ pc[t] = "idle" /\ Alone
  /\ message' = [message EXCEPT ![t] = m]
  /\ sink' = [sink EXCEPT ![t] = onUpdate]
  /\ log' = IF source = "feishu" THEN log
            ELSE [log EXCEPT ![SessionId(m)] = Append(@, Entry(t, m, "user", NoText))]
  /\ Goto(t, "stored")
  /\ UNCHANGED <<config, history, calls, results, reply, update>>

(* The prompt file is read again on every turn, and may be gone. *)
LoadPrompt(t) ==
  /\ pc[t] = "stored"
  /\ Goto(t, "prompted") \/ Goto(t, "error")
  /\ UNCHANGED <<config, message, sink, log, history, calls, results, reply, update>>

(* finalAnswer starts with a stream when it can. *)
AskFinal(t) == Goto(t, IF Streaming(t) THEN "final" ELSE "chat")

(* Feishu refuses the list, or cannot be reached. *)
HistoryFails(t) ==
  /\ pc[t] = "prompted" /\ source = "feishu"
  /\ Goto(t, "error")
  /\ UNCHANGED <<config, message, sink, log, history, calls, results, reply, update>>

(* A turn with images asks without tools. *)
BuildPrompt(t, images) ==
  /\ pc[t] = "prompted"
  /\ \E recent \in RecentMessages(SessionId(message[t])) :
       history' = [history EXCEPT ![t] = EnsureCurrent(recent, t)]
  /\ IF images THEN AskFinal(t) ELSE Goto(t, "first")
  /\ UNCHANGED <<config, message, sink, log, calls, results, reply, update>>

(* A text that is not blank was told, and not as complete. *)
Partial(t) == ~update[t].done /\ update[t].text # NoText

(* A delta of a stream, passed on with all the text before it, which may   *)
(* be blank until something else has come.                                 *)
Delta(t, x) ==
  /\ pc[t] \in {"first", "final"} /\ Streaming(t)
  /\ Partial(t) => x # NoText
  /\ update' = [update EXCEPT ![t] = [text |-> x, done |-> FALSE]]
  /\ UNCHANGED <<config, message, sink, pc, log, history, calls, results, reply>>

(* A response that completes a stream carries what its deltas carried; if  *)
(* that is blank, it may be blank itself.                                  *)
Completes(t, x) == Partial(t) => x # NoText

(* Mutant of Tell: a stream's text is not told again when it is complete. *)
TellNothing(t, x, told) == UNCHANGED update

Tell(t, x, told) ==
  update' = IF told /\ x # NoText THEN [update EXCEPT ![t] = [text |-> x, done |-> TRUE]]
            ELSE update

(* firstAnswer and what handle makes of it. A streamed text is told even   *)
(* when tools follow, others only as the answer (streamText).              *)
FirstAnswer(t, x, cs) ==
  /\ pc[t] = "first" /\ Completes(t, x)
  /\ calls' = [calls EXCEPT ![t] = cs]
  /\ Tell(t, x, Streaming(t) \/ (sink[t] /\ cs = <<>>))
  /\ reply' = IF cs = <<>> THEN [reply EXCEPT ![t] = x] ELSE reply
  /\ IF cs # <<>> THEN Goto(t, "tools")
     ELSE IF x = NoText THEN AskFinal(t) ELSE Goto(t, "saving")
  /\ UNCHANGED <<config, message, sink, log, history, results>>

(* Mutant of CallTool: the final answer is asked for after the first tool. *)
CallOneTool(t) ==
  /\ pc[t] = "tools"
  /\ results' = [results EXCEPT ![t] = Append(@, calls[t][Len(@) + 1])]
  /\ AskFinal(t)
  /\ UNCHANGED <<config, message, sink, log, history, calls, reply, update>>

(* A tool that fails or does not exist has a result too: words for it. *)
CallTool(t) ==
  /\ pc[t] = "tools"
  /\ results' = [results EXCEPT ![t] = Append(@, calls[t][Len(@) + 1])]
  /\ IF Len(results[t]) + 1 = Len(calls[t]) THEN AskFinal(t) ELSE UNCHANGED pc
  /\ UNCHANGED <<config, message, sink, log, history, calls, reply, update>>

(* Mutant of FinalStream: after a blank stream the turn starts over. *)
FinalStreamAgain(t, x) ==
  /\ pc[t] = "final" /\ Completes(t, x)
  /\ Tell(t, x, TRUE)
  /\ reply' = [reply EXCEPT ![t] = x]
  /\ Goto(t, IF x # NoText THEN "saving"
             ELSE IF calls[t] = <<>> THEN "first" ELSE "chat")
  /\ UNCHANGED <<config, message, sink, log, history, calls, results>>

FinalStream(t, x) ==
  /\ pc[t] = "final" /\ Completes(t, x)
  /\ Tell(t, x, TRUE)
  /\ reply' = [reply EXCEPT ![t] = x]
  /\ Goto(t, IF x = NoText THEN "chat" ELSE "saving")
  /\ UNCHANGED <<config, message, sink, log, history, calls, results>>

FinalChat(t, x) ==
  /\ pc[t] = "chat"
  /\ reply' = [reply EXCEPT ![t] = IF x = NoText THEN Fallback ELSE x]
  /\ Goto(t, "saving")
  /\ UNCHANGED <<config, message, sink, log, history, calls, results, update>>

AnswerError(t) ==
  /\ pc[t] \in {"first", "final", "chat"}
  /\ Goto(t, "error")
  /\ UNCHANGED <<config, message, sink, log, history, calls, results, reply, update>>

(* Mutant of Save: the reply is returned without being stored. *)
SaveNothing(t) ==
  /\ pc[t] = "saving"
  /\ Goto(t, "ok")
  /\ UNCHANGED <<config, message, sink, log, history, calls, results, reply, update>>

(* Mutant of Save: the reply is stored under another role. *)
SaveAsTool(t) ==
  /\ pc[t] = "saving"
  /\ log' = [log EXCEPT ![SessionId(message[t])] =
               Append(@, Entry(t, message[t], "tool", reply[t]))]
  /\ Goto(t, "ok")
  /\ UNCHANGED <<config, message, sink, history, calls, results, reply, update>>

Save(t) ==
  /\ pc[t] = "saving"
  /\ log' = IF source = "feishu" THEN log
            ELSE [log EXCEPT ![SessionId(message[t])] =
                    Append(@, Entry(t, message[t], "assistant", reply[t]))]
  /\ Goto(t, "ok")
  /\ UNCHANGED <<config, message, sink, history, calls, results, reply, update>>

Answers == Texts \cup {NoText}

Step(t) ==
  \/ LoadPrompt(t) \/ HistoryFails(t)
  \/ \E images \in BOOLEAN : BuildPrompt(t, images)
  \/ \E x \in Answers :
       \/ \E cs \in CallLists : FirstAnswer(t, x, cs)
       \/ FinalStream(t, x)
       \/ FinalChat(t, x)
  \/ CallTool(t) \/ AnswerError(t) \/ Save(t)

Next ==
  \E t \in Turns :
    \/ \E m \in Messages, onUpdate \in BOOLEAN :
         StartBlank(t, m, onUpdate) \/ Start(t, m, onUpdate)
    \/ Step(t)
    \/ \E x \in Answers : Delta(t, x)

(* Every call to the model, a tool or the store returns: each is bounded   *)
(* by a timeout or by the caller's context.                                *)
Spec == Init /\ [][Next]_vars
FairSpec == Spec /\ \A t \in Turns : WF_vars(Step(t))

-----------------------------------------------------------------------------
HasPrompt(t) == pc[t] \in Asked

(* The model always sees the message it is to answer, even when other      *)
(* turns of the session have pushed it out of the history meanwhile.       *)
PromptHasOwnMessage ==
  \A t \in Turns : HasPrompt(t) => Mentions(history[t], message[t])

(* ... and no more of the history than MAX_HISTORY_MESSAGES. *)
PromptFits ==
  MaxHistory > 0 => \A t \in Turns : Len(history[t]) <= MaxHistory

(* The request after tool calls answers each call once, in their order:    *)
(* the API refuses a call without an output.                               *)
CallsAnswered ==
  \A t \in Turns : pc[t] \in {"final", "chat", "saving"} => results[t] = calls[t]

(* A turn returns a reply exactly when its session remembers it, once and  *)
(* after the message it answers, whatever other turns store in between.    *)
RepliesIn(t) ==
  {i \in 1..Len(log[SessionId(message[t])]) :
     /\ log[SessionId(message[t])][i].turn = t
     /\ log[SessionId(message[t])][i].role = "assistant"}
ReplyRemembered ==
  \A t \in Turns : source = "memory" /\ message[t] # NoId /\ reply[t] # TextOnly =>
    IF pc[t] = "ok"
    THEN \E i \in RepliesIn(t) :
           /\ RepliesIn(t) = {i}
           /\ log[SessionId(message[t])][i].text = reply[t]
           /\ \E k \in 1..(i - 1) :
                LET e == log[SessionId(message[t])][k]
                IN  e.turn = t /\ e.role = "user"
    ELSE RepliesIn(t) = {}

(* A turn that succeeds never leaves part of a text as its last update: it *)
(* told nothing, only blanks, which callers skip, or ended with a complete *)
(* text. That is the reply it returns, unless it was a preamble to tool    *)
(* calls whose answer came without a stream.                               *)
StreamClosed ==
  \A t \in Turns : pc[t] = "ok" =>
    /\ ~Partial(t)
    /\ update[t].text \in {reply[t], NoText} \/ calls[t] # <<>>

(* Every turn that starts returns. *)
TurnsEnd == \A t \in Turns : pc[t] # "idle" ~> pc[t] \in Ended

(* README.md: one topic is one conversation. Messages with the same root   *)
(* are of one topic, the root itself included: they share a session.       *)
TopicRoot(m) == IF RootIdOf[m] # NoId THEN RootIdOf[m] ELSE m
OneSessionPerTopic ==
  \A r, s \in Sessions : \A i \in 1..Len(log[r]), k \in 1..Len(log[s]) :
    TopicRoot(log[r][i].from) = TopicRoot(log[s][k].from) => r = s
=============================================================================
