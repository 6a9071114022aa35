# A verification project for aics

`aics` is a customer-service bot: it receives messages from Feishu (a websocket or
a webhook) and QQ (a webhook), keeps one conversation per topic, asks a language
model that may call tools, and brings the answer back to the user, streamed into
a message it rewrites or posted at once. This directory holds TLA+ modules of
the parts where order, failure and time decide whether that works, TLC
configurations that check them on small instances, and TLAPS proofs for every
value of the constants. `PROJECT.json` maps every definition to the lines of
code it stands for and lists runs, hazards and theorems; this file says how it
fits together.

Run a check with `tlc -workers 2 -config MCX.cfg MCX`, a proof with
`tlapm XProofs.tla`.

## 1. Inventory

State, operations and what makes each part correct. "hard" names the behaviour
that tests reach badly.

| part | state it keeps | operations | hard | correct when |
|---|---|---|---|---|
| memory deduper `feishu/dedupe.go` | map id → expiry, a mutex | `Mark` | clock read before the lock; sweeping by another caller's reading | two "new" answers about one id are a TTL apart; "dup" only within it |
| redis deduper `feishu/redis_dedupe.go` | keys in redis with a TTL | `Mark` = SET NX | errors after the key was stored; client retries; expiry | as above, across restarts |
| Feishu bot, events and jobs `feishu/bot.go` | goroutines with a five-minute context | `onMessage`, `processIncoming`, `enrichImages` | repeats, crash after the mark, deadline anywhere, failing deduper | one job per message; every message answered, refused or abandoned; done emoji only on an answered message |
| Feishu bot, reply delivery `handleStream`, `finishStream`, `reply`, `updateMessage` | `replyMessageID`, `latestContent`, `deliveredContent`, `lastUpdate` | placeholder, updates, final rewrite, fallback reply | calls that fail, take effect and report failure, or return no id; throttled updates | success means the text is on the screen, failure that it is not, never twice |
| Feishu bot, reaction states `feishu/reaction_state.go`, `setReactionState` | map message → reaction id | delete the old emoji, create the new one | no lock from look-up to store; failed deletes | the map agrees with the screen; one emoji per message |
| orchestrator `orchestrator/orchestrator.go` | none of its own, a turn's locals | `Handle`, `HandleStream` | turns of one session interleave; a stream that ends blank; tool errors | prompt has its own message, within the window; every tool call has an output; a returned reply is remembered once |
| session store `session/session.go` | sessions and message lists | `GetOrCreate`, `AddMessage`, `RecentMessages` | appends of concurrent turns | as above |
| QQ bot, webhook `qqbot/bot.go` | none of its own beyond the shared deduper | `handleDispatch`, `reply` | the platform hangs up or repeats; work under the request's context | one reply per event; not every delivery of an unanswered message acknowledged |
| QQ bot, access token `accessToken` | token, expiry, a mutex | check, fetch, store | concurrent fetches; late reckoning of the expiry | a token sent is valid when it arrives |
| configuration `config/config.go` | the process environment, `Config` | `LoadDotEnv`, `Load` | empty, unset and blank; repeated lines; older names | each value comes from the highest-ranking source |
| prompt loader `prompt/loader.go` | cached text and modification time, a lock | `Load` | the file changes between look and read; turns store in the other order | a text returned is one the file held while it was loaded |
| LLM client `llm/openai.go` | a stream's accumulator of tool calls | `Chat`, `ChatStream` | fragments of tool calls by item id, by index or by neither; streams that break off | calls neither lost nor doubled; a call that would run is whole; the next request pairs calls and outputs |
| Feishu history `feishuhistory/store.go` | none, a page of the API | `RecentMessages` | placeholders, recalled messages, a message not listed yet | as the session store, from what the topic holds |
| skills `skill/*.go` | the outputs of a run | `Run`, scripts, model steps | jumps back, the step limit, failing steps | ends, and is refused only when too long |
| knowledge index `knowledge/*.go`, `cmd/aics-index` | rows in Postgres | index, delete what is missing, search | a run that fails midway; two runs at once; edits meanwhile | after a run the table is the documents, and never less than that later |
| knowledge tool `tool/knowledge.go`, embeddings, image host | none | one request each | none beyond an error | pass errors on |
| lifecycle `app/app.go`, `cmd/aics` | listeners, connections | `New`, `Run` | shutdown does not wait for jobs | nothing used after it is closed |

How they meet: both bots call `Deduper.Mark` with each event (the same deduper,
with different keys) and the orchestrator with each message; the Feishu bot
passes a callback that the orchestrator calls with growing texts while the LLM
client streams; the orchestrator reads and appends to the session store, reads
the prompt, and calls tools through the registry; `App.Run` stops them all by
returning.

## 2. Modules

```
DedupeWindow  <-- implemented by -- MemoryDeduper (MemoryDeduperProofs)
AnswerService <-- implemented by -- FeishuBot (FeishuBotProofs)
      ^                               +-- INSTANCE ReplyDelivery
      |                               +-- INSTANCE ReactionStates (ReactionStatesProofs)
      +-------- implemented by -- QQBot (QQBotProofs)
Replies: the texts of FeishuBot and ReplyDelivery
AccessToken (AccessTokenProofs)
Orchestrator -- EXTENDS --> FeishuHistory       (OrchestratorProofs)
KnowledgeIndexer -- EXTENDS --> Chunker         (KnowledgeIndexerProofs)
Assistant (AssistantProofs) --+-- INSTANCE Config
                              +-- INSTANCE PromptLoader
                              +-- INSTANCE ResponseStream
                              +-- INSTANCE SkillRunner
```

Each `MC*` module fixes an instance of the module it extends. Operators named as
mutants in their comments are the code with a plausible bug; nothing refers
to them, and each shows that a property would notice it.

**DedupeWindow** is what `Mark` promises, without maps or locks: `AnswerNew`
only when the last acceptance is a TTL old, `AnswerDup` only within it, up to a
slack. **MemoryDeduper** is the code: `ReadClock` (the statement before the lock),
then `Accept` or `Reject` (everything under the lock: `Swept`, the look-up
`Known`, the store). `clock` is real time, which only `Tick` advances, and no
caller waits longer than `MaxLag` for the mutex. `acceptedAt` is history.

**ReplyDelivery** follows one job from `Begin` through the placeholder (`Open`),
`update` (`Hold` when the text is only noted, `Push` when it is written), the
orchestrator's result (`Answer`, `Apologise`), the rewrite (`Settle`) and the
fallback reply (`Post`). A call to Feishu is `ok`, `noid` (success without
data), `failed`, or `lost` (it took effect and reported an error); under an
expired context only `failed`. `card` and `post` are what the user sees. Texts are
model values, declared in **Replies** for the module and FeishuBot alike; two updates
closer than `STREAM_UPDATE_INTERVAL` are told apart from others by choice: once `paced`, an update may always be throttled.

**ReactionStates** has one action per call of `setReactionState`: `Enter`, `Look`
(Get), `Remove` (deleteReaction with its Set), `Add` (react with the Set
after it, one step, since no job of another message can notice what lies between).
`slipped` collects the messages about which the bookkeeping is
excused: a call failed to do and report what was asked, two jobs moved the
emoji at the same time, or the process restarted. Such a message may keep an old emoji
beside the new one for good; `InStep` is about the others.

**AnswerService** is what a bot promises of a message: taken up once, then
answered, refused (and then really unsaid) or abandoned for good; called done
only if answered. The promise is waived when the deduper failed, forgot or lost
its mark, or when a lost response misled the bot.

**FeishuBot** composes the two with `onMessage` (`Deliver`, `Forget`) and
`processIncoming` (`SetEmoji`, `Process`, `StartReply`, `Reply`, `Replied`,
`Finish`), the deadline and restarts. Its jobs are pairs of a message and the
number of its delivery. `dedupeStore` is what the configuration asks for, `store`
the deduper `setupDeduper` really put in use: at each start a redis that does not
answer its ping is replaced by memory for the whole run, with the marks in redis
out of sight. QQBot has the same two variables. The redis client repeats a
SET NX whose answer was lost on the way and then finds its own mark:
`Deliver` may answer "dup" about an id nobody marked before (`swallowed`). Such a
message is never answered, and `EventuallyAnswered` names it as the one exception
besides a restart and a refusal.

**QQBot** is `handleDispatch`: `Deliver` up to `Mark`, `Handle` (the
orchestrator), `Reply` (token and message) and the HTTP answer it leads to;
`HangUp` ends the request's context. **AccessToken** details the token cache by
real time: a token is known by the moment it ends, `expiry` is when the bot
believes that is. `since` is the moment of a caller's last step; no step takes
longer than `MaxWait`.

**Orchestrator** has one action per stage of `handle`: `StartBlank`/`Start`,
`LoadPrompt`, `BuildPrompt`, `FirstAnswer` with its `Delta`s, `CallTool`,
`FinalStream`, `FinalChat`, `Save`, and `AnswerError`. A delta is passed on whatever
it holds, so a stream may tell blanks first and end with no more than that: then
another request follows, and an update that is blank and not `done` may be the
turn's last one. `Partial` tells it from part of a text, which never is
(`StreamClosed`); `ReplyDelivery` sees neither, as `handleStream` skips blanks. The log of a session holds
who wrote each entry; `SessionId` is `parseIncoming` and `GetOrCreate` together.
`source` is HISTORY_SOURCE. With "memory" `RecentMessages` reads the log. With
"feishu" the store keeps nothing and reads a page of the topic back:
**FeishuHistory** is that reading (`FromFeishu`: page size, filter, limit), and
`ReadBack` collects what it makes of any topic of up to `MaxTopic` messages that
users, recalls, replies and placeholders can have left there, the turn's own
message listed or not (`Told` is its loop, as a recursive function). Every listed
message is taken to belong to its thread and chat, as the container asked for says, and time stamps to differ. A message
outside any thread asks for a thread by its message id, which Feishu may refuse:
`HistoryFails`.

**ResponseStream** is one request to the model: `Chat`, or `ChatStream` with an
action per kind of event (`TextDelta`, `ArgumentsDelta`, `ArgumentsDone`, `ItemDone`,
`Completed`) over the accumulator (`Ensure`, `Added`, `Set`, `SetItem`, `Merged`,
`List`; `Kept` is the loop over the order that keeps some of it), and `Return`
wherever the stream ends. A response is a sequence of text
pieces and of calls, whose arguments are sequences of pieces. `Manners` says how
servers differ: which events carry an item id, whether the item has an id of its
own and an index, what is repeated at the end. `Traceable` excludes what cannot
be put together by anyone or, in one case, by this code: a finished item with
an id whose arguments came without it is filed twice, once without a name.
`Input` is the request that follows, so `CallsPaired` spans two requests.

**KnowledgeIndexer** has an action per file read and per statement sent to
Postgres, for several runs at once; **Chunker** is `ChunkDocuments`. A document is
the sequence of the lengths of its paragraphs, a chunk a sequence of spans, so
that overlap and coverage can be stated; `SplitLongText` counts its windows up to the
first that ends the text, as the loop in the code does; runes are taken not to be blank, since
a chunk is trimmed. A walk meets each file once, and over no files at all goes
straight to writing and deleting. `calm` and `indexed` are history: a run that met neither an
edit nor a run over other files has ended since the last edit. Without that
condition the promise is not kept: a run over older files deletes rows another
has just written, which `IndexIsCurrent` therefore does not forbid.

**PromptLoader** is `Load` in its four steps around the lock, concurrent with edits:
an edit leaves a modification time of its own (coarse or restored time stamps
are outside the model), and a file is read in one call; a file emptied and then
filled is two edits. **SkillRunner** is `Run`: `GoOn`, `Jump` (the model names any
step), `End`, `StepFails`, `Leave`. An `end` step needs a turn of the loop: a
straight workflow of exactly `max_steps` working steps and an `end` is refused.
**Config** is `LoadDotEnv` line by line and `Load`. A value is empty, blank
(spaces), or known by its source. `Names` are settings with a default: one that is
required and missing ends the program before anything else.
**Assistant** composes the configuration, the loader, a request to the model and a skill
run in the order `main` and a turn use them: `Configure` until `Load` has returned
(`Configured`), then prompts, then the request, then the skill it asks for. They
share no variable, so one moves while the others are at rest (`AtRest`, `Ready`), and
only after a configuration of defaults (`Unset`), the same for all of them.

## 3. Runs

| run | instance | what it shows |
|---|---|---|
| memory_deduper | 2 callers, 2 ids, TTL 2, lag 1, clock to 7 | each caller can hold a stale reading while the other sweeps, over three windows; `EntryCoversWindow`, and `ImplementsWindow`: MemoryDeduper implements DedupeWindow |
| reaction_states | 3 jobs, two of them on one message, 2 emojis | `InStep`. Two jobs overlap or follow each other while a third is on another message |
| feishu_jobs | 1 message delivered twice, one text, the done emoji, 1 restart | `OneJobPerMessage`; `KeepsPromise` (FeishuBot implements AnswerService); `EventuallyAnswered` |
| feishu_stream | 1 job, a partial text, a whole one, the apology, streaming or not, 2 emojis, 1 restart | within the bot what ReplyDelivery promises: `SentIsShown`, `FailedIsUnsaid`, `AnswerShownOnce`; `EmojiTellsOutcome`, `KeepsPromise`. Jobs share nothing in ReplyDelivery but the settings, so one is enough; two jobs meet in feishu_jobs and reaction_states |
| qq_bot | 1 message with text and 1 without, 3 deliveries, with and without event id, 1 restart | `AnsweredOnce`, `AcknowledgedMeansAnswered`, `KeepsPromise`, `EventuallyAnswered`: a 502 or a dead request, its repeat and a repeat of that all happen |
| access_token | 2 requests, lives from just enough to twice the margin, clock to 14 | `ExpiryMatchesToken`, `TokenOutlivesRequest`; a token is used, runs out and is replaced, by one caller or by both |
| orchestrator | 2 turns over a history in memory, or 1 over a topic of up to 4 messages in Feishu; 3 messages in two threads, window of two, up to 2 tool calls | `PromptHasOwnMessage`, `PromptFits`, `ReplyRemembered`, `CallsAnswered`, `StreamClosed`, `TurnsEnd`; the window lets one turn's question and answer push out the other's question; the page of three is smaller than the topic |
| response_stream | the request of one turn of Assistant: a text of two pieces and up to 2 calls of two pieces, every traceable manner of a server | `ResponseReassembled`, `NamedCallsWhole`, `CallsPaired`; two calls are enough for fragments to interleave and for a merge under a key that exists |
| knowledge_index | see MCKnowledgeIndexer: 2 files, up to three versions of them, up to three runs at once, sizes below, at and above the lengths of paragraphs | `IndexIsCurrent`, `RowsFit`, `WindowsOverlap`, `StaysFindable` |
| assistant | 2 names of settings, one the older of the other, up to 3 lines of `.env`; from the defaults 2 turns, 2 edits, every skill of up to 3 steps with limits 1, 2, 4 and none | `SourcesRank`: a name can be told twice and once more by the other name, in every order; `LoadIsRecent`, `RefusedWhenTooLong`, `RunsEnd`: both orders of two stores, a jump back, a limit met within the workflow and at its end |
| config_doc | Assistant with 2 settings that may be left empty and up to 2 lines of `.env` | violates `EmptySwitchesOff`, see below |
| orchestrator_doc | three messages of one growing topic | violates `OneSessionPerTopic`, see below |

Bounds: `MaxEdits` (PromptLoader) counts edits; `MaxTopic` and `Alone` (Orchestrator) size
a topic and let one turn read it, since turns over Feishu share nothing;
`Ready` (Assistant) follows a request or a skill of one turn,
`Followed`, from a loader at rest, and `Unset` from one configuration. `MaxTime` (MemoryDeduper, AccessToken) ends the
clock; `MaxDeliveries` and `MaxRestarts` (FeishuBot, QQBot) count what the environment does; `CallLists`
(Orchestrator) and `MaxLines` (Config) size inputs. `CHECK_DEADLOCK FALSE` stands
where jobs, turns or the clock come to their end.

Fairness is weak fairness of a job's, request's or turn's own steps: it is a
goroutine whose calls return, because the HTTP clients and scripts have timeouts
and the contexts deadlines. Stream deltas, repeats, expiry, hang-ups and restarts are
never owed. A live job may be cut short by a restart; the liveness properties
say so.

### Where code and documentation disagree

* **One topic, two sessions** (`orchestrator_doc`). README.md says one topic is one
  session. `parseIncoming` keys a message without a thread by its own id, but a
  message with a thread by the thread's; the bot's own reply, sent with
  `ReplyInThread`, opens that thread. The user's follow-up in it therefore
  starts a new session with an empty history.
* **Empty does not switch off** (`config_doc`). `.env.example` says of
  `STREAM_PLACEHOLDER` (line 114) and of each emoji (51, 56, 60) that it is switched off
  by leaving it empty. `getenv` takes empty for unset and gives the default; only
  quoted spaces, which the bot trims, switch the feature off. `SourcesRank`
  therefore says nothing of a name that `.env` leaves empty.

Two more behaviours are deliberate in the code and weaker than the prose of
README.md: a deduper that fails lets the event through (`excused`), and an
emoji whose deletion failed stays beside the next (`slipped`).

## 4. Proofs

Every theorem holds for any sets of callers, jobs, turns, messages, files and texts,
and for any bounds, under the named assumptions of the modules. They state every
safety property the passing runs check, the action property and the three refinements
included.

Two kinds of theorem have no run of their own, because they say what a
liveness property says, less the fairness. `NobodyIsDropped`: whenever the jobs of a
delivered message are at rest, it has an outcome, so that nothing is waited for
in vain. `TurnsOnlyAdvance`, `JobsOnlyAdvance`, `RequestsOnlyAdvance`, `RunsUseUpSteps`: each
step of a turn, job, request or skill run lowers a measure in the naturals (or of a few
such, in lexicographic order) that no other step raises, so that none goes round. What
remains for TLC is that a step which can be taken is taken.

* **MemoryDeduperProofs**: `TypeCorrect`; `MapCoversWindow`; `WindowKept`, that is
  `Spec => ImplementsWindow`. The invariant `Inv` adds to the types that a pending
  reading is at most `MaxLag` old (`ReadingsFresh`) and that the entry of an accepted
  id is at most `MaxLag` short of its window (`EntryCoversWindow`): a sweep by a
  stale or a fresh reading then only drops what no one may ask for any more, and
  every step of the map is a step of DedupeWindow or a stutter. Assumption:
  `MaxLag` bounds the wait for the mutex.
* **ReactionStatesProofs**: `TypeCorrect`, `MapInStep`. The
  invariant adds that a job only ever holds a reaction of its own message
  (`OwnReactions`), without which a delete could disturb another message.
* **FeishuBotProofs**: `TypeCorrect`, `SentTextIsShown`, `FailedTextIsUnsaid`,
  `NoAnswerTwice`, `OneJob`, `EmojiIsTrue`, `NobodyIsDropped`, `JobsOnlyAdvance`, and
  `PromiseKept`, that is `Spec => KeepsPromise`: FeishuBot implements AnswerService.
  Every step of the bot is a step of reply delivery, of the reactions, or leaves them
  alone. What reply delivery keeps is proved first, by itself: its safety invariants
  are not inductive, and `Knows(j)` adds, for each phase, what `handle`, `delivered`,
  `card` and `post` say of each other as long as no response was lost.
  ReactionStatesProofs is instantiated (`RP`) with the bot's jobs and cited.
  `BotInv` joins both invariants, the bot's own types, `StartedOnce` (a job has
  begun only if its message's id is still marked in the deduper in use, unless that
  failed or forgot), `Link` (the stage of a job agrees with the phase of its reply)
  and `EmojisTell` (the emoji on the way agrees with the outcome). After `Deliver`
  the outcome of a message changes only when its reply ends (`Reply`), the process
  restarts or the promise is waived, and only the one job that `StartedOnce` leaves can
  change it. For `NobodyIsDropped`, a mark stands for a delivery and a delivery for a job
  (`TakenUp`). The measure of `JobsOnlyAdvance` is the stage, within it the phase of the
  reply and the steps of the emoji (`Advances`); it rests on `Sets`: a job on its way sets
  no emoji but that of its stage. Assumptions: the emojis are those of the three states,
  and no reaction is taken for an absent one.
* **QQBotProofs**: `TypeCorrect`, `OneAnswer`, `NotJustAcknowledged`, `NobodyIsDropped`,
  `RequestsOnlyAdvance`, `PromiseKept` (`Spec => KeepsPromise`). The invariant says
  that of a message whose mark was kept the first request alone is worked on
  (`FirstAlone`), that a mark stands for a delivery (`MarksDelivered`), that one delivery at least was not just acknowledged (`AllHonest`), and that what is on the
  screen was said by a request that ended (`AllDelivered`). Any number of deliveries,
  hang-ups and restarts may come in between. For `NobodyIsDropped`, a request that
  ended has told the platform something (`Coded`).
* **AccessTokenProofs**: `TypeCorrect`, `CacheIsConsistent`, `RepliesCarryGoodTokens`.
  Assumptions: the margin is at least three waits (60 s against a 10 s timeout) and
  the server's tokens live longer than two waits. `StepsTimely` ties the caller's
  steps to the clock; the margin then pays once each for the late reckoning of
  the expiry, the stale clock reading and the request itself.
* **OrchestratorProofs**: `TypeCorrect`, `EachCallAnswered`, `PromptHolds`,
  `PromptIsBounded`, `StreamIsClosed`, `RepliesAreRemembered`, `TurnsOnlyAdvance`.
  `TypeInv` adds to the types that a turn has its message from its first step on (`Begun`) and that the
  results of a turn are those of its first calls, and of all once it stops calling
  (`Called`). On it rest three invariants that do not need each other: `Prompted`
  (a turn that has built its prompt has its own message in it, within the limit),
  `Heard` (what the callback was told last, stage by stage) and `LogInv`: an entry
  belongs to a turn of its session and a remembered reply to a turn that has ended (`Owned`),
  is there once (`Once`), and lies below its own question however the questions and
  replies of other turns fall in between (`Logged`). That the turn's own message
  survives the window is proved of both stores; of a topic in Feishu, for every page
  `ReadBack` allows. Assumptions: ids and texts are told apart from their absence,
  the placeholder and a recalled message are no history (`UntoldAssumption`), page
  sizes are numbers.
* **KnowledgeIndexerProofs**: `RowsAlwaysFit`, `FilesStayFindable` (an action property),
  `IndexStaysCurrent`, `TableIsTheDocuments`, `WindowsShareOverlap`. First the chunker, for any document and any
  settings: `ChunkTextSound` says of the chunks what each loop keeps, that they fit
  (`RowsFit`), that they cover every rune and that windows overlap as asked, from
  `SplitGood` for one long paragraph and `TakeSound` for a turn of the loop. Then the runs:
  `TypeInv` (a run has `Walked` a part of the files and `Wrote` a part of its chunks),
  `FindInv` (the first row of a file that lasts is never on a list of stale rows, and is in
  the table once a run has written it) and `CurrentInv`. The last says that while a calm run
  is under way, and after it, every run is up to date (`AllUpToDate`), that no run
  deletes what it writes (`OwnKeysKept`), that what a calm run has written stays and what it does not
  want is on its list (`OnItsWay`), and that the table is then what is wanted
  (`Complete`, which `TableIsTheDocuments` states). Assumptions: a walk meets a file once
  (without it two documents would share their keys), a file holds paragraphs of some length, the default size is
  positive.
* **AssistantProofs**: `ConfigIsRanked`, `PromptIsRecent`, `LongSkillsRefused`,
  `RunsUseUpSteps`, `StreamsReassemble`, `NoHalfCalls`, `CallsKeepOutputs`. `AssistantInv` has
  a part for each component. `ConfigInv` says of a name, after some lines are read, that
  its value is the exported one, or that of the first telling line if that is among
  them, or empty if none of them tells (`ReadSoFar`).
  `LoaderInv` says of the kept text what `LoadIsRecent` says of a returned one: the file held
  it at, or after, the time stamp it is kept under (`HeldSince`). `RunInv` follows a run that
  has not jumped: it has done the steps before the current one, no `end` among them
  (`InOrder`). `RequestInv` follows the stream: how far the server has come
  (`Progress`), what the accumulator holds of that (`Entries`: one entry for each finished
  call, with its name and all its arguments, and nameless ones for what was sent of the
  others) and what is returned (`Reply`). `KeysDiffer` and `OthersKeys` show that,
  for a traceable server, no two calls share a key, so that a merge never mixes two.
  A run never does more steps than its limit (`Counted`), which makes what is left of
  it a measure. Assumptions: limits are positive, older names are names, a skill's
  steps are a sequence, a response has names for its calls (`Proper`).

The provers have no induction over data to offer for recursive definitions. Where a loop is a
recursive function (`Told`, `Kept`, `ChunkLength`, `ChunkText`, `ChunkDocuments`), the
proofs show that the function exists and argue from the least counterexample
(`InductionUpTo`, `LoopExists` and their kin), from well-foundedness of the naturals alone.

Only model-checked: liveness (`TurnsEnd`, `RunsEnd`, `EventuallyAnswered`), since fairness
and ENABLED are outside what the provers do. The theorems say the rest of it: that work is
finite, and that what is over has an outcome.

## 5. Not modelled

Text extraction, mention stripping, card layout, JSON bodies, signatures and
logging: formatting without state. The image download and upload, embeddings and
the knowledge tool (a query of the table, or a scan of the files, and the layout
of its hits): single requests whose failure is passed on (`Process`, `CallTool`).
`Store.Search` is one SELECT; whenever it comes it sees `table`. The accumulator of
the older streaming API in `llm/openai.go` (`streamToolCallAccumulator`): nothing
calls it. Memory growth of the reaction map and the session store. Whether a
placeholder other than the default one is taken for history: a comparison with
one literal. Which steps a skill's `choices` allow: they are told to the model
and not checked. Wiring and shutdown of `app/app.go` beyond `Restart` and
`Available`: `Run` closes connections and returns, and whatever a job does after
that it does not do at all a moment later.

## 6. What could follow

The session store as an abstract specification that a memory and a Feishu topic both
implement for the turn that reads them; the shutdown of `app/app.go` as a module of its own
once it waits for jobs; and the knowledge tool, if its search ever keeps state.
