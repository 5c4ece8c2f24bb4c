# TerraAI: a verification development

TLA+ modules for TerraAI, a Sopel plugin that puts an AI model on IRC. The
modules are read off the Python source under `src/terra_ai/`; TLC checks them on
small instances, and TLAPS proves the most important theorems for every value
of the constants. `PROJECT.json` maps each definition to the lines it models and
lists the runs, the mutants that show each property can fail, the hazards and
the theorems.

## 1. The system

Sopel starts **one thread for every rule or command that matches an IRC line**.
The handlers know nothing of each other. They meet in four shared objects: the
SQLite database, the request pacer, the provider-call sink and the plugin's
global `_terrai`.

```
IRC line -> routing (plugin.py) -> guard -> handle_ai_message (bot.py) -> reply
                 |                              |        |        |
                 v                              v        v        v
          commands/*.py                  compose    provider.chat  save_exchange
                 |                       context     |      |          |
                 v                          |        v      v          v
             Database  <--------------------+     pacer   sink      Database
```

| Component | State it keeps | Operations | What makes it correct |
|---|---|---|---|
| Request pacing (`providers/pacing.py`) | lock, last start, end of the cooldown | `wait`, `defer_for` | starts an interval apart, none inside a cooldown; a refused request waits as long as the service asked |
| OpenRouter chat loop (`providers/openrouter.py`, `chat`) | rounds, retries, messages appended to the payload | attempts, retries, tool rounds, telemetry, notices | bounded requests, each tool call answered, each result consumed, one row per attempt |
| AI messages, privacy, sessions (`plugin.py`, `bot.py`, `context/manager.py`, `database.py`) | `users`, `conversation_history`, `sessions`, `compactions`; the loaded instance | messages, `.ai`, `.admin`, opt-in/out, clear, compact, setup, shutdown | an opted-out nick keeps no history but what was in flight; an exchange is whole; a context is one session; retired sessions stay retired |
| Transaction manager (`Database.transaction`) | one connection, re-entrant lock, thread-local depth and rollback mark | begin, nest, commit, roll back, read, close | a unit takes effect whole or not at all; a nested failure dooms it |
| Concise rewrites (`bot.py`, `irc.py`) | the answers so far | rewrite, cut | the reply is the first answer that fits, or the longest prefix that does |
| Provider-call telemetry (`providers/telemetry.py`) | current file and numbered backups | record, rotate | what is on disk is a suffix of what was recorded, as long as the limits allow; a torn row spoils at most its successor |
| Line routing (`plugin.py`) | none of its own | command, fallback, addressed, private message | a line has one effect (section 3 has the exception), and a prompt always an owner |
| Custom prompts (`PromptStore`, `PromptManager`, `management.py`) | `prompts` | add, remove by number, set location, list | replies account for the table |
| User settings (`user.py`, `UserStore`) | the `users` row of a nick, effort level | toggle, opt in and out, set | replies account for the noisy mode |
| Tool policy and executor (`tools/`) | `disabled_tools` | enable, disable, execute | a message's requests all carry the tools enabled when it was composed; a call always yields a result |
| Weather tools (`tools/openmeteo/`) | none | validate, geocode, forecast, normalise | the validation agrees with the schema; a failure names its cause; an answer is for the place that ranks first and holds what was received |
| Errors, logging, configuration, console, provider registry | correlation ids, handlers | report, set up | a handler that raises says one terminal error |

The behaviours that are hard: handlers that read the opt-in flag or a session,
spend seconds with the provider holding nothing, and write afterwards; a pacer
that sleeps with its lock held; retries nested in tool rounds; nested
transactions whose exceptions a caller may swallow; a rotation that can stop
between two renames; a reload or a crash under running handlers. `PROJECT.json`
lists them under `hazards`, each at the line where it bites.

## 2. Modules and how they correspond to the code

| Module | Models | State and actions |
|---|---|---|
| `PacedStarts` | what a pacer promises | `Start`, `Extend`: no thread, lock or clock |
| `RequestPacer` | `wait`, `defer_for` | `lock`, `lastStarted`, `blockedUntil` are the attributes; `EnterWait` takes the lock and computes the deadline, `FinishWait` is the end of the sleep, `Defer` the critical section of `defer_for`; `Tick` is the clock |
| `PacedCalls` | the threads of several `chat()` calls over one pacer | extends `RequestPacer`, whose actions it takes as they are; `stage`, `round` and `attempt` say where a call is, `Refused` turns a `Retry-After` header into a delay, `DeferRetry` hands it to the pacer when the lock is free; `due` is history |
| `OpenRouterChat` | one call of `OpenRouterProvider.chat` | `pc` is the place in the two nested loops; `round`, `toolRounds`, `retry` and `retryPending` are the Python locals; `payload` is what was appended to the messages; one action per way an attempt can end (`StatusError`, `TransportError`, `InvalidResponse`, `ValidResponse`) and per step after it |
| `Conversation` | the handlers over the database | one thread per event; `pc` stops wherever the code holds no lock, so that every database transaction is one step; `inst` is the `TerraAI` a handler fetched, `terra` the global one |
| `AtomicStore` | what transactions promise | `Commit` of a whole unit, `Abort` |
| `Database` | `Database.transaction`, reads, `close` | `depth` and `rollbackOnly` are the thread-local attributes; `working` is what the connection sees, `committed` the file; `Commit` makes a unit durable and `Return` is its `with` returning, so that a crash may fall between; `Abandon` is the exit by a `BaseException`, or by a rollback that raises itself |
| `Reply` | the concise loop and `limit_utf8` | a text is a sequence of character widths; bytes are computed from it, cut, and decoded with cut characters dropped |
| `CallSink` | the rotating JSONL sink | a rotation is a chain of `Unlink` and `Shift` steps, each of which may be the last (`Interrupt`); `TearRow` writes a part of a row and no newline; a file is its rows and their bytes |
| `Routing` | the rules and their early returns | a line is its form, place, sender and rights; each matching handler runs in any order; `Shutdown` and `Setup` clear and set `_terrai` under them, and `WithTerra` is `_get_terra`, which raises in between |
| `Prompts` | the prompt table | `RemoveByIndex` deletes, `NameRemoved` looks the name up afterwards, as the code does |
| `Settings` | `UserStore`, `ToolPolicyStore` and the messages that read them | extends `Prompts`, so that all commands run beside each other; a command is one transaction; a message takes its snapshot of the tools (`ReadPolicy`) and asks with it, rewrites included; `.setlocation` is guarded by the flag (`LocationGuard`) |
| `WeatherForecast` | `execute_tool` and `execute_weather_forecast` | one action per step of the call, from `Dispatch` to `Normalize`; the model's arguments and the services' replies are chosen from every shape the code tells apart; a geocoder result is known by its number (`at`), which goes with it into the request and the answer |

`MC*.tla` give names to the constants TLC needs. `*Proofs.tla` hold the theorems
of the module they extend. Definitions marked `\* mutant` are broken variants
of the definition below them; nothing uses them in the specification.

How the modules fit: `Conversation` takes a transaction for one step, which
`Database` and `DatabaseProofs` justify (all or nothing, no dirty reads).
`Conversation` and `Reply` take `provider.chat` for one step, whose inside is
`OpenRouterChat` (`CallEnds`: it always ends). `OpenRouterChat` takes the
pacer's `wait` for one step, whose inside is `RequestPacer`, and `execute_tool`
for one step, whose inside is `WeatherForecast`. `PacedCalls` is the other half of
the first: many calls over one pacer, each reduced to when it asks for the
pacer (`ChatsUsePacer` proves that the pacer's theorems carry over;
`EveryChatEnds`: queueing never keeps a call from its end).

Abstractions shared by all modules: one network, because every query is keyed
by it; texts are opaque, except in `Reply`; identifiers of sessions are
numbers given out in order, for `uuid4`; a message the bot sends itself reaches
only `Routing`. There is one pacer and one sink: a reload builds others
(`plugin.py:94`, `plugin.py:99`), which share neither locks nor state with those that
handlers of the old instance still use, and what is shown holds of one by itself. Sending an IRC line is taken not to raise; the noisy callback
may raise all the same, because it reads the database first.

## 3. The runs

Passing runs:

| Run | Bounds | What it shows |
|---|---|---|
| `RequestPacer_starts` | 2 threads with a chat each of up to two rounds and one retry a round, clock 2, interval 2 (1 from rpm, 2 from the minimum), 4 headers (none, longer than the interval, a date, a negative number), sleeps one tick short | `ChatsInv`, `StartsAreSpaced`, `NoStartInCooldown`, `RetryWaitsOut`; `ImplementsPacedStarts` (refinement); `EveryChatEnds` (liveness) |
| `OpenRouterChat_call` | the configured limits: 3 tool rounds, 2 retries; up to 2 tool calls a round; paced and noisy | `Inv`, `AttemptsBounded`, `ToolResultsConsumed`, `ToolCallsAnswered`, `RowsFollowAttempts`, `RetriesAreUsedUp`, `OneNoticePerWait`; `CallEnds` |
| `Conversation_safety` | 3 events of 5 kinds, 2 nicks (one an admin), 2 channels, one load, crash anywhere | `Inv`, `OnlyInFlightOutlivesOptOut`, `ExchangesAreWhole`, `ContextIsOneSession`, `CompactionsAreFinal`; `RetiredSessionsAreOver` (an action property) |
| `Conversation_lifecycle` | 2 events of all 7 kinds, 2 nicks, 1 channel, two loads with shutdown or crash between | `RepliesAreRemembered`; `EveryEventEnds` |
| `Database_units` | 2 threads, 2 units each, 3 levels, 2 writes | `Inv`, `AllOrNothing`, `NestedFailureDoomsUnit`, `NoDirtyReads`; `ImplementsAtomicStore` |
| `Reply_concise` | every text of at most 4 characters of 1, 2 or 4 bytes, limit 10 | `LimitKeepsLongestPrefix` for every text and every limit up to 10, `ReplyIsFirstThatFits` |
| `CallSink_rotation` | 6 rows of sizes 1, 2 and 4, files of 3, 2 backups, 2 torn rows | `RetainedIsLatest`, `TornRowsAreContained`, `FilesFollowLimits` |
| `Routing_lines` | 2 lines of every form, sender, place and right, any number of shutdowns and reloads | `OneEffectPerLine`, `EveryPromptHasAnOwner` |
| `Prompts_table` | 4 commands or messages, 2 nicks, 2 triggers, 1 tool, 1 rewrite | `TableMatchesReplies`, `NoisyMatchesReplies`, `RequestsFollowPolicy` |
| `WeatherForecast_calls` | arguments of every type (3.0 among them) and at both ends of every range, 4 qualifiers, 1 or 2 places of 2 regions, with a region that is missing, null or no text, blocks of up to 2 times with 0 to 2 readings | `ArgumentsFollowSchema`, `FailuresNameTheirCause`, `AnswersFollowTheReplies` (action properties) |

Why the bounds are enough. The pacer's state is one lock and two numbers: of two
threads one sleeps with the lock held while the other has a cooldown to record
or a request to start, and two rounds with a retry bring each thread back to the
pacer four times; the proofs take over from there for any number of both. Three events are the smallest number for
the races over a session: two exchanges and the command between them; with two
they would share no context. In `Database_units` three levels give a caller
that swallows the exception between the block that raised and the outermost
one. Rows of two bytes rotate with every row, so that six of them carry the oldest
file out of the last backup, and a torn row through all of them.
Four characters of mixed width put a cut at every place inside a character.
`Conversation_safety` leaves out `.ai` and `.admin`, which differ from a message
in what they skip, and has one load; the lifecycle run has both kinds and a reload.
Two lines are enough for `Routing_lines`: what one line does to another is the
opt-out or opt-in of their nick.

Symmetry is used where the properties are safety and the permuted values are
interchangeable (events, channels, threads, lines; nicks only in `Prompts`, where
none is an admin). Liveness is checked without symmetry.

Runs that must fail, each a disagreement between the program and its text:

| Run | What the text says | What the run shows |
|---|---|---|
| `Conversation_forgotten` | `user.py:39`: "Your history has been forgotten." | a message past the guard is saved after the opt-out; the rows stay |
| `Prompts_rmprompt` | `management.py:40`: "Removed #n (trigger)" | the trigger is looked up after the removal, and is that of the next prompt |

What does hold about the first is proved: only exchanges of messages *in flight at
the opt-out* survive it (`OnlyInFlightOutlivesOptOut`).

Other disagreements met while modelling, without a run of their own:

- `errors.py:97` speaks of "the one terminal IRC error for an inbound event". An
  event's handlers each report their own: while the plugin is shut down or being
  reloaded, a registered command in private is answered by two Error lines, the
  command's and that of `pm_text_to_ai`, which asks for the instance
  (`plugin.py:587`) before it finds that the line is not its own
  (`plugin.py:605`). `OneEffectPerLine` names this exception (`TwiceAnswered`) and
  holds for everything else.
- The validation refuses `3.0` for `days` or `hours` (`forecast.py:203`), which the
  JSON Schema drafts from 6 on count among the integers. `SchemaNumber` follows
  the earlier drafts.
- A geocoder result whose `admin1` is neither text nor false raises where places are
  ranked (`geocode.py:99`): with a region asked for, "Tool execution failed", although
  another result may lie in that region. `WeatherForecast` has the step
  (`RankingFails`).

- `pacing.py:94` says that `defer_for` blocks all callers "from the current time".
  It counts from when it gets the lock, which `wait` holds while it sleeps: the
  sleeper still starts. What holds is `NoStartInCooldown` (no start inside a
  cooldown *in force*), and `RetryWaitsOut` for the thread that was refused.
- A result with `admin1: null` is handled where places are ranked
  (`geocode.py:99`) and not where a fallback is detected (`geocode.py:150`): with a
  region asked for, a place that was found becomes "Tool execution failed".
  `WeatherForecast` has the step (`FallbackFails`).
- `docs/code-review-phase-2-correctness.md:60` counts empty forecast data among the
  failures; a block that is present and empty or null passes (`forecast.py:349`) and
  the tool answers `ok` without data. `Fetch` follows the code.
- `DAILY_RENAMES` renames `time` to `date` (`normalize.py:31`), but the key `time` is
  never looked up in it (`normalize.py:73`).
- The schema does not allow `days` to be null and the validation does
  (`schemas.py:56`, `forecast.py:201`); `ArgumentsFollowSchema` names the exception.
- `execute_tool` does not look at the tool policy: a tool the model calls without
  having been offered it runs all the same.
- An event's correlation id is set by the first of its handlers that looks
  (`errors.py:52-55`); two handlers of one line that look at once have two ids.
- `README.md:113` speaks of waiting one effective interval; the code waits the
  longer of the interval and `Retry-After` (`openrouter.py:623`).
- `README.md:176` says clear starts fresh; a message in flight is saved into the new
  session although its context was the old one's (`manager.py:69`). The
  properties claim only that the *retired* session is over.
- `README.md:181` describes addressed management commands; the plugin sends
  them to the AI like other text, as
  `docs/code-review-phase-5-sopel-routing.md:10` says. `Routing` follows the code.
- `plugin.py:351` says a location is stored; a second `.setlocation` collides with
  the UNIQUE constraint and is dropped in silence (`plugin.py:361`). `Prompts`
  has the step.
- `.stats` formats an average that is NULL when no row has token counts
  (`management.py:95`), and `_record_performance` never stores any (`bot.py:257`).

## 4. Fairness

- `PacedCalls` (`FairChats`): weak fairness of `Tick` (time passes), and for each
  thread of `EnterWait` and `DeferRetry` (a thread blocked on the lock gets it),
  `Admit` (a sleep ends), `Retry` (the loop goes on) and of the end of a request
  under way, whichever it is (the HTTP client has a timeout). Weak fairness of the
  steps that need the lock is enough because rounds, retries and chats are
  bounded: once the others stop asking the lock stays free. Nothing makes a
  thread chat again, and no fairness among waiters is assumed of `threading.Lock`.
- `OpenRouterChat`: weak fairness of `Next`. The HTTP client has a timeout, the
  pacer's wait ends, every other step is local. Which way an attempt ends is
  never assumed.
- `Conversation`: weak fairness of each thread's `Step`. `Setup`, `Unload`,
  `CloseDatabase`, `Crash` and `Receive` are not fair: no reload is ever assumed.
- The other modules state safety only. Deadlock checking is off because every
  model stops when its events, calls or units are used up.

## 5. The proofs

All theorems hold for every value of the constants, under the named `ASSUME`s of
the modules (naturals, subsets, the texts and sizes the code can meet, a `Free`,
`Missing` or `NoRow` value that is none of the things it stands apart from), which
TLC evaluates in the runs. Every safety property the passing runs check is a
theorem, but for those of `WeatherForecast`.

| Module | Theorems | Argument |
|---|---|---|
| `PacedCallsProofs` | `PacerInvariant`, `PacerSpacesStarts`, `PacerHonoursCooldown`, `PacerImplementsPacedStarts` | `Inv`: the thread that holds is the lock's owner (`LockInv`), so that nobody moves `lastStarted` or `blockedUntil` while it sleeps and its deadline stays valid (`DeadlineInv`); the last start of the history is `lastStarted` (`HistoryInv`). Spacing alone is not inductive: it says nothing of a deadline that was computed before the sleep. |
| | `ChatsUsePacer`, `ChatsInvariant`, `RetriesWaitOut` | Every step of the composition is one of the pacer or leaves it alone, so that the pacer's theorems hold of it; `StageInv`: a thread is inside the pacer exactly while its call waits there; `DueInv`: from the refusal on, either the delay is still to be recorded, and counts from now, or the pacer blocks everybody until the retry is due. Without the first half nothing is known of the time between the refusal and the lock. |
| `OpenRouterChatProofs` | `ChatInvariant`, `ChatAttemptsBounded`, `ChatConsumesToolResults` | `RoundInv`: both counters agree, and tools run only while a round is left; `BudgetInv`: requests so far fit the rounds and retries so far; `SentInv`: a message being served answers a request with the whole payload. The bound without pacing (one request a round) is covered by the theorem only; the run is paced. |
| | `ChatAnswersToolCalls`, `ChatRowsFollowAttempts`, `ChatUsesItsRetries`, `ChatAnnouncesWaitsOnce` | `DialogInv`: while tools run, the message being served is the only one that waits for results, and has those of the calls whose turn has come, which is what each further result needs; `LogInv`: which row comes before the attempt under way (`PrecedingRow`), since the properties speak of rows that are written and the step that writes one must know the last; `NoticeInv`: before a request is posted, the only notice about its wait is a retry's. |
| `ConversationProofs` | `ConversationInvariant`, `ConversationHonoursOptOut`, `ConversationRetiresSessions` | `PrivacyInv` adds to the property that a thread past the guard of an opted-out nick is counted as exposed, which is what a later save needs; `SessionInv`: session ids are given out in order, to one channel, and not in use once retired. |
| | `ConversationKeepsExchangesWhole`, `ConversationContextsAreOneSession`, `ConversationCompactionsAreFinal`, `ConversationRemembersReplies` | `RowsInv`: row ids are unique and below `nextId`, so that a new pair collides with none, and a session in use has rows of its channel only, which a context composed from it inherits (`ContextInv`); `CompactionInv`: a compacted session is retired, so that `SessionInv` keeps every save out of it, and whole exchanges make its count even (a counting argument over pairs); `ProgressInv`: where a handler is tells whether it has saved. |
| `DatabaseProofs` | `DatabaseInvariant`, `DatabaseAllOrNothing`, `DatabaseNestedFailureDoomsUnit`, `DatabaseReadsAreClean`, `DatabaseImplementsAtomicStore` | `LockInv`: the lock is held exactly while a block is open, and the connection is in a transaction until that unit is committed, after which nothing can fail it; `WorkingInv`: beyond the file, the connection sees the open unit's own writes; `UnitInv`: units are numbered, and a doomed one is marked. |
| `CallSinkProofs` | `CallSinkInvariant`, `CallSinkRetainsLatest`, `CallSinkFollowsLimits`, `CallSinkContainsTornRows` | The property speaks of the files put one after the other; no step can be judged by it. `SegmentInv` says it per file: each holds the rows from a place `start[f]` of what was recorded to where the next newer one begins, and a `Shift` or `Unlink` moves one `start` only. Among them it counts the backups that are empty although rows came before (`Holes`): only a rotation that is cut short leaves one, so that a file is dropped while others are empty at most once for each. `RotationInv`: a rotation has rows to move, and the place it moves to is free. `SizeInv`: a row that waits to be written has room, or the file is empty. `TornInv` counts: a torn row accounts for two unreadable ones, and for its own alone while it is the last. |
| `RoutingProofs` | `RoutingInvariant`, `RoutingAnswersOnce`, `RoutingLeavesNoPrompt` | `OwnersAreUnique`: the tests of the handlers divide the lines among them, a fact of the definitions alone. `PendingInv`: what happens to `_terrai` and to the flag while a handler waits is remembered (`absent`, `overtaken`). `EffectsInv`: what was done for a line its owner did and no longer waits to do, or is the Error line of `pm_text_to_ai` to a line of `TwiceAnswered`; `OwnerInv`: an owner that has run has answered, unless it asked for the AI and its nick was opted out while it waited. |
| `SettingsProofs` | `SettingsInvariant`, `SettingsKeepPromptTable`, `SettingsKeepNoisyReplies`, `SettingsRequestsFollowPolicy` | Over the prompt commands and the settings together (`SettingsSpec`). The first two count replies: `AnswerInv` says that a thread answers once, from a finite set of those that began, so that an answer moves one count by one. `PolicyInv`: between composing and its answer, a message knows each tool that nobody switched since, and what it asked with last is its snapshot. |
| `ReplyProofs` | `ReplyCutsToLongestPrefix`, `ReplyInvariant`, `ReplyFitsTheLine` | Encoding is a homomorphism, so that the bytes of a text are those of its prefixes; a decoder that has read the bytes of a prefix has that prefix, and drops the piece of the next character it was given. `CountInv` and `RewrittenInv`: one answer per rewrite, and only one that is too long is followed by another. |

The proof that a step preserves an invariant has one step per action. Every
inductive invariant was checked by TLC on the constants of its component's runs
before it was proved; those of the pacer, the chat loop, the conversation and the
database are among the properties of the runs.

Induction over data: the library's induction theorems take an operator as a
parameter, which the installed provers cannot instantiate. `CallSinkProofs` and
`ReplyProofs` use a least counterexample of a *set* of naturals instead
(`LeastNatural`, from `WFMin`), which is enough for the recursive functions and
folds there: `FlattenSeq`, `Encoded`, `Decoded`, the sizes of a file. `Decoded` is a
recursive function for that reason.

Only model-checked:

- liveness (`EveryChatEnds`, `CallEnds`, `EveryEventEnds`): liveness under fairness
  and ENABLED are outside what the prover supports;
- the three action properties of `WeatherForecast`. `RankResults` takes places with
  `SelectSeq`, which is defined by recursion inside a LET over an operator parameter
  and has no theorems that could be cited; and `AnswersFollowTheReplies` holds for
  columns that are no renamed name of each other, as with the variables of the API,
  which would have to become an assumption on the constants. The other two are a
  matter of cases.

## 6. Not modelled

- Configuration, logging set-up, console and scripts: I/O at load time.
- The OpenAI and Ollama providers: not reachable from the plugin.
- `.stats`, `.listprompts`, `.list-tools`, `.help`: reads and formatting.
- `.effort`: one attribute, assigned by one command and read when a request is
  built; there is nothing to interleave.
- The weather history, air-quality and reference schemas: no function is
  registered for them.
- The presets' variable lists, the rename tables and the weather codes: one entry
  stands for each table.
- Redaction in telemetry, parsing of usage and cost, the debug trace: pure data.
- Case-insensitivity of IRC nicks: nicks are abstract.

## 7. Plan

Order of the modules: pacing, chat loop, conversation and database first, since
they carry the program's concurrency; then the smaller ones, the composition of
chats over one pacer, the settings and the weather tool. These are written. What
is next:

1. Proofs of `ArgumentsFollowSchema` and `FailuresNameTheirCause` (case analysis over
   the shapes of arguments and blocks), then of `AnswersFollowTheReplies`, with the
   ranking as a recursive function.
2. `Conversation` over `Database`: that the store of the first, with its
   transactions opened up, still implements the one-step version.
3. The correlation ids of an event's handlers, and the second pacer and sink of a
   reload.
