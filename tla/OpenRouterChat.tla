--------------------------- MODULE OpenRouterChat ---------------------------
(***************************************************************************)
(* providers/openrouter.py: one call of OpenRouterProvider.chat, from its  *)
(* first request to the answer or the exception it ends in.  It alternates *)
(* HTTP attempts, retries of transient failures and rounds of local tools. *)
(* The service, the pacer's wait and the caller's noisy_callback are the   *)
(* environment: each may do anything the code is written to face.          *)
(***************************************************************************)
EXTENDS Integers, Sequences

CONSTANTS MaxToolRounds,       \* parameter max_tool_rounds, 3 by default
          MaxTransientRetries, \* MAX_TRANSIENT_RETRIES, 2
          Interval,            \* RequestPacer.interval, 0 when pacing is off
          Noisy,               \* whether the caller passed a noisy_callback
          MaxCalls             \* bound on the tool calls of one response

ASSUME LimitAssumption == MaxToolRounds \in Nat /\ MaxTransientRetries \in Nat
ASSUME SwitchAssumption == Noisy \in BOOLEAN
ASSUME IntervalAssumption == Interval \in Nat
ASSUME BoundAssumption == MaxCalls \in Nat

VARIABLES pc,            \* where the call is
          round,         \* round_idx
          toolRounds,    \* tool_rounds
          retry,         \* retry_idx
          retryPending,  \* retry_wait_pending
          payload,       \* messages appended to the caller's, in order
          reply,         \* ids of the tool calls of the message being served
          callIdx,       \* tool calls of reply already executed
          attempts,      \* HTTP requests posted
          sent,          \* Len(payload) when the latest request was posted
          waited,        \* whether the pacer made the latest request wait
          waitNotices,   \* notices about waiting since the previous request
          events,        \* rows given to the provider-call sink
          outcome        \* how the call ended

control == <<round, toolRounds, retry, retryPending>>
dialog == <<payload, reply, callIdx>>
traffic == <<attempts, sent, waited>>
vars == <<pc, control, dialog, traffic, waitNotices, events, outcome>>

----------------------------------------------------------------------------
PacingEnabled == Interval > 0

Assistant(ids) == [role |-> "assistant", ids |-> ids]
ToolResult(id) == [role |-> "tool", ids |-> <<id>>]

EventFromZero(ok, status, again) ==                        \* mutant
    [round |-> round, attempt |-> retry, success |-> ok, status |-> status, willRetry |-> again]

\* An attempt's row: its place in the call, its result, and what happens next.
Event(ok, status, again) ==
    [round |-> round, attempt |-> retry + 1, success |-> ok, status |-> status,
     willRetry |-> again]

CanRetryButLast(status) ==                                 \* mutant
    status = "transient" /\ PacingEnabled /\ retry + 1 < MaxTransientRetries

CanRetry(status) ==
    /\ status = "transient"
    /\ PacingEnabled
    /\ retry < MaxTransientRetries

Init ==
    /\ pc = "round"
    /\ round = 0 /\ toolRounds = 0 /\ retry = 0
    /\ retryPending = FALSE
    /\ payload = <<>> /\ reply = <<>> /\ callIdx = 0
    /\ attempts = 0 /\ sent = 0
    /\ waited = FALSE /\ waitNotices = 0
    /\ events = <<>>
    /\ outcome = "running"

----------------------------------------------------------------------------
Finish(result) == pc' = "done" /\ outcome' = result

\* noisy_callback raised: bot.notice failed or the database was closed.
CallbackRaises ==
    /\ Noisy
    /\ Finish("callback_error")

\* The top of the loop: "Thinking...".
StartRound ==
    /\ pc = "round"
    /\ \/ CallbackRaises /\ UNCHANGED retry
       \/ pc' = "wait" /\ retry' = 0 /\ UNCHANGED outcome
    /\ UNCHANGED <<round, toolRounds, retryPending, dialog, traffic, waitNotices, events>>

WaitNoticeAlways(w) == Noisy /\ w                          \* mutant

\* A pacing wait is announced unless a retry notice announced it already.
WaitNotice(w) == Noisy /\ w /\ ~retryPending

\* request_pacer.wait() returned, after a wait or at once, and the request is
\* posted.  An unpaced pacer never makes its caller wait.
Send ==
    /\ pc = "wait"
    /\ \E w \in IF PacingEnabled THEN BOOLEAN ELSE {FALSE} :
          \/ /\ WaitNotice(w)
             /\ CallbackRaises
             /\ UNCHANGED <<retryPending, traffic, waitNotices>>
          \/ /\ pc' = "posted"
             /\ waited' = w
             /\ waitNotices' = IF WaitNotice(w) THEN waitNotices + 1 ELSE waitNotices
             /\ retryPending' = FALSE
             /\ attempts' = attempts + 1
             /\ sent' = Len(payload)
             /\ UNCHANGED outcome
    /\ UNCHANGED <<round, toolRounds, retry, dialog, events>>

\* raise_for_status failed.  A transient status is retried while retries last
\* and pacing is on; the row is written before the retry is announced.
StatusError(status) ==
    /\ pc = "posted"
    /\ waitNotices' = IF CanRetry(status) /\ Noisy THEN 1 ELSE 0
    /\ IF CanRetry(status)
       THEN /\ events' = Append(events, Event(FALSE, status, TRUE))
            /\ retryPending' = TRUE
            /\ \/ pc' = "wait" /\ retry' = retry + 1 /\ UNCHANGED outcome
               \/ CallbackRaises /\ UNCHANGED retry
       ELSE /\ events' = Append(events, Event(FALSE, status, FALSE))
            /\ Finish("transport_error")
            /\ UNCHANGED <<retry, retryPending>>
    /\ UNCHANGED <<round, toolRounds, dialog, traffic>>

\* Any other httpx failure: recorded and never retried.
TransportError ==
    /\ pc = "posted"
    /\ events' = Append(events, Event(FALSE, "none", FALSE))
    /\ Finish("transport_error")
    /\ UNCHANGED <<control, dialog, traffic, waitNotices>>

\* The body is no JSON object, or its message, tool calls or text are malformed.
InvalidResponse ==
    /\ pc = "posted"
    /\ events' = Append(events, Event(FALSE, "ok", FALSE))
    /\ Finish("response_error")
    /\ UNCHANGED <<control, dialog, traffic, waitNotices>>

\* A valid message with n tool calls, or with text when n is 0; the callback is
\* told when the service searched the web.  Malformed usage metadata is reported
\* and changes nothing.
ValidResponse(n) ==
    /\ pc = "posted"
    /\ events' = Append(events, Event(TRUE, "ok", FALSE))
    /\ reply' = [k \in 1 .. n |-> <<round, k>>]
    /\ callIdx' = 0
    /\ waitNotices' = 0
    /\ \/ CallbackRaises
       \/ pc' = "served" /\ UNCHANGED outcome
    /\ UNCHANGED <<control, payload, traffic>>

\* No tool call: the text is the answer.
Answer ==
    /\ pc = "served"
    /\ reply = <<>>
    /\ Finish("answer")
    /\ UNCHANGED <<control, dialog, traffic, waitNotices, events>>

RoundsSpentLate == toolRounds > MaxToolRounds              \* mutant

\* The limit is tested before any tool of the message is executed.
RoundsSpent == toolRounds >= MaxToolRounds

RefuseRound ==
    /\ pc = "served"
    /\ reply # <<>>
    /\ RoundsSpent
    /\ Finish("round_limit")
    /\ UNCHANGED <<control, dialog, traffic, waitNotices, events>>

AcceptRound ==
    /\ pc = "served"
    /\ reply # <<>>
    /\ ~RoundsSpent
    /\ payload' = Append(payload, Assistant(reply))
    /\ pc' = "tools"
    /\ UNCHANGED <<control, reply, callIdx, traffic, waitNotices, events, outcome>>

\* execute_tool returns a result for every call, also for one that failed.
ExecuteTool ==
    /\ pc = "tools"
    /\ callIdx < Len(reply)
    /\ payload' = Append(payload, ToolResult(reply[callIdx + 1]))
    /\ callIdx' = callIdx + 1
    /\ UNCHANGED <<pc, control, reply, traffic, waitNotices, events, outcome>>

EndRoundReturningText ==                                   \* mutant
    /\ pc = "tools"
    /\ callIdx = Len(reply)
    /\ Finish("answer")
    /\ UNCHANGED <<control, dialog, traffic, waitNotices, events>>

EndRoundUncounted ==                                       \* mutant
    /\ pc = "tools"
    /\ callIdx = Len(reply)
    /\ round' = round + 1
    /\ pc' = "round"
    /\ UNCHANGED <<toolRounds, retry, retryPending, dialog, traffic, waitNotices, events,
                   outcome>>

EndRoundEarly ==                                           \* mutant
    /\ pc = "tools"
    /\ toolRounds' = toolRounds + 1
    /\ round' = round + 1
    /\ pc' = "round"
    /\ UNCHANGED <<retry, retryPending, dialog, traffic, waitNotices, events, outcome>>

EndRoundPastTheLast ==                                     \* mutant
    /\ pc = "tools"
    /\ callIdx > Len(reply)
    /\ toolRounds' = toolRounds + 1
    /\ round' = round + 1
    /\ pc' = "round"
    /\ UNCHANGED <<retry, retryPending, dialog, traffic, waitNotices, events, outcome>>

EndRound ==
    /\ pc = "tools"
    /\ callIdx = Len(reply)
    /\ toolRounds' = toolRounds + 1
    /\ round' = round + 1
    /\ pc' = "round"
    /\ UNCHANGED <<retry, retryPending, dialog, traffic, waitNotices, events, outcome>>

Next ==
    \/ StartRound
    \/ Send
    \/ StatusError("transient")
    \/ StatusError("permanent")
    \/ TransportError
    \/ InvalidResponse
    \/ \E n \in 0 .. MaxCalls : ValidResponse(n)
    \/ Answer
    \/ RefuseRound
    \/ AcceptRound
    \/ ExecuteTool
    \/ EndRound

Spec == Init /\ [][Next]_vars

\* The thread keeps running: the HTTP client has a timeout, the pacer's wait
\* ends, and every other step is local.
FairSpec == Spec /\ WF_vars(Next)

----------------------------------------------------------------------------
(* Properties *)

AttemptsPerRound == IF PacingEnabled THEN MaxTransientRetries + 1 ELSE 1

Messages == [role : {"assistant", "tool"}, ids : Seq(Nat \X Nat)]

Rows == [round : Nat, attempt : Nat, success : BOOLEAN,
         status : {"transient", "permanent", "none", "ok"},
         willRetry : BOOLEAN]

TypeOK ==
    /\ pc \in {"round", "wait", "posted", "served", "tools", "done"}
    /\ round \in Nat /\ toolRounds \in Nat /\ retry \in Nat
    /\ retryPending \in BOOLEAN
    /\ payload \in Seq(Messages)
    /\ reply \in Seq(Nat \X Nat)
    /\ callIdx \in 0 .. Len(reply)
    /\ attempts \in Nat /\ sent \in Nat
    /\ waited \in BOOLEAN /\ waitNotices \in Nat
    /\ events \in Seq(Rows)
    /\ outcome \in {"running", "answer", "round_limit", "transport_error",
                    "response_error", "callback_error"}

\* One call never posts more than (rounds + 1) * (retries + 1) requests, and
\* with pacing off no more than one per round: the loop of tool rounds and the
\* loop of retries cannot feed each other.
AttemptsBounded == attempts <= (MaxToolRounds + 1) * AttemptsPerRound

\* docs/code-review-phase-2-correctness.md: "Every executed tool result is
\* consumed by a follow-up provider request".  An answer, and a refusal of one
\* more round, come after a request that carried all results.
ToolResultsConsumed ==
    outcome \in {"answer", "round_limit"} => sent = Len(payload)

\* Whenever a request may be posted, each tool call the model made is followed,
\* in order, by exactly its own result: what the chat protocol asks for.
ToolCallsAnswered ==
    pc \in {"round", "wait", "posted"} =>
        \A i \in DOMAIN payload :
            /\ payload[i].role = "assistant" =>
                  \A k \in DOMAIN payload[i].ids :
                      /\ i + k \in DOMAIN payload
                      /\ payload[i + k] = ToolResult(payload[i].ids[k])
            /\ payload[i].role = "tool" =>
                  \E j \in 1 .. i - 1 :
                      /\ payload[j].role = "assistant"
                      /\ i - j \in DOMAIN payload[j].ids

\* The telemetry tells the call's story: one row per finished attempt, each
\* row either a retry its predecessor announced or the first of the round after
\* a successful one.
RowsFollowAttempts ==
    /\ Len(events) = IF pc = "posted" THEN attempts - 1 ELSE attempts
    /\ \A i \in DOMAIN events :
          IF i > 1 /\ events[i].attempt > 1
          THEN /\ events[i - 1].willRetry
               /\ events[i].round = events[i - 1].round
               /\ events[i].attempt = events[i - 1].attempt + 1
          ELSE /\ events[i].attempt = 1
               /\ i > 1 => events[i - 1].success /\ events[i].round = events[i - 1].round + 1
               /\ i = 1 => events[i].round = 0

\* A call gives a transient failure up only after its last retry.
RetriesAreUsedUp ==
    outcome = "transport_error" /\ events[Len(events)].status = "transient" =>
        events[Len(events)].attempt = AttemptsPerRound

\* README.md:113-115: a noisy caller hears of every pacing wait exactly once,
\* as a pacing notice or as the more specific retry notice.
OneNoticePerWait ==
    pc = "posted" /\ Noisy => waitNotices <= 1 /\ (waited => waitNotices = 1)

\* Every call ends in an answer or an exception.
CallEnds == <>(pc = "done")

----------------------------------------------------------------------------
(* The inductive invariant behind them *)

\* Both round counters agree, and tools run only while a round is left for
\* their results.
RoundInv ==
    /\ toolRounds = round
    /\ round <= MaxToolRounds
    /\ pc = "tools" => round < MaxToolRounds

\* What is posted so far fits in the rounds and retries used so far.
BudgetInv ==
    /\ retry < AttemptsPerRound
    /\ pc = "round" => attempts <= round * AttemptsPerRound
    /\ pc = "wait" => attempts <= round * AttemptsPerRound + retry
    /\ attempts <= round * AttemptsPerRound + retry + 1

\* The message being served answers a request that carried the whole payload.
SentInv ==
    /\ pc \in {"posted", "served"} => sent = Len(payload)
    /\ pc # "done" => outcome = "running"
    /\ ToolResultsConsumed

\* Before a request is posted, the only notice about its wait is a retry's.
NoticeInv ==
    /\ pc \in {"round", "wait"} /\ Noisy => waitNotices = IF retryPending THEN 1 ELSE 0
    /\ pc \in {"round", "posted", "served", "tools"} => ~retryPending
    /\ pc \in {"served", "tools"} => waitNotices = 0
    /\ OneNoticePerWait

LastRow == events[Len(events)]

\* Which row comes before the attempt under way: none, the failed attempt it
\* repeats, or the successful one of the round before.
PrecedingRow ==
    IF events = <<>> THEN round = 0 /\ retry = 0
    ELSE IF retry > 0
    THEN LastRow.willRetry /\ LastRow.round = round /\ LastRow.attempt = retry
    ELSE LastRow.success /\ LastRow.round + 1 = round

\* The last row is the one that brought the call where it is.
LogInv ==
    /\ pc = "round" => IF events = <<>> THEN round = 0
                       ELSE LastRow.success /\ LastRow.round + 1 = round
    /\ pc \in {"wait", "posted"} => PrecedingRow
    /\ pc \in {"served", "tools"} =>
          events # <<>> /\ LastRow.success /\ LastRow.round = round
    /\ RowsFollowAttempts
    /\ RetriesAreUsedUp

\* Where the tool calls being executed were appended.
CallsAt == Len(payload) - callIdx

\* Each call whose turn has come has its result, and a result its call; only
\* the message being served may wait for the rest of its results.
DialogInv ==
    /\ pc = "served" => callIdx = 0
    /\ pc = "tools" => CallsAt >= 1 /\ payload[CallsAt] = Assistant(reply)
    /\ \A i \in DOMAIN payload :
          /\ payload[i].role = "assistant" =>
                \A k \in DOMAIN payload[i].ids :
                    /\ i + k \in DOMAIN payload => payload[i + k] = ToolResult(payload[i].ids[k])
                    /\ pc # "tools" \/ i # CallsAt => i + k \in DOMAIN payload
          /\ payload[i].role = "tool" =>
                \E j \in 1 .. i - 1 :
                    /\ payload[j].role = "assistant"
                    /\ i - j \in DOMAIN payload[j].ids

Inv ==
    /\ TypeOK /\ RoundInv /\ BudgetInv /\ SentInv
    /\ NoticeInv /\ LogInv /\ DialogInv
=============================================================================
