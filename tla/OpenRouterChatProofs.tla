------------------------ MODULE OpenRouterChatProofs ------------------------
(***************************************************************************)
(* The bound on the requests of one chat call, the promise that each tool  *)
(* call is answered and no result left unread, and what notices and        *)
(* telemetry tell, for every limit, interval and response.                 *)
(***************************************************************************)
EXTENDS OpenRouterChat, TLAPS

USE LimitAssumption, SwitchAssumption, IntervalAssumption, BoundAssumption

\* A round has room for at least one attempt.
LEMMA AttemptsPerRoundPositive ==
    /\ AttemptsPerRound \in Nat
    /\ AttemptsPerRound >= 1
    /\ ~PacingEnabled => AttemptsPerRound = 1
    /\ PacingEnabled => AttemptsPerRound = MaxTransientRetries + 1
  BY DEF AttemptsPerRound

\* Monotonicity and distributivity of the budget, the only products here.
LEMMA BudgetArithmetic ==
    ASSUME NEW a \in Nat, NEW b \in Nat, NEW k \in Nat, a <= b
    PROVE  /\ (a + 1) * k = a * k + k
           /\ a * k <= b * k
           /\ a * k \in Nat
  <1>1. PICK d \in Nat : b = a + d
    <2>1. b - a \in Nat /\ b = a + (b - a)
      OBVIOUS
    <2> QED
      BY <2>1
  <1>2. b * k = a * k + d * k /\ d * k \in Nat /\ a * k \in Nat
    BY <1>1
  <1> QED
    BY <1>2

\* A call starts with no round, retry or request used.
LEMMA InitInv == Init => Inv
  <1> SUFFICES ASSUME Init PROVE Inv
    OBVIOUS
  <1>1. TypeOK
    <2>1. <<>> \in Seq(Messages) /\ <<>> \in Seq(Rows)
          /\ <<>> \in Seq(Nat \X Nat) /\ 0 \in 0 .. Len(<<>>)
      OBVIOUS
    <2> QED
      BY <2>1 DEF Init, TypeOK
  <1>2. RoundInv /\ SentInv
    BY DEF Init, RoundInv, SentInv, ToolResultsConsumed
  <1>3. BudgetInv
    BY AttemptsPerRoundPositive DEF Init, BudgetInv
  <1>4. NoticeInv
    BY DEF Init, NoticeInv, OneNoticePerWait
  <1>5. LogInv
    BY DEF Init, LogInv, RowsFollowAttempts, RetriesAreUsedUp
  <1>6. DialogInv
    BY DEF Init, DialogInv
  <1> QED
    BY <1>1, <1>2, <1>3, <1>4, <1>5, <1>6 DEF Inv

----------------------------------------------------------------------------
(* Type correctness, action by action *)

\* A row written for an attempt is a row, and so is the longer log.
LEMMA EventType ==
    ASSUME TypeOK, NEW ok \in BOOLEAN,
           NEW status \in {"transient", "permanent", "none", "ok"},
           NEW again \in BOOLEAN
    PROVE  Append(events, Event(ok, status, again)) \in Seq(Rows)
  <1>1. Event(ok, status, again) \in Rows
    BY DEF TypeOK, Event, Rows
  <1> QED
    BY <1>1 DEF TypeOK

\* Every step preserves the types.
LEMMA NextTypeOK ==
    ASSUME TypeOK, [Next]_vars
    PROVE  TypeOK'
  <1>. USE DEF control, dialog, traffic
  <1>1. CASE StartRound
    <2>1. /\ pc' \in {"wait", "done"}
          /\ outcome' \in {outcome, "callback_error"}
          /\ retry' \in {retry, 0}
      BY <1>1 DEF StartRound, CallbackRaises, Finish
    <2>2. UNCHANGED <<round, toolRounds, retryPending, payload, reply, callIdx, attempts,
                      sent, waited, waitNotices, events>>
      BY <1>1 DEF StartRound
    <2> QED
      BY <2>1, <2>2 DEF TypeOK
  <1>2. CASE Send
    <2>1. /\ pc' \in {"posted", "done"}
          /\ outcome' \in {outcome, "callback_error"}
          /\ retryPending' \in BOOLEAN
          /\ waited' \in BOOLEAN
      BY <1>2 DEF Send, CallbackRaises, Finish, TypeOK, traffic
    <2>2. /\ waitNotices' \in {waitNotices, waitNotices + 1}
          /\ attempts' \in {attempts, attempts + 1}
          /\ sent' \in {sent, Len(payload)}
      BY <1>2 DEF Send, traffic
    <2>3. UNCHANGED <<round, toolRounds, retry, payload, reply, callIdx, events>>
      BY <1>2 DEF Send, dialog
    <2> QED
      BY <2>1, <2>2, <2>3 DEF TypeOK
  <1>3. ASSUME NEW s \in {"transient", "permanent"}, StatusError(s)
        PROVE  TypeOK'
    <2>2. events' \in Seq(Rows)
      BY <1>3, EventType DEF StatusError
    <2>3. /\ pc' \in {"wait", "done"}
          /\ outcome' \in {outcome, "callback_error", "transport_error"}
          /\ retry' \in {retry, retry + 1}
          /\ waitNotices' \in {0, 1}
      BY <1>3 DEF StatusError, CallbackRaises, Finish
    <2>5. retryPending' \in BOOLEAN
      BY <1>3 DEF StatusError, TypeOK
    <2>4. UNCHANGED <<round, toolRounds, payload, reply, callIdx, attempts, sent, waited>>
      BY <1>3 DEF StatusError
    <2> QED
      <3>1. retry' \in Nat /\ waitNotices' \in Nat
        BY <2>3 DEF TypeOK
      <3>2. /\ pc' \in {"round", "wait", "posted", "served", "tools", "done"}
            /\ outcome' \in {"running", "answer", "round_limit", "transport_error",
                             "response_error", "callback_error"}
        BY <2>3 DEF TypeOK
      <3> QED
        BY <2>2, <2>4, <2>5, <3>1, <3>2 DEF TypeOK
  <1>4. CASE TransportError
    <2>1. events' \in Seq(Rows)
      BY <1>4, EventType DEF TransportError
    <2> QED
      BY <1>4, <2>1 DEF TransportError, Finish, TypeOK
  <1>5. CASE InvalidResponse
    <2>1. events' \in Seq(Rows)
      BY <1>5, EventType DEF InvalidResponse
    <2> QED
      BY <1>5, <2>1 DEF InvalidResponse, Finish, TypeOK
  <1>6. ASSUME NEW n \in 0 .. MaxCalls, ValidResponse(n)
        PROVE  TypeOK'
    <2>1. events' \in Seq(Rows)
      BY <1>6, EventType DEF ValidResponse
    <2>2. reply' \in Seq(Nat \X Nat)
      BY <1>6 DEF ValidResponse, TypeOK
    <2>3. callIdx' \in 0 .. Len(reply')
      BY <1>6, <2>2 DEF ValidResponse
    <2> QED
      BY <1>6, <2>1, <2>2, <2>3 DEF ValidResponse, CallbackRaises, Finish, TypeOK
  <1>7. CASE Answer \/ RefuseRound
    BY <1>7 DEF Answer, RefuseRound, Finish, TypeOK
  <1>8. CASE AcceptRound
    <2>1. payload' \in Seq(Messages)
      BY <1>8 DEF AcceptRound, Assistant, Messages, TypeOK
    <2> QED
      BY <1>8, <2>1 DEF AcceptRound, TypeOK
  <1>9. CASE ExecuteTool
    <2>1. reply[callIdx + 1] \in Nat \X Nat
      BY <1>9 DEF ExecuteTool, TypeOK
    <2>2. ToolResult(reply[callIdx + 1]) \in Messages
      BY <2>1 DEF ToolResult, Messages
    <2>3. payload' \in Seq(Messages)
      BY <1>9, <2>2 DEF ExecuteTool, TypeOK
    <2> QED
      BY <1>9, <2>3 DEF ExecuteTool, TypeOK
  <1>10. CASE EndRound
    BY <1>10 DEF EndRound, TypeOK
  <1>11. CASE UNCHANGED vars
    BY <1>11 DEF vars, TypeOK
  <1> QED
    BY <1>1, <1>2, <1>3, <1>4, <1>5, <1>6, <1>7, <1>8, <1>9, <1>10, <1>11 DEF Next

----------------------------------------------------------------------------
(* The counters and the request each answer rests on *)

\* Every step preserves the round counters, the request budget and what an
\* answer rests on.
LEMMA NextRest ==
    ASSUME Inv, [Next]_vars
    PROVE  RoundInv' /\ BudgetInv' /\ SentInv'
  <1>. USE DEF control, dialog, traffic
  <1>. DEFINE K == AttemptsPerRound
              used == round * K
  <1>0. /\ K \in Nat /\ K >= 1 /\ used \in Nat
        /\ round \in Nat /\ retry \in Nat /\ attempts \in Nat
        /\ (round + 1) * K = used + K
        /\ (~PacingEnabled => K = 1)
        /\ (PacingEnabled => K = MaxTransientRetries + 1)
    BY AttemptsPerRoundPositive, BudgetArithmetic DEF Inv, TypeOK
  <1>. HIDE DEF K, used
  <1>1. CASE StartRound
    <2>1. BudgetInv'
      BY <1>0, <1>1 DEF K, used, StartRound, CallbackRaises, Finish, Inv, BudgetInv
    <2> QED
      BY <2>1, <1>1 DEF StartRound, CallbackRaises, Finish, Inv, RoundInv, SentInv,
                        ToolResultsConsumed
  <1>2. CASE Send
    <2>1. BudgetInv'
      BY <1>0, <1>2 DEF K, used, Send, CallbackRaises, Finish, Inv, BudgetInv
    <2> QED
      BY <2>1, <1>2 DEF Send, CallbackRaises, Finish, Inv, RoundInv, SentInv,
                        ToolResultsConsumed
  <1>3. ASSUME NEW s \in {"transient", "permanent"}, StatusError(s)
        PROVE  RoundInv' /\ BudgetInv' /\ SentInv'
    <2>1. BudgetInv'
      <3>1. /\ pc = "posted" /\ attempts' = attempts /\ round' = round
            /\ attempts <= used + retry + 1 /\ retry < K
        BY <1>3 DEF StatusError, Inv, BudgetInv, K, used
      <3>2. CASE pc' = "wait" /\ retry' = retry + 1 /\ CanRetry(s)
        <4>1. retry' < K
          BY <3>2, <1>0 DEF CanRetry
        <4> QED
          BY <1>0, <3>1, <3>2, <4>1 DEF BudgetInv, K, used
      <3>3. CASE pc' = "done" /\ retry' = retry
        BY <1>0, <3>1, <3>3 DEF BudgetInv, K, used
      <3> QED
        BY <1>3, <3>2, <3>3 DEF StatusError, CallbackRaises, Finish
    <2> QED
      BY <2>1, <1>3 DEF StatusError, CallbackRaises, Finish, Inv, RoundInv, SentInv,
                        ToolResultsConsumed
  <1>4. CASE TransportError \/ InvalidResponse
    BY <1>4 DEF TransportError, InvalidResponse, Finish, Inv, RoundInv, BudgetInv,
                SentInv, ToolResultsConsumed
  <1>5. ASSUME NEW n \in 0 .. MaxCalls, ValidResponse(n)
        PROVE  RoundInv' /\ BudgetInv' /\ SentInv'
    BY <1>5 DEF ValidResponse, CallbackRaises, Finish, Inv, RoundInv, BudgetInv, SentInv,
                ToolResultsConsumed
  <1>6. CASE Answer \/ RefuseRound
    BY <1>6 DEF Answer, RefuseRound, Finish, Inv, RoundInv, BudgetInv, SentInv,
                ToolResultsConsumed
  <1>7. CASE AcceptRound
    BY <1>7 DEF AcceptRound, RoundsSpent, Inv, TypeOK, RoundInv, BudgetInv, SentInv,
                ToolResultsConsumed
  <1>8. CASE ExecuteTool
    BY <1>8 DEF ExecuteTool, Inv, RoundInv, BudgetInv, SentInv, ToolResultsConsumed
  <1>9. CASE EndRound
    <2>1. BudgetInv'
      BY <1>0, <1>9 DEF K, used, EndRound, Inv, BudgetInv
    <2>2. RoundInv'
      BY <1>0, <1>9 DEF EndRound, Inv, RoundInv
    <2> QED
      BY <2>1, <2>2, <1>9 DEF EndRound, Inv, SentInv, ToolResultsConsumed
  <1>10. CASE UNCHANGED vars
    BY <1>10 DEF vars, Inv, RoundInv, BudgetInv, SentInv, ToolResultsConsumed
  <1> QED
    BY <1>1, <1>2, <1>3, <1>4, <1>5, <1>6, <1>7, <1>8, <1>9, <1>10 DEF Next

----------------------------------------------------------------------------
(* Notices *)

\* Every step preserves that a wait is announced once.
LEMMA NextNoticeInv ==
    ASSUME Inv, [Next]_vars
    PROVE  NoticeInv'
  <1>. USE DEF Inv, TypeOK, NoticeInv, OneNoticePerWait, control, dialog, traffic
  <1>1. CASE StartRound
    BY <1>1 DEF StartRound, CallbackRaises, Finish
  <1>2. CASE Send
    BY <1>2 DEF Send, CallbackRaises, Finish, WaitNotice
  <1>3. ASSUME NEW s \in {"transient", "permanent"}, StatusError(s)
        PROVE  NoticeInv'
    BY <1>3 DEF StatusError, CallbackRaises, Finish
  <1>4. CASE TransportError \/ InvalidResponse
    BY <1>4 DEF TransportError, InvalidResponse, Finish
  <1>5. ASSUME NEW n \in 0 .. MaxCalls, ValidResponse(n)
        PROVE  NoticeInv'
    BY <1>5 DEF ValidResponse, CallbackRaises, Finish
  <1>6. CASE Answer \/ RefuseRound
    BY <1>6 DEF Answer, RefuseRound, Finish
  <1>7. CASE AcceptRound
    BY <1>7 DEF AcceptRound
  <1>8. CASE ExecuteTool
    BY <1>8 DEF ExecuteTool
  <1>9. CASE EndRound
    BY <1>9 DEF EndRound
  <1>10. CASE UNCHANGED vars
    BY <1>10 DEF vars
  <1> QED
    BY <1>1, <1>2, <1>3, <1>4, <1>5, <1>6, <1>7, <1>8, <1>9, <1>10 DEF Next

----------------------------------------------------------------------------
(* The telemetry *)

\* The row of the attempt under way continues the log.
LEMMA AppendedRowFollows ==
    ASSUME Inv, pc = "posted", pc' # "posted", attempts' = attempts,
           NEW ok \in BOOLEAN, NEW status \in {"transient", "permanent", "none", "ok"},
           NEW again \in BOOLEAN,
           events' = Append(events, Event(ok, status, again))
    PROVE  /\ RowsFollowAttempts'
           /\ events' # <<>>
           /\ LastRow' = Event(ok, status, again)
  <1>. DEFINE n == Len(events)
              new == Event(ok, status, again)
  <1>1. /\ events \in Seq(Rows) /\ n \in Nat /\ new \in Rows
        /\ new.round = round /\ new.attempt = retry + 1
        /\ round \in Nat /\ retry \in Nat /\ attempts \in Nat
    BY DEF Inv, TypeOK, Event, Rows
  <1>2. /\ events' \in Seq(Rows) /\ Len(events') = n + 1
        /\ events'[n + 1] = new
        /\ \A i \in 1 .. n : events'[i] = events[i]
    BY <1>1
  <1>3. events' # <<>> /\ LastRow' = new
    BY <1>1, <1>2 DEF LastRow
  <1>4. PrecedingRow /\ RowsFollowAttempts
    BY DEF Inv, LogInv
  <1>5. Len(events') = attempts'
    BY <1>1, <1>2, <1>4 DEF RowsFollowAttempts
  <1>6. ASSUME NEW i \in 1 .. n
        PROVE  IF i > 1 /\ events'[i].attempt > 1
               THEN /\ events'[i - 1].willRetry
                    /\ events'[i].round = events'[i - 1].round
                    /\ events'[i].attempt = events'[i - 1].attempt + 1
               ELSE /\ events'[i].attempt = 1
                    /\ i > 1 => /\ events'[i - 1].success
                                /\ events'[i].round = events'[i - 1].round + 1
                    /\ i = 1 => events'[i].round = 0
    <2>1. i \in DOMAIN events /\ events'[i] = events[i]
      BY <1>1, <1>2
    <2>2. i > 1 => events'[i - 1] = events[i - 1]
      BY <1>1, <1>2
    <2> QED
      BY <1>4, <2>1, <2>2 DEF RowsFollowAttempts
  <1>7. CASE n = 0
    <2>1. events = <<>> /\ round = 0 /\ retry = 0
      BY <1>1, <1>4, <1>7 DEF PrecedingRow
    <2>2. new.attempt = 1 /\ new.round = 0 /\ DOMAIN events' = 1 .. 1 /\ events'[1] = new
      BY <1>1, <1>2, <1>7, <2>1
    <2> QED
      BY <1>3, <1>5, <2>2 DEF RowsFollowAttempts
  <1>8. CASE n > 0
    <2>1. /\ events # <<>> /\ n \in 1 .. n
          /\ LastRow = events[n] /\ LastRow \in Rows /\ events'[n] = LastRow
      BY <1>1, <1>2, <1>8 DEF LastRow
    <2>2. IF retry > 0
          THEN LastRow.willRetry /\ LastRow.round = new.round /\ new.attempt = LastRow.attempt + 1
          ELSE LastRow.success /\ new.round = LastRow.round + 1 /\ new.attempt = 1
      BY <1>1, <1>4, <2>1 DEF PrecedingRow, Rows
    <2>3. (n + 1) - 1 = n /\ n + 1 > 1 /\ DOMAIN events' = 1 .. n + 1
      BY <1>1, <1>2, <1>8
    <2>4. ASSUME NEW i, i = n + 1
          PROVE  IF i > 1 /\ events'[i].attempt > 1
                 THEN /\ events'[i - 1].willRetry
                      /\ events'[i].round = events'[i - 1].round
                      /\ events'[i].attempt = events'[i - 1].attempt + 1
                 ELSE /\ events'[i].attempt = 1
                      /\ i > 1 => /\ events'[i - 1].success
                                  /\ events'[i].round = events'[i - 1].round + 1
                      /\ i = 1 => events'[i].round = 0
      <3>1. events'[i] = new /\ events'[i - 1] = LastRow /\ i > 1 /\ i # 1
        BY <1>1, <1>2, <1>8, <2>1, <2>3, <2>4
      <3>2. new.attempt > 1 <=> retry > 0
        BY <1>1
      <3> HIDE DEF new, n
      <3> QED
        BY <2>2, <3>1, <3>2
    <2>5. \A i \in DOMAIN events' : i \in 1 .. n \/ i = n + 1
      BY <1>1, <2>3
    <2>6. ASSUME NEW i \in DOMAIN events'
          PROVE  IF i > 1 /\ events'[i].attempt > 1
                 THEN /\ events'[i - 1].willRetry
                      /\ events'[i].round = events'[i - 1].round
                      /\ events'[i].attempt = events'[i - 1].attempt + 1
                 ELSE /\ events'[i].attempt = 1
                      /\ i > 1 => /\ events'[i - 1].success
                                  /\ events'[i].round = events'[i - 1].round + 1
                      /\ i = 1 => events'[i].round = 0
      BY <1>6, <2>4, <2>5
    <2>7. Len(events') = IF pc' = "posted" THEN attempts' - 1 ELSE attempts'
      BY <1>5
    <2>8. RowsFollowAttempts'
      BY <2>6, <2>7 DEF RowsFollowAttempts
    <2> QED
      BY <1>3, <2>8
  <1> QED
    BY <1>1, <1>7, <1>8

\* Every step preserves what the log says of the call.
LEMMA NextLogInv ==
    ASSUME Inv, [Next]_vars
    PROVE  LogInv'
  <1>. USE DEF control, dialog, traffic
  <1>0. /\ LogInv
        /\ round \in Nat /\ retry \in Nat /\ attempts \in Nat
        /\ retry < AttemptsPerRound
        /\ outcome # "running" => pc = "done"
    BY DEF Inv, TypeOK, BudgetInv, SentInv
  <1>1. CASE StartRound
    BY <1>0, <1>1 DEF StartRound, CallbackRaises, Finish, LogInv, PrecedingRow, LastRow,
                      RowsFollowAttempts, RetriesAreUsedUp
  <1>2. CASE Send
    <2>1. /\ events' = events /\ round' = round /\ retry' = retry
          /\ \/ pc' = "done" /\ attempts' = attempts /\ outcome' = "callback_error"
             \/ pc' = "posted" /\ attempts' = attempts + 1 /\ outcome' = outcome
      BY <1>2 DEF Send, CallbackRaises, Finish
    <2>2. pc = "wait" /\ outcome = "running" /\ PrecedingRow
      BY <1>0, <1>2 DEF Send, LogInv
    <2>3. RowsFollowAttempts' /\ RetriesAreUsedUp'
      BY <1>0, <2>1, <2>2 DEF LogInv, RowsFollowAttempts, RetriesAreUsedUp
    <2> QED
      BY <2>1, <2>2, <2>3 DEF LogInv, PrecedingRow, LastRow
  <1>3. ASSUME NEW s \in {"transient", "permanent"}, StatusError(s)
        PROVE  LogInv'
    <2>. DEFINE again == CanRetry(s)
                row == Event(FALSE, s, again)
    <2>1. /\ pc = "posted" /\ pc' \in {"wait", "done"} /\ attempts' = attempts
          /\ events' = Append(events, row) /\ again \in BOOLEAN /\ round' = round
      BY <1>3 DEF StatusError, CallbackRaises, Finish, CanRetry
    <2>2. RowsFollowAttempts' /\ events' # <<>> /\ LastRow' = row
      BY <2>1, AppendedRowFollows
    <2>3. /\ row.round = round /\ row.attempt = retry + 1
          /\ row.status = s /\ (again => row.willRetry)
      BY DEF Event
    <2>4. pc' = "wait" => again /\ retry' = retry + 1
      BY <1>3 DEF StatusError, CallbackRaises, Finish
    <2>5. pc' = "wait" => PrecedingRow'
      <3> SUFFICES ASSUME pc' = "wait" PROVE PrecedingRow'
        OBVIOUS
      <3>1. /\ events' # <<>> /\ retry' > 0
            /\ LastRow'.willRetry /\ LastRow'.round = round' /\ LastRow'.attempt = retry'
        <4> HIDE DEF row, again
        <4> QED
          BY <1>0, <2>1, <2>2, <2>3, <2>4
      <3> QED
        BY <3>1 DEF PrecedingRow
    <2>6. RetriesAreUsedUp'
      <3>1. outcome' = "transport_error" => ~again
        BY <1>0, <1>3, <2>1 DEF StatusError, CallbackRaises, Finish
      <3>2. s = "transient" /\ ~again => retry + 1 = AttemptsPerRound
        BY <1>0, AttemptsPerRoundPositive DEF CanRetry
      <3>3. AttemptsPerRound' = AttemptsPerRound
        OBVIOUS
      <3> QED
        BY <2>2, <2>3, <3>1, <3>2 DEF RetriesAreUsedUp, LastRow
    <2> QED
      BY <2>1, <2>2, <2>5, <2>6 DEF LogInv
  <1>4. CASE TransportError \/ InvalidResponse
    <2>1. PICK status \in {"none", "ok"} :
             /\ pc = "posted" /\ pc' = "done" /\ attempts' = attempts
             /\ events' = Append(events, Event(FALSE, status, FALSE))
      BY <1>4 DEF TransportError, InvalidResponse, Finish
    <2>2. RowsFollowAttempts' /\ LastRow' = Event(FALSE, status, FALSE)
      BY <2>1, AppendedRowFollows
    <2>3. RetriesAreUsedUp'
      BY <2>2 DEF RetriesAreUsedUp, LastRow, Event
    <2> QED
      BY <2>1, <2>2, <2>3 DEF LogInv
  <1>5. ASSUME NEW n \in 0 .. MaxCalls, ValidResponse(n)
        PROVE  LogInv'
    <2>1. /\ pc = "posted" /\ pc' \in {"done", "served"} /\ attempts' = attempts
          /\ events' = Append(events, Event(TRUE, "ok", FALSE)) /\ round' = round
      BY <1>5 DEF ValidResponse, CallbackRaises, Finish
    <2>2. RowsFollowAttempts' /\ events' # <<>> /\ LastRow' = Event(TRUE, "ok", FALSE)
      BY <2>1, AppendedRowFollows
    <2>3. RetriesAreUsedUp'
      BY <2>2 DEF RetriesAreUsedUp, LastRow, Event
    <2> QED
      BY <2>1, <2>2, <2>3 DEF LogInv, Event
  <1>6. CASE Answer \/ RefuseRound
    BY <1>0, <1>6 DEF Answer, RefuseRound, Finish, LogInv, RowsFollowAttempts, RetriesAreUsedUp
  <1>7. CASE AcceptRound \/ ExecuteTool
    BY <1>0, <1>7 DEF AcceptRound, ExecuteTool, LogInv, LastRow, RowsFollowAttempts,
                      RetriesAreUsedUp
  <1>8. CASE EndRound
    <2>1. LastRow' = LastRow
      BY <1>8 DEF EndRound, LastRow
    <2> QED
      BY <1>0, <1>8, <2>1 DEF EndRound, LogInv, RowsFollowAttempts, RetriesAreUsedUp
  <1>9. CASE UNCHANGED vars
    BY <1>0, <1>9 DEF vars, LogInv, LastRow, PrecedingRow, RowsFollowAttempts, RetriesAreUsedUp
  <1> QED
    BY <1>1, <1>2, <1>3, <1>4, <1>5, <1>6, <1>7, <1>8, <1>9 DEF Next

----------------------------------------------------------------------------
(* The dialog *)

\* The message that asks for tools opens a group of results.
LEMMA AcceptDialogInv ==
    ASSUME Inv, AcceptRound
    PROVE  DialogInv'
  <1>. DEFINE n == Len(payload)
  <1>1. /\ payload \in Seq(Messages) /\ n \in Nat /\ reply \in Seq(Nat \X Nat)
        /\ Assistant(reply) \in Messages
        /\ DialogInv
    BY DEF Inv, TypeOK, Assistant, Messages
  <1>2. /\ pc = "served" /\ pc' = "tools" /\ callIdx = 0 /\ callIdx' = 0
        /\ reply' = reply /\ payload' = Append(payload, Assistant(reply))
    BY <1>1 DEF AcceptRound, DialogInv
  <1>3. /\ payload' \in Seq(Messages) /\ Len(payload') = n + 1
        /\ DOMAIN payload' = 1 .. n + 1 /\ DOMAIN payload = 1 .. n
        /\ payload'[n + 1] = Assistant(reply)
        /\ \A i \in 1 .. n : payload'[i] = payload[i]
    BY <1>1, <1>2
  <1>4. CallsAt' = n + 1
    BY <1>1, <1>2, <1>3 DEF CallsAt
  <1>. HIDE DEF n
  <1>5. ASSUME NEW i \in DOMAIN payload', payload'[i].role = "assistant",
               NEW k \in DOMAIN payload'[i].ids
        PROVE  /\ i + k \in DOMAIN payload' =>
                     payload'[i + k] = ToolResult(payload'[i].ids[k])
               /\ i # n + 1 => i + k \in DOMAIN payload'
    <2>1. payload'[i].ids \in Seq(Nat \X Nat) /\ k \in Nat /\ k >= 1
      <3>1. payload'[i] \in Messages
        BY <1>3
      <3>2. payload'[i].ids \in Seq(Nat \X Nat)
        BY <3>1 DEF Messages
      <3>3. k \in 1 .. Len(payload'[i].ids)
        BY <3>2
      <3> QED
        BY <3>2, <3>3
    <2>2. CASE i = n + 1
      BY <1>1, <1>3, <2>1, <2>2
    <2>3. CASE i \in 1 .. n
      <3>1. /\ i \in DOMAIN payload /\ payload[i] = payload'[i]
        BY <1>3, <2>3
      <3>2. i + k \in DOMAIN payload /\ payload[i + k] = ToolResult(payload[i].ids[k])
        BY <1>1, <1>2, <1>5, <3>1 DEF DialogInv
      <3> QED
        BY <1>1, <1>3, <3>1, <3>2
    <2> QED
      BY <1>1, <1>3, <2>2, <2>3
  <1>6. ASSUME NEW i \in DOMAIN payload', payload'[i].role = "tool"
        PROVE  \E j \in 1 .. i - 1 :
                  payload'[j].role = "assistant" /\ i - j \in DOMAIN payload'[j].ids
    <2>1. i \in 1 .. n
      BY <1>1, <1>3, <1>6 DEF Assistant
    <2>2. PICK j \in 1 .. i - 1 :
             payload[j].role = "assistant" /\ i - j \in DOMAIN payload[j].ids
      BY <1>1, <1>3, <1>6, <2>1 DEF DialogInv
    <2>3. j \in 1 .. n /\ payload'[j] = payload[j]
      BY <1>1, <1>3, <2>1
    <2> QED
      BY <2>2, <2>3
  <1> QED
    BY <1>1, <1>2, <1>3, <1>4, <1>5, <1>6 DEF DialogInv

\* A result goes where its call expects it.
LEMMA ExecuteDialogInv ==
    ASSUME Inv, ExecuteTool
    PROVE  DialogInv'
  <1>. DEFINE n == Len(payload)
              id == reply[callIdx + 1]
              at == CallsAt
  <1>1. /\ payload \in Seq(Messages) /\ n \in Nat /\ reply \in Seq(Nat \X Nat)
        /\ callIdx \in Nat /\ callIdx < Len(reply) /\ Len(reply) \in Nat
        /\ callIdx + 1 \in DOMAIN reply /\ id \in Nat \X Nat
        /\ DialogInv
    BY DEF Inv, TypeOK, ExecuteTool
  <1>2. ToolResult(id) \in Messages /\ ToolResult(id).role = "tool"
    BY <1>1 DEF ToolResult, Messages
  <1>3. /\ pc = "tools" /\ pc' = "tools" /\ callIdx' = callIdx + 1
        /\ reply' = reply /\ payload' = Append(payload, ToolResult(id))
    BY DEF ExecuteTool
  <1>4. /\ payload' \in Seq(Messages) /\ Len(payload') = n + 1
        /\ DOMAIN payload' = 1 .. n + 1 /\ DOMAIN payload = 1 .. n
        /\ payload'[n + 1] = ToolResult(id)
        /\ \A i \in 1 .. n : payload'[i] = payload[i]
    BY <1>1, <1>2, <1>3
  <1>5. /\ CallsAt' = at /\ at = n - callIdx /\ at \in 1 .. n
        /\ payload[at].role = "assistant" /\ payload[at].ids = reply
        /\ payload[at] = Assistant(reply)
    BY <1>1, <1>3, <1>4 DEF DialogInv, CallsAt, Assistant
  <1>. HIDE DEF n, id, at
  <1>6. ASSUME NEW i \in DOMAIN payload', payload'[i].role = "assistant",
               NEW k \in DOMAIN payload'[i].ids
        PROVE  /\ i + k \in DOMAIN payload' =>
                     payload'[i + k] = ToolResult(payload'[i].ids[k])
               /\ i # at => i + k \in DOMAIN payload'
    <2>1. i \in 1 .. n /\ payload[i] = payload'[i] /\ payload[i] \in Messages
      <3>1. i \in 1 .. n
        BY <1>1, <1>2, <1>4, <1>6
      <3> QED
        BY <1>1, <1>4, <3>1
    <2>2. k \in Nat /\ k >= 1 /\ i + k \in Nat
      <3>1. payload'[i].ids \in Seq(Nat \X Nat)
        BY <2>1 DEF Messages
      <3>2. k \in 1 .. Len(payload'[i].ids)
        BY <3>1
      <3>3. k \in Nat /\ k >= 1
        BY <3>1, <3>2
      <3>4. i \in Nat
        BY <1>1, <2>1
      <3> QED
        BY <3>3, <3>4
    <2>3. /\ i + k \in DOMAIN payload => payload[i + k] = ToolResult(payload[i].ids[k])
          /\ i # at => i + k \in DOMAIN payload
      BY <1>1, <1>3, <1>4, <1>6, <2>1 DEF DialogInv, at
    <2>4. CASE i + k \in 1 .. n
      BY <1>1, <1>4, <2>1, <2>3, <2>4
    <2>5. CASE i + k = n + 1
      <3>0. i + k \notin DOMAIN payload
        BY <1>1, <1>4, <2>5
      <3>1. i = at /\ k = callIdx + 1
        BY <1>1, <1>5, <2>2, <2>3, <2>5, <3>0
      <3>2. payload'[i].ids[k] = id
        BY <1>5, <2>1, <3>1 DEF id
      <3> QED
        BY <1>4, <2>5, <3>1, <3>2
    <2>6. CASE i + k > n + 1
      <3>1. i + k \notin 1 .. n + 1
        BY <1>1, <2>2, <2>6
      <3>2. i = at
        BY <1>1, <1>4, <2>2, <2>3, <2>6
      <3> QED
        BY <1>4, <3>1, <3>2
    <2>7. i + k \in 1 .. n \/ i + k = n + 1 \/ i + k > n + 1
      <3>0. n \in Nat /\ i \in 1 .. n
        BY <1>1, <2>1, Zenon
      <3>1. i \in Nat /\ i >= 1
        BY <3>0
      <3>2. \A a, b, m \in Nat :
               a >= 1 => (a + b \in 1 .. m \/ a + b = m + 1 \/ a + b > m + 1)
        OBVIOUS
      <3>3. k \in Nat
        BY <2>2
      <3> QED
        BY <3>0, <3>1, <3>2, <3>3
    <2> QED
      BY <2>4, <2>5, <2>6, <2>7
  <1>7. ASSUME NEW i \in DOMAIN payload', payload'[i].role = "tool"
        PROVE  \E j \in 1 .. i - 1 :
                  payload'[j].role = "assistant" /\ i - j \in DOMAIN payload'[j].ids
    <2>1. CASE i = n + 1
      <3>1. at \in 1 .. i - 1 /\ i - at = callIdx + 1 /\ payload'[at] = payload[at]
        BY <1>1, <1>4, <1>5, <2>1
      <3> QED
        BY <1>1, <1>5, <3>1
    <2>2. CASE i \in 1 .. n
      <3>1. PICK j \in 1 .. i - 1 :
               payload[j].role = "assistant" /\ i - j \in DOMAIN payload[j].ids
        BY <1>1, <1>4, <1>7, <2>2 DEF DialogInv
      <3>2. j \in 1 .. n /\ payload'[j] = payload[j]
        BY <1>1, <1>4, <2>2
      <3> QED
        BY <3>1, <3>2
    <2> QED
      BY <1>1, <1>4, <2>1, <2>2
  <1>8. CallsAt' >= 1 /\ payload'[CallsAt'] = Assistant(reply')
    BY <1>1, <1>3, <1>4, <1>5
  <1> QED
    BY <1>1, <1>3, <1>5, <1>6, <1>7, <1>8 DEF DialogInv

\* Every step preserves the groups of calls and results.
LEMMA NextDialogInv ==
    ASSUME Inv, [Next]_vars
    PROVE  DialogInv'
  <1>. USE DEF control, dialog, traffic
  <1>1. CASE payload' = payload /\ pc \notin {"served", "tools"} /\ pc' # "tools"
                /\ (pc' = "served" => callIdx' = 0)
    BY <1>1 DEF Inv, DialogInv
  <1>2. CASE StartRound \/ Send \/ TransportError \/ InvalidResponse
                \/ (\E s \in {"transient", "permanent"} : StatusError(s))
                \/ (\E n \in 0 .. MaxCalls : ValidResponse(n))
    BY <1>1, <1>2 DEF StartRound, Send, StatusError, TransportError, InvalidResponse,
                      ValidResponse, CallbackRaises, Finish
  <1>3. CASE Answer \/ RefuseRound
    BY <1>3 DEF Answer, RefuseRound, Finish, Inv, DialogInv
  <1>4. CASE AcceptRound
    BY <1>4, AcceptDialogInv
  <1>5. CASE ExecuteTool
    BY <1>5, ExecuteDialogInv
  <1>6. CASE EndRound
    <2>. DEFINE n == Len(payload)
    <2>1. /\ payload \in Seq(Messages) /\ n \in Nat /\ DOMAIN payload = 1 .. n
          /\ reply \in Seq(Nat \X Nat) /\ Len(reply) \in Nat
          /\ pc = "tools" /\ pc' = "round" /\ payload' = payload /\ callIdx = Len(reply)
          /\ DialogInv
      BY <1>6 DEF Inv, TypeOK, EndRound
    <2>2. CallsAt + Len(reply) = n /\ CallsAt >= 1 /\ payload[CallsAt].ids = reply
      BY <2>1 DEF DialogInv, CallsAt, Assistant
    <2>3. \A k \in DOMAIN reply : CallsAt + k \in DOMAIN payload
      BY <2>1, <2>2 DEF CallsAt
    <2> HIDE DEF n
    <2> QED
      BY <2>1, <2>2, <2>3 DEF DialogInv
  <1>7. CASE UNCHANGED vars
    BY <1>7 DEF vars, Inv, DialogInv, CallsAt
  <1> QED
    BY <1>2, <1>3, <1>4, <1>5, <1>6, <1>7 DEF Next

----------------------------------------------------------------------------
(* The invariant and what follows from it *)

\* The inductive invariant holds in every reachable state.
THEOREM ChatInvariant == Spec => []Inv
  <1>1. Inv /\ [Next]_vars => Inv'
    BY NextTypeOK, NextRest, NextNoticeInv, NextLogInv, NextDialogInv DEF Inv
  <1> QED
    BY InitInv, <1>1, PTL DEF Spec

\* Whatever the service answers, one chat call posts at most
\* (MaxToolRounds + 1) * (MaxTransientRetries + 1) requests, and at most one per
\* round when pacing is off.
THEOREM ChatAttemptsBounded == Spec => []AttemptsBounded
  <1>1. Inv => AttemptsBounded
    <2> SUFFICES ASSUME Inv PROVE AttemptsBounded
      OBVIOUS
    <2>. DEFINE K == AttemptsPerRound
    <2>1. /\ K \in Nat /\ round \in Nat /\ round <= MaxToolRounds
          /\ attempts \in Nat /\ retry \in Nat /\ retry < K
          /\ attempts <= round * K + retry + 1
      BY AttemptsPerRoundPositive DEF Inv, TypeOK, RoundInv, BudgetInv
    <2>2. /\ round * K \in Nat
          /\ round * K <= MaxToolRounds * K
          /\ (MaxToolRounds + 1) * K = MaxToolRounds * K + K
          /\ MaxToolRounds * K \in Nat
      BY <2>1, BudgetArithmetic
    <2>3. attempts <= (MaxToolRounds + 1) * K
      BY <2>1, <2>2
    <2> QED
      BY <2>3 DEF AttemptsBounded
  <1> QED
    BY <1>1, ChatInvariant, PTL

\* An answer, or the refusal of one more round, never leaves a tool result that
\* no request carried.
THEOREM ChatConsumesToolResults == Spec => []ToolResultsConsumed
  <1>1. Inv => ToolResultsConsumed
    BY DEF Inv, SentInv
  <1> QED
    BY <1>1, ChatInvariant, PTL

\* Whenever a request goes out, each tool call in it has its own result behind
\* it, and each result its call.
THEOREM ChatAnswersToolCalls == Spec => []ToolCallsAnswered
  <1>1. Inv => ToolCallsAnswered
    BY DEF Inv, DialogInv, ToolCallsAnswered
  <1> QED
    BY <1>1, ChatInvariant, PTL

\* The rows are the attempts, in order, with the rounds and retries they say.
THEOREM ChatRowsFollowAttempts == Spec => []RowsFollowAttempts
  <1>1. Inv => RowsFollowAttempts
    BY DEF Inv, LogInv
  <1> QED
    BY <1>1, ChatInvariant, PTL

\* A transient failure ends the call only when every retry was used.
THEOREM ChatUsesItsRetries == Spec => []RetriesAreUsedUp
  <1>1. Inv => RetriesAreUsedUp
    BY DEF Inv, LogInv
  <1> QED
    BY <1>1, ChatInvariant, PTL

\* A noisy caller hears of each wait once.
THEOREM ChatAnnouncesWaitsOnce == Spec => []OneNoticePerWait
  <1>1. Inv => OneNoticePerWait
    BY DEF Inv, NoticeInv
  <1> QED
    BY <1>1, ChatInvariant, PTL
=============================================================================
