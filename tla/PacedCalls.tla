----------------------------- MODULE PacedCalls -----------------------------
(***************************************************************************)
(* Several calls of OpenRouterProvider.chat at once, each in the handler   *)
(* thread of its message, over the one RequestPacer of the process.  The   *)
(* pacer is RequestPacer, whose actions are reused; what is added is the   *)
(* part of chat() that decides when a thread calls it: rounds, attempts    *)
(* and the Retry-After header of a refused request.                        *)
(***************************************************************************)
EXTENDS RequestPacer

CONSTANTS MaxRounds,     \* bound on the tool rounds of one call, 3 in the code
          MaxRetries,    \* MAX_TRANSIENT_RETRIES, 2
          Headers,       \* the Retry-After headers a refusal may carry
          MaxChats       \* bound on the calls of one thread

ASSUME ChatAssumption == MaxRounds \in Nat /\ MaxRetries \in Nat /\ MaxChats \in Nat

\* A header is absent, unreadable, a number of seconds or a date.
ASSUME HeaderAssumption ==
    Headers \subseteq [kind : {"absent", "malformed", "seconds", "date"}, value : Int]

VARIABLES stage,         \* where the thread's chat() is
          round,         \* round_idx
          attempt,       \* retry_idx
          due,           \* history: when the refused request may be repeated
          chats          \* calls of chat() a thread has made

chatVars == <<stage, round, attempt, due, chats>>

----------------------------------------------------------------------------
\* A delay is used only if it is finite and not negative, a date in the past
\* means at once, and no usable header means no delay.
RetryAfter(h, t) ==
    CASE h.kind = "seconds" -> IF h.value >= 0 THEN h.value ELSE 0
      [] h.kind = "date"    -> Later(0, h.value - t)
      [] OTHER              -> 0

RetryDelayOfPacer(h, t) == Interval                        \* mutant

\* A retry comes no earlier than the service asks, nor than the interval.
RetryDelay(h, t) == Later(Interval, RetryAfter(h, t))

\* When the service says the request may be repeated, if it says so.
Asked(h, t) ==
    CASE h.kind = "seconds" -> t + h.value
      [] h.kind = "date"    -> h.value
      [] OTHER              -> t

PacingOn == Interval > 0

ChatsInit ==
    /\ Init
    /\ stage = [c \in Callers |-> "idle"]
    /\ round = [c \in Callers |-> 0]
    /\ attempt = [c \in Callers |-> 0]
    /\ due = [c \in Callers |-> 0]
    /\ chats = [c \in Callers |-> 0]

\* chat() starts and its first request asks the pacer.
BeginChat(c) ==
    /\ stage[c] = "idle"
    /\ chats[c] < MaxChats
    /\ CallWait(c)
    /\ stage' = [stage EXCEPT ![c] = "pacing"]
    /\ chats' = [chats EXCEPT ![c] = @ + 1]
    /\ UNCHANGED <<round, attempt, due>>

\* The pacer admits the request; it is under way until something is received.
Admit(c) ==
    /\ stage[c] = "pacing"
    /\ FinishWait(c)
    /\ stage' = [stage EXCEPT ![c] = "sent"]
    /\ UNCHANGED <<round, attempt, due, chats>>

CanRetry(c) == PacingOn /\ attempt[c] < MaxRetries

\* A transient status: the pacer is told the delay before the attempt is
\* repeated.  The delay counts from here, not from when the pacer hears of it.
Refused(c) ==
    /\ stage[c] = "sent"
    /\ CanRetry(c)
    /\ CallDefer(c)
    /\ \E h \in Headers :
          /\ cooldown'[c] = RetryDelay(h, now)
          /\ due' = [due EXCEPT ![c] = Asked(h, now)]
    /\ stage' = [stage EXCEPT ![c] = "retrying"]
    /\ UNCHANGED <<round, attempt, chats>>

DeferRetry(c) ==
    /\ stage[c] = "retrying"
    /\ Defer(c)
    /\ UNCHANGED chatVars

\* The next attempt asks the pacer in its turn, like any other request.
Retry(c) ==
    /\ stage[c] = "retrying"
    /\ CallWait(c)
    /\ stage' = [stage EXCEPT ![c] = "pacing"]
    /\ attempt' = [attempt EXCEPT ![c] = @ + 1]
    /\ UNCHANGED <<round, due, chats>>

\* The model asked for tools, they were executed, and a new round begins.
NextRound(c) ==
    /\ stage[c] = "sent"
    /\ round[c] < MaxRounds
    /\ CallWait(c)
    /\ stage' = [stage EXCEPT ![c] = "pacing"]
    /\ round' = [round EXCEPT ![c] = @ + 1]
    /\ attempt' = [attempt EXCEPT ![c] = 0]
    /\ due' = [due EXCEPT ![c] = 0]
    /\ UNCHANGED chats

\* An answer, any failure that is not retried, or the notice of a retry: it
\* comes after the pacer has the delay, and the callback may raise.
EndChat(c) ==
    /\ \/ stage[c] = "sent"
       \/ stage[c] = "retrying" /\ pc[c] = "idle"
    /\ stage' = [stage EXCEPT ![c] = "idle"]
    /\ round' = [round EXCEPT ![c] = 0]
    /\ attempt' = [attempt EXCEPT ![c] = 0]
    /\ due' = [due EXCEPT ![c] = 0]
    /\ UNCHANGED <<vars, chats>>

ChatsNext ==
    \/ Tick /\ UNCHANGED chatVars
    \/ \E c \in Callers : BeginChat(c)
    \/ \E c \in Callers : EnterWait(c) /\ UNCHANGED chatVars
    \/ \E c \in Callers : Admit(c)
    \/ \E c \in Callers : Refused(c)
    \/ \E c \in Callers : DeferRetry(c)
    \/ \E c \in Callers : Retry(c)
    \/ \E c \in Callers : NextRound(c)
    \/ \E c \in Callers : EndChat(c)

ChatsSpec == ChatsInit /\ [][ChatsNext]_<<vars, chatVars>>

\* Time passes, a sleep ends, a free lock is granted, a thread goes on, and a
\* request under way ends: the HTTP client has a timeout.
ChatsFairness ==
    /\ WF_<<vars, chatVars>>(Tick /\ UNCHANGED chatVars)
    /\ \A c \in Callers :
          /\ WF_<<vars, chatVars>>(EnterWait(c) /\ UNCHANGED chatVars)
          /\ WF_<<vars, chatVars>>(Admit(c))
          /\ WF_<<vars, chatVars>>(DeferRetry(c))
          /\ WF_<<vars, chatVars>>(Retry(c))
          /\ WF_<<vars, chatVars>>(Refused(c) \/ NextRound(c) \/ EndChat(c))

FairChats == ChatsSpec /\ ChatsFairness

----------------------------------------------------------------------------
(* Properties *)

ChatTypeOK ==
    /\ stage \in [Callers -> {"idle", "pacing", "sent", "retrying"}]
    /\ round \in [Callers -> 0 .. MaxRounds]
    /\ attempt \in [Callers -> 0 .. MaxRetries]
    /\ due \in [Callers -> Int]
    /\ chats \in [Callers -> 0 .. MaxChats]

\* A refused request is not repeated before the delay
\* its refusal asked for, counted from the refusal, whatever cooldowns the
\* other calls impose and however long the pacer's lock was taken.
RetryWaitsOut ==
    [][\A c \in Callers : stage[c] = "pacing" /\ stage'[c] = "sent" =>
           lastStarted' >= due[c]]_<<vars, chatVars>>

\* Every chat ends, although each of its requests may queue behind threads that
\* sleep with the pacer's lock held and every refusal delays all threads.
EveryChatEnds == \A c \in Callers : stage[c] # "idle" ~> stage[c] = "idle"

----------------------------------------------------------------------------
(* The inductive invariant behind RetryWaitsOut *)

\* From the refusal on, either the delay is still to be recorded or the pacer
\* already blocks everybody until the retry is due.
DueInv ==
    \A c \in Callers :
        /\ stage[c] = "idle" => due[c] = 0
        /\ stage[c] = "retrying" /\ pc[c] = "deferring" => due[c] <= now + cooldown[c]
        /\ stage[c] = "retrying" /\ pc[c] = "idle" => due[c] <= blockedUntil
        /\ stage[c] = "pacing" => due[c] <= blockedUntil

\* A thread is inside the pacer exactly while its chat waits for it, and only a
\* chat with a retry left prepares one.
StageInv ==
    \A c \in Callers :
        /\ stage[c] = "pacing" <=> pc[c] \in {"waiting", "holding"}
        /\ pc[c] = "deferring" => stage[c] = "retrying"
        /\ stage[c] = "retrying" => attempt[c] < MaxRetries

ChatInv == ChatTypeOK /\ StageInv /\ DueInv

\* The pacer's own invariant holds in the composition, together with the
\* agreement of each chat with what it left in the pacer.
ChatsInv == Inv /\ ChatInv
=============================================================================
