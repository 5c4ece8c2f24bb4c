---------------------------- MODULE RequestPacer ----------------------------
(***************************************************************************)
(* providers/pacing.py: one RequestPacer shared by every handler thread of *)
(* the process.  A thread calls wait() before each provider request and    *)
(* defer_for() after a transient failure.  Both run under one lock, and    *)
(* wait() sleeps while it holds it.                                        *)
(*                                                                         *)
(* Time is a discrete clock.  MaxTime and MaxCalls only bound the state    *)
(* space: past MaxTime the clock moves only for a sleeping thread.         *)
(***************************************************************************)
EXTENDS Integers, Sequences

CONSTANTS Callers,      \* threads that share the pacer
          Free,         \* the lock's value when nobody holds it
          RpmInterval,  \* 60 / requests_per_minute, 0 when that is unset
          MinInterval,  \* provider_min_interval, 0 when it is unset
          Cooldowns,    \* arguments given to defer_for
          EarlyWake,    \* how much before its deadline sleep() may return
          MaxTime,      \* bound on the clock while nobody sleeps
          MaxCalls      \* bound on the calls of one thread

ASSUME FreeAssumption == Free \notin Callers
ASSUME IntervalAssumption == RpmInterval \in Nat /\ MinInterval \in Nat
ASSUME CooldownAssumption == Cooldowns \subseteq Nat
ASSUME BoundAssumption == EarlyWake \in Nat /\ MaxTime \in Nat /\ MaxCalls \in Nat

VARIABLES now,          \* time.monotonic()
          lock,         \* holder of self._lock, or Free
          lastStarted,  \* self._last_started
          blockedUntil, \* self._blocked_until
          pc,           \* what each thread does
          deadline,     \* local of wait()
          cooldown,     \* argument of the defer_for() a thread is in
          calls,        \* calls each thread has made
          starts        \* history: the admission times, in order

vars == <<now, lock, lastStarted, blockedUntil, pc, deadline, cooldown, calls,
          starts>>

----------------------------------------------------------------------------
Never == -1

Later(a, b) == IF a >= b THEN a ELSE b

\* RequestPacer.interval: the stricter of the two configured constraints.
Interval == Later(RpmInterval, MinInterval)

DeadlineNoInterval(t) == Later(t, blockedUntil)   \* mutant

\* The first admission is immediate, later ones are Interval apart, and none
\* falls inside a cooldown.
Deadline(t) ==
    Later(IF lastStarted = Never THEN t ELSE lastStarted + Interval, blockedUntil)

AdmissionByClock(c) == now                        \* mutant

\* started = max(clock(), deadline): a sleep cut short does not move the
\* admission before its deadline.
Admission(c) == Later(now, deadline[c])

TypeOK ==
    /\ now \in Nat
    /\ lock \in Callers \cup {Free}
    /\ lastStarted \in Nat \cup {Never}
    /\ blockedUntil \in Nat
    /\ pc \in [Callers -> {"idle", "waiting", "holding", "deferring"}]
    /\ deadline \in [Callers -> Nat]
    /\ cooldown \in [Callers -> Nat]
    /\ calls \in [Callers -> Nat]
    /\ starts \in Seq(Nat)

Init ==
    /\ now = 0
    /\ lock = Free
    /\ lastStarted = Never
    /\ blockedUntil = 0
    /\ pc = [c \in Callers |-> "idle"]
    /\ deadline = [c \in Callers |-> 0]
    /\ cooldown = [c \in Callers |-> 0]
    /\ calls = [c \in Callers |-> 0]
    /\ starts = <<>>

----------------------------------------------------------------------------
Asleep(c) == pc[c] = "holding" /\ now + EarlyWake < deadline[c]

Tick ==
    /\ now < MaxTime \/ \E c \in Callers : Asleep(c)
    /\ now' = now + 1
    /\ UNCHANGED <<lock, lastStarted, blockedUntil, pc, deadline, cooldown, calls,
                   starts>>

\* A thread is about to send a request and reaches "with self._lock".
CallWait(c) ==
    /\ pc[c] = "idle"
    /\ calls[c] < MaxCalls
    /\ pc' = [pc EXCEPT ![c] = "waiting"]
    /\ calls' = [calls EXCEPT ![c] = @ + 1]
    /\ UNCHANGED <<now, lock, lastStarted, blockedUntil, deadline, cooldown, starts>>

\* wait() takes the lock, reads the clock and computes its deadline; from here
\* until FinishWait it sleeps with the lock held.
EnterWait(c) ==
    /\ pc[c] = "waiting"
    /\ lock = Free
    /\ lock' = c
    /\ deadline' = [deadline EXCEPT ![c] = Deadline(now)]
    /\ pc' = [pc EXCEPT ![c] = "holding"]
    /\ UNCHANGED <<now, lastStarted, blockedUntil, cooldown, calls, starts>>

FinishWaitKeepsLock(c) ==                          \* mutant
    /\ pc[c] = "holding"
    /\ now + EarlyWake >= deadline[c]
    /\ lastStarted' = Admission(c)
    /\ starts' = Append(starts, Admission(c))
    /\ pc' = [pc EXCEPT ![c] = "idle"]
    /\ UNCHANGED <<now, lock, blockedUntil, deadline, cooldown, calls>>

\* The sleep ends, possibly a rounding error early, and the admission is
\* recorded no earlier than the deadline; the lock is released.
FinishWait(c) ==
    /\ pc[c] = "holding"
    /\ now + EarlyWake >= deadline[c]
    /\ lastStarted' = Admission(c)
    /\ starts' = Append(starts, Admission(c))
    /\ lock' = Free
    /\ pc' = [pc EXCEPT ![c] = "idle"]
    /\ deadline' = [deadline EXCEPT ![c] = 0]
    /\ UNCHANGED <<now, blockedUntil, cooldown, calls>>

\* A thread whose request failed transiently reaches defer_for's lock.
CallDefer(c) ==
    /\ pc[c] = "idle"
    /\ calls[c] < MaxCalls
    /\ \E s \in Cooldowns : cooldown' = [cooldown EXCEPT ![c] = s]
    /\ pc' = [pc EXCEPT ![c] = "deferring"]
    /\ calls' = [calls EXCEPT ![c] = @ + 1]
    /\ UNCHANGED <<now, lock, lastStarted, blockedUntil, deadline, starts>>

DeferUnlocked(c) ==                                \* mutant
    /\ pc[c] = "deferring"
    /\ blockedUntil' = Later(blockedUntil, now + cooldown[c])
    /\ pc' = [pc EXCEPT ![c] = "idle"]
    /\ cooldown' = [cooldown EXCEPT ![c] = 0]
    /\ UNCHANGED <<now, lock, lastStarted, deadline, calls, starts>>

DeferOverwriting(c) ==                             \* mutant
    /\ pc[c] = "deferring"
    /\ lock = Free
    /\ blockedUntil' = now + cooldown[c]
    /\ pc' = [pc EXCEPT ![c] = "idle"]
    /\ cooldown' = [cooldown EXCEPT ![c] = 0]
    /\ UNCHANGED <<now, lock, lastStarted, deadline, calls, starts>>

\* The body of defer_for, one critical section.
Defer(c) ==
    /\ pc[c] = "deferring"
    /\ lock = Free
    /\ blockedUntil' = Later(blockedUntil, now + cooldown[c])
    /\ pc' = [pc EXCEPT ![c] = "idle"]
    /\ cooldown' = [cooldown EXCEPT ![c] = 0]
    /\ UNCHANGED <<now, lock, lastStarted, deadline, calls, starts>>

Next ==
    \/ Tick
    \/ \E c \in Callers : CallWait(c)
    \/ \E c \in Callers : EnterWait(c)
    \/ \E c \in Callers : FinishWait(c)
    \/ \E c \in Callers : CallDefer(c)
    \/ \E c \in Callers : Defer(c)

Spec == Init /\ [][Next]_vars

----------------------------------------------------------------------------
(* Properties *)

\* Any two admissions of the process, by whichever threads, are at least the
\* effective interval apart (the pacer's reason to exist).
StartsAreSpaced ==
    \A i, j \in DOMAIN starts : i < j => starts[i] + Interval <= starts[j]

\* No admission falls inside a cooldown that is already recorded, although the
\* deadline it follows was computed before the sleep.
NoStartInCooldown == [][starts' # starts => lastStarted' >= blockedUntil]_vars

\* RequestPacer is a PacedStarts: the threads, the lock and the clock disappear.
Abstract == INSTANCE PacedStarts
ImplementsPacedStarts == Abstract!Spec

----------------------------------------------------------------------------
(* The inductive invariant behind StartsAreSpaced and the refinement *)

LockInv == \A c \in Callers : pc[c] = "holding" <=> lock = c

\* What a sleeping thread computed stays valid because nobody else can move
\* lastStarted or blockedUntil while it holds the lock.
DeadlineInv ==
    \A c \in Callers : pc[c] = "holding" =>
        /\ deadline[c] >= blockedUntil
        /\ lastStarted # Never => deadline[c] >= lastStarted + Interval

HistoryInv ==
    /\ starts = <<>> <=> lastStarted = Never
    /\ starts # <<>> => starts[Len(starts)] = lastStarted

Inv == TypeOK /\ LockInv /\ DeadlineInv /\ HistoryInv /\ StartsAreSpaced

=============================================================================
