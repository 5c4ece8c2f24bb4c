-------------------------- MODULE PacedCallsProofs --------------------------
(***************************************************************************)
(* The pacer's guarantees for every set of threads, every interval and     *)
(* every cooldown, and those of any number of chats over it.               *)
(*                                                                         *)
(* The argument about the pacer: while a thread sleeps it holds the lock,  *)
(* so the deadline it computed stays at or after lastStarted + Interval    *)
(* and blockedUntil (DeadlineInv), and the latest start is the last entry  *)
(* of the history (HistoryInv).  The chats use the pacer as RequestPacer   *)
(* describes, so what is proved of it holds for them, and a refused        *)
(* request is never repeated before the service allows it.                 *)
(***************************************************************************)
EXTENDS PacedCalls, TLAPS

USE FreeAssumption, IntervalAssumption, CooldownAssumption, BoundAssumption

\* Later is the maximum of two numbers.
LEMMA LaterBounds ==
    ASSUME NEW a \in Int, NEW b \in Int
    PROVE  /\ Later(a, b) >= a
           /\ Later(a, b) >= b
           /\ Later(a, b) \in {a, b}
  BY DEF Later

\* The effective interval is a natural number.
LEMMA IntervalNat == Interval \in Nat
  BY DEF Interval, Later

\* A deadline respects the interval and the cooldown it was computed from.
LEMMA DeadlineBounds ==
    ASSUME TypeOK, NEW t \in Nat
    PROVE  /\ Deadline(t) \in Nat
           /\ Deadline(t) >= blockedUntil
           /\ lastStarted # Never => Deadline(t) >= lastStarted + Interval
  BY IntervalNat DEF TypeOK, Deadline, Later, Never

\* What a thread that leaves wait() records respects both constraints.
LEMMA AdmissionBounds ==
    ASSUME Inv, NEW c \in Callers, pc[c] = "holding"
    PROVE  /\ Admission(c) \in Nat
           /\ Admission(c) >= blockedUntil
           /\ lastStarted # Never => Admission(c) >= lastStarted + Interval
  <1>1. /\ now \in Nat /\ deadline[c] \in Nat /\ blockedUntil \in Nat
        /\ deadline[c] >= blockedUntil
        /\ lastStarted # Never => deadline[c] >= lastStarted + Interval
        /\ lastStarted \in Nat \cup {Never}
    BY DEF Inv, TypeOK, DeadlineInv
  <1> QED
    BY <1>1, IntervalNat DEF Admission, Later, Never

\* The invariant holds initially.
LEMMA InitInv == Init => Inv
  BY DEF Init, Inv, TypeOK, LockInv, DeadlineInv, HistoryInv, StartsAreSpaced, Never

\* Appending an admission that is an interval after the last one keeps the
\* history spaced.
LEMMA AppendSpaced ==
    ASSUME Inv, NEW t \in Nat,
           lastStarted # Never => t >= lastStarted + Interval,
           starts' = Append(starts, t)
    PROVE  /\ StartsAreSpaced'
           /\ starts' \in Seq(Nat) /\ starts' # <<>> /\ starts'[Len(starts')] = t
  <1>. DEFINE n == Len(starts)
  <1>1. /\ starts \in Seq(Nat)
        /\ lastStarted \in Nat \cup {Never}
        /\ n \in Nat
        /\ Interval \in Nat
    BY IntervalNat DEF Inv, TypeOK
  <1>2. /\ starts' \in Seq(Nat)
        /\ Len(starts') = n + 1
        /\ DOMAIN starts' = 1 .. (n + 1)
        /\ starts'[n + 1] = t
        /\ \A k \in 1 .. n : starts'[k] = starts[k]
    BY <1>1
  <1>3. StartsAreSpaced'
    <2> SUFFICES ASSUME NEW i \in 1 .. (n + 1), NEW j \in 1 .. (n + 1), i < j
                 PROVE  starts'[i] + Interval <= starts'[j]
      BY <1>1, <1>2 DEF StartsAreSpaced, Interval
    <2>1. CASE j <= n
      BY <2>1, <1>1, <1>2 DEF Inv, StartsAreSpaced
    <2>2. CASE j = n + 1
      <3>1. i \in 1 .. n /\ starts # <<>>
        BY <2>2, <1>1
      <3>2. lastStarted # Never /\ lastStarted = starts[n]
        BY <3>1 DEF Inv, HistoryInv
      <3>3. starts[i] \in Nat /\ starts[n] \in Nat
        BY <3>1, <1>1
      <3>4. starts[i] <= starts[n]
        <4>1. CASE i = n
          BY <4>1, <3>3
        <4>2. CASE i < n
          <5>1. i \in DOMAIN starts /\ n \in DOMAIN starts
            BY <3>1, <1>1
          <5>2. starts[i] + Interval <= starts[n]
            BY <4>2, <5>1 DEF Inv, StartsAreSpaced
          <5> QED
            BY <5>2, <3>3, <1>1
        <4> QED
          BY <4>1, <4>2, <3>1, <1>1
      <3> QED
        BY <3>1, <3>2, <3>3, <3>4, <2>2, <1>1, <1>2
    <2> QED
      BY <2>1, <2>2, <1>1
  <1> QED
    BY <1>1, <1>2, <1>3

\* Every step preserves the invariant.
LEMMA NextInv == Inv /\ [Next]_vars => Inv'
  <1> SUFFICES ASSUME Inv, [Next]_vars
               PROVE  Inv'
    OBVIOUS
  <1>. USE DEF Inv
  <1>1. CASE Tick
    BY <1>1 DEF Tick, TypeOK, LockInv, DeadlineInv, HistoryInv, StartsAreSpaced
  <1>2. ASSUME NEW c \in Callers, CallWait(c)
        PROVE  Inv'
    BY <1>2 DEF CallWait, TypeOK, LockInv, DeadlineInv, HistoryInv, StartsAreSpaced
  <1>3. ASSUME NEW c \in Callers, EnterWait(c)
        PROVE  Inv'
    <2>1. /\ Deadline(now) \in Nat
          /\ Deadline(now) >= blockedUntil
          /\ lastStarted # Never => Deadline(now) >= lastStarted + Interval
      BY DeadlineBounds DEF TypeOK
    <2>2. TypeOK' /\ LockInv' /\ HistoryInv' /\ StartsAreSpaced'
      BY <1>3, <2>1 DEF EnterWait, TypeOK, LockInv, HistoryInv, StartsAreSpaced
    <2>3. DeadlineInv'
      BY <1>3, <2>1 DEF EnterWait, TypeOK, LockInv, DeadlineInv, Interval
    <2> QED
      BY <2>2, <2>3
  <1>4. ASSUME NEW c \in Callers, FinishWait(c)
        PROVE  Inv'
    <2>1. /\ Admission(c) \in Nat
          /\ lastStarted # Never => Admission(c) >= lastStarted + Interval
      BY <1>4, AdmissionBounds DEF FinishWait
    <2>2. /\ StartsAreSpaced'
          /\ starts' \in Seq(Nat) /\ starts' # <<>>
          /\ starts'[Len(starts')] = Admission(c)
      BY <1>4, <2>1, AppendSpaced DEF FinishWait
    <2>3. TypeOK'
      BY <1>4, <2>1, <2>2 DEF FinishWait, TypeOK
    <2>4. LockInv' /\ DeadlineInv'
      BY <1>4 DEF FinishWait, TypeOK, LockInv, DeadlineInv
    <2>5. HistoryInv'
      BY <1>4, <2>1, <2>2 DEF FinishWait, HistoryInv, Never
    <2> QED
      BY <2>2, <2>3, <2>4, <2>5
  <1>5. ASSUME NEW c \in Callers, CallDefer(c)
        PROVE  Inv'
    <2>1. PICK s \in Cooldowns : cooldown' = [cooldown EXCEPT ![c] = s]
      BY <1>5 DEF CallDefer
    <2>2. cooldown' \in [Callers -> Nat]
      BY <1>5, <2>1 DEF CallDefer, TypeOK
    <2>3. TypeOK'
      BY <1>5, <2>2 DEF CallDefer, TypeOK
    <2>4. LockInv' /\ DeadlineInv' /\ HistoryInv' /\ StartsAreSpaced'
      BY <1>5 DEF CallDefer, TypeOK, LockInv, DeadlineInv, HistoryInv, StartsAreSpaced
    <2> QED
      BY <2>3, <2>4
  <1>6. ASSUME NEW c \in Callers, Defer(c)
        PROVE  Inv'
    <2>1. Later(blockedUntil, now + cooldown[c]) \in Nat
      BY DEF TypeOK, Later
    <2>2. TypeOK' /\ LockInv' /\ HistoryInv' /\ StartsAreSpaced'
      BY <1>6, <2>1 DEF Defer, TypeOK, LockInv, HistoryInv, StartsAreSpaced
    <2>3. DeadlineInv'
      BY <1>6 DEF Defer, TypeOK, LockInv, DeadlineInv
    <2> QED
      BY <2>2, <2>3
  <1>7. CASE UNCHANGED vars
    BY <1>7 DEF vars, TypeOK, LockInv, DeadlineInv, HistoryInv, StartsAreSpaced
  <1> QED
    BY <1>1, <1>2, <1>3, <1>4, <1>5, <1>6, <1>7 DEF Next

\* The inductive invariant holds in every reachable state.
THEOREM PacerInvariant == Spec => []Inv
  BY InitInv, NextInv, PTL DEF Spec

\* For every number of threads and every interval, any two admissions are at
\* least the effective interval apart.
THEOREM PacerSpacesStarts == Spec => []StartsAreSpaced
  <1>1. Inv => StartsAreSpaced
    BY DEF Inv
  <1> QED
    BY <1>1, PacerInvariant, PTL

\* No admission is recorded inside a cooldown already in force.
THEOREM PacerHonoursCooldown == Spec => NoStartInCooldown
  <1>1. Inv /\ [Next]_vars => [starts' # starts => lastStarted' >= blockedUntil]_vars
    <2> SUFFICES ASSUME Inv, [Next]_vars, starts' # starts
                 PROVE  lastStarted' >= blockedUntil
      OBVIOUS
    <2>1. ASSUME NEW c \in Callers, FinishWait(c)
          PROVE  lastStarted' >= blockedUntil
      BY <2>1, AdmissionBounds DEF FinishWait
    <2> QED
      BY <2>1 DEF Next, Tick, CallWait, EnterWait, CallDefer, Defer, vars
  <1> QED
    BY <1>1, PacerInvariant, PTL DEF Spec, NoStartInCooldown

\* RequestPacer implements PacedStarts: an admission is a Start, a recorded
\* cooldown an Extend, and everything else stutters.
THEOREM PacerImplementsPacedStarts == Spec => ImplementsPacedStarts
  <1>1. Init => Abstract!Init
    BY DEF Init, Abstract!Init, Never, Abstract!Never
  <1>2. Inv /\ [Next]_vars => [Abstract!Next]_(Abstract!vars)
    <2> SUFFICES ASSUME Inv, [Next]_vars
                 PROVE  [Abstract!Next]_(Abstract!vars)
      OBVIOUS
    <2>1. ASSUME NEW c \in Callers, FinishWait(c)
          PROVE  Abstract!Start
      <3>1. /\ Admission(c) \in Nat
            /\ Admission(c) >= blockedUntil
            /\ lastStarted # Never => Admission(c) >= lastStarted + Interval
        BY <2>1, AdmissionBounds DEF FinishWait
      <3> QED
        BY <3>1, <2>1 DEF FinishWait, Abstract!Start, Abstract!Never, Never
    <2>2. ASSUME NEW c \in Callers, Defer(c)
          PROVE  Abstract!Extend
      BY <2>2, LaterBounds DEF Defer, Abstract!Extend, Inv, TypeOK
    <2>3. CASE Tick \/ UNCHANGED vars
      BY <2>3 DEF Tick, vars, Abstract!vars
    <2>4. ASSUME NEW c \in Callers, CallWait(c) \/ EnterWait(c) \/ CallDefer(c)
          PROVE  UNCHANGED Abstract!vars
      BY <2>4 DEF CallWait, EnterWait, CallDefer, Abstract!vars
    <2> QED
      BY <2>1, <2>2, <2>3, <2>4 DEF Next, Abstract!Next
  <1> QED
    BY <1>1, <1>2, PacerInvariant, PTL DEF Spec, ImplementsPacedStarts, Abstract!Spec

----------------------------------------------------------------------------
(* Chats over the pacer *)

allVars == <<vars, chatVars>>

PcValues == {"idle", "waiting", "holding", "deferring"}

\* The delay of a retry is a natural number and reaches the time asked for.
LEMMA DelayReaches ==
    ASSUME NEW h \in Headers, NEW t \in Nat
    PROVE  /\ RetryDelay(h, t) \in Nat
           /\ Asked(h, t) \in Int
           /\ Asked(h, t) <= t + RetryDelay(h, t)
  <1>1. h.value \in Int /\ h.kind \in {"absent", "malformed", "seconds", "date"}
    BY HeaderAssumption
  <1>2. Interval \in Nat
    BY IntervalAssumption DEF Interval, Later
  <1>3. RetryAfter(h, t) \in Nat /\ Asked(h, t) \in Int /\ Asked(h, t) <= t + RetryAfter(h, t)
    <2>1. CASE h.kind = "seconds"
      BY <1>1, <2>1 DEF RetryAfter, Asked
    <2>2. CASE h.kind = "date"
      BY <1>1, <2>2 DEF RetryAfter, Asked, Later
    <2>3. CASE h.kind \notin {"seconds", "date"}
      BY <1>1, <2>3 DEF RetryAfter, Asked
    <2> QED
      BY <2>1, <2>2, <2>3
  <1> QED
    BY <1>2, <1>3 DEF RetryDelay, Later

\* Every step of the chats is a step of the pacer or leaves it alone.
LEMMA ChatStepIsPacerStep ==
    [ChatsNext]_allVars => [Next]_vars
  BY DEF ChatsNext, allVars, Next, BeginChat, Admit, Refused, DeferRetry, Retry,
         NextRound, EndChat

\* The chats of any number of threads are one of the environments RequestPacer
\* allows, so its invariant holds for them.
THEOREM ChatsUsePacer == ChatsSpec => Spec
  <1>1. ChatsInit => Init
    BY DEF ChatsInit
  <1> QED
    BY <1>1, ChatStepIsPacerStep, PTL DEF ChatsSpec, Spec, allVars

\* The initial state satisfies the chats' invariant.
LEMMA ChatInitInv == ChatsInit => ChatInv
  BY ChatAssumption DEF ChatsInit, Init, ChatInv, ChatTypeOK, StageInv, DueInv

\* Every step preserves the chats' invariant, given the pacer's.
LEMMA ChatNextInv == Inv /\ ChatInv /\ [ChatsNext]_allVars => ChatInv'
  <1> SUFFICES ASSUME Inv, ChatInv, [ChatsNext]_allVars
               PROVE  ChatInv'
    OBVIOUS
  <1>. USE DEF ChatInv
  <1>a. TypeOK
    BY DEF Inv
  <1>1. CASE Tick /\ UNCHANGED chatVars
    <2>1. /\ now' = now + 1 /\ now \in Nat
          /\ \A d \in Callers : due[d] \in Int /\ cooldown[d] \in Nat
          /\ UNCHANGED <<stage, round, attempt, due, chats, pc, cooldown, blockedUntil>>
      BY <1>1, <1>a DEF Tick, chatVars, TypeOK, ChatTypeOK
    <2>2. ChatTypeOK' /\ StageInv'
      BY <2>1 DEF ChatTypeOK, StageInv
    <2>3. DueInv'
      BY <2>1 DEF DueInv
    <2> QED
      BY <2>2, <2>3
  <1>2. ASSUME NEW c \in Callers, BeginChat(c)
        PROVE  ChatInv'
    <2>1. /\ stage[c] = "idle" /\ pc[c] = "idle" /\ chats[c] < MaxChats
          /\ pc' = [pc EXCEPT ![c] = "waiting"]
          /\ stage' = [stage EXCEPT ![c] = "pacing"]
          /\ chats' = [chats EXCEPT ![c] = @ + 1]
          /\ pc \in [Callers -> PcValues] /\ blockedUntil \in Nat
          /\ UNCHANGED <<round, attempt, due, now, cooldown, blockedUntil>>
      BY <1>2, <1>a DEF BeginChat, CallWait, TypeOK, PcValues
    <2>2. ChatTypeOK'
      BY <2>1, ChatAssumption DEF ChatTypeOK
    <2>3. StageInv'
      BY <2>1 DEF ChatTypeOK, StageInv
    <2>4. DueInv'
      BY <2>1 DEF ChatTypeOK, DueInv
    <2> QED
      BY <2>2, <2>3, <2>4
  <1>3. ASSUME NEW c \in Callers, EnterWait(c), UNCHANGED chatVars
        PROVE  ChatInv'
    BY <1>3, <1>a DEF EnterWait, chatVars, TypeOK, ChatTypeOK, StageInv, DueInv
  <1>4. ASSUME NEW c \in Callers, Admit(c)
        PROVE  ChatInv'
    BY <1>4, <1>a DEF Admit, FinishWait, TypeOK, ChatTypeOK, StageInv, DueInv
  <1>5. ASSUME NEW c \in Callers, Refused(c)
        PROVE  ChatInv'
    <2>1. PICK h \in Headers : /\ cooldown'[c] = RetryDelay(h, now)
                               /\ due' = [due EXCEPT ![c] = Asked(h, now)]
      BY <1>5 DEF Refused
    <2>2. /\ Asked(h, now) \in Int
          /\ Asked(h, now) <= now + cooldown'[c]
      BY <2>1, <1>a, DelayReaches DEF TypeOK
    <2>3. /\ stage[c] = "sent" /\ pc[c] = "idle"
          /\ stage' = [stage EXCEPT ![c] = "retrying"]
          /\ pc' = [pc EXCEPT ![c] = "deferring"]
          /\ \A d \in Callers \ {c} : cooldown'[d] = cooldown[d]
          /\ attempt[c] < MaxRetries
          /\ UNCHANGED <<now, blockedUntil, round, attempt, chats>>
      BY <1>5, <1>a DEF Refused, CanRetry, CallDefer, TypeOK
    <2>4. ChatTypeOK' /\ StageInv'
      BY <2>1, <2>2, <2>3, <1>a DEF TypeOK, ChatTypeOK, StageInv
    <2>5. DueInv'
      BY <2>1, <2>2, <2>3, <1>a DEF TypeOK, ChatTypeOK, StageInv, DueInv
    <2> QED
      BY <2>4, <2>5
  <1>6. ASSUME NEW c \in Callers, DeferRetry(c)
        PROVE  ChatInv'
    <2>1. /\ blockedUntil' \in Nat
          /\ blockedUntil' >= blockedUntil
          /\ blockedUntil' >= now + cooldown[c]
      BY <1>6, <1>a DEF DeferRetry, Defer, Later, TypeOK
    <2>2. ChatTypeOK' /\ StageInv'
      BY <1>6, <1>a DEF DeferRetry, Defer, chatVars, TypeOK, ChatTypeOK, StageInv
    <2>3. DueInv'
      <3>1. /\ pc[c] = "deferring" /\ due[c] <= now + cooldown[c]
            /\ now + cooldown[c] \in Nat /\ blockedUntil \in Nat
            /\ pc' = [pc EXCEPT ![c] = "idle"] /\ pc \in [Callers -> PcValues]
            /\ cooldown' = [cooldown EXCEPT ![c] = 0] /\ cooldown \in [Callers -> Nat]
            /\ now' = now /\ now \in Nat
            /\ UNCHANGED chatVars
        BY <1>6, <1>a DEF DeferRetry, Defer, TypeOK, DueInv, PcValues
      <3>2. \A d \in Callers : due[d] \in Int
        BY DEF ChatTypeOK
      <3> QED
        BY <2>1, <3>1, <3>2 DEF chatVars, DueInv
    <2> QED
      BY <2>2, <2>3
  <1>7. ASSUME NEW c \in Callers, Retry(c)
        PROVE  ChatInv'
    <2>1. /\ stage[c] = "retrying" /\ pc[c] = "idle"
          /\ pc' = [pc EXCEPT ![c] = "waiting"]
          /\ stage' = [stage EXCEPT ![c] = "pacing"]
          /\ attempt' = [attempt EXCEPT ![c] = @ + 1]
          /\ pc \in [Callers -> PcValues]
          /\ UNCHANGED <<round, due, chats, now, cooldown, blockedUntil>>
      BY <1>7, <1>a DEF Retry, CallWait, TypeOK, PcValues
    <2>2. ChatTypeOK'
      BY <2>1, ChatAssumption DEF ChatTypeOK, StageInv
    <2>3. StageInv' /\ DueInv'
      BY <2>1 DEF ChatTypeOK, StageInv, DueInv
    <2> QED
      BY <2>2, <2>3
  <1>8. ASSUME NEW c \in Callers, NextRound(c)
        PROVE  ChatInv'
    BY <1>8, <1>a, ChatAssumption
       DEF NextRound, CallWait, TypeOK, ChatTypeOK, StageInv, DueInv
  <1>9. ASSUME NEW c \in Callers, EndChat(c)
        PROVE  ChatInv'
    <2>1. /\ stage[c] \in {"sent", "retrying"} /\ pc[c] \notin {"waiting", "holding", "deferring"}
          /\ stage' = [stage EXCEPT ![c] = "idle"]
          /\ round' = [round EXCEPT ![c] = 0]
          /\ attempt' = [attempt EXCEPT ![c] = 0]
          /\ due' = [due EXCEPT ![c] = 0]
          /\ UNCHANGED <<chats, pc, now, cooldown, blockedUntil>>
      BY <1>9, <1>a DEF EndChat, vars, StageInv
    <2>2. ChatTypeOK'
      BY <1>a, <2>1, ChatAssumption DEF ChatTypeOK
    <2>3. StageInv'
      BY <1>a, <2>1 DEF ChatTypeOK, StageInv
    <2>4. DueInv'
      BY <1>a, <2>1 DEF ChatTypeOK, DueInv
    <2> QED
      BY <2>2, <2>3, <2>4
  <1>10. CASE UNCHANGED allVars
    BY <1>10, <1>a DEF allVars, vars, chatVars, TypeOK, ChatTypeOK, StageInv, DueInv
  <1> QED
    BY <1>1, <1>2, <1>3, <1>4, <1>5, <1>6, <1>7, <1>8, <1>9, <1>10 DEF ChatsNext

\* The pacer's invariant and the chats' hold in every reachable state.
THEOREM ChatsInvariant == ChatsSpec => []ChatsInv
  <1>1. ChatsSpec => []Inv
    BY ChatsUsePacer, PacerInvariant, PTL
  <1> QED
    BY <1>1, ChatInitInv, ChatNextInv, PTL DEF ChatsSpec, ChatsInv, allVars

\* A refused request is never admitted again before the time its refusal asked
\* for, whatever the other threads do to the pacer in between.
THEOREM RetriesWaitOut == ChatsSpec => RetryWaitsOut
  <1>1. Inv /\ ChatInv /\ [ChatsNext]_allVars
          => [\A c \in Callers : stage[c] = "pacing" /\ stage'[c] = "sent" =>
                 lastStarted' >= due[c]]_allVars
    <2> SUFFICES ASSUME Inv, ChatInv, ChatsNext, NEW c \in Callers,
                        stage[c] = "pacing", stage'[c] = "sent"
                 PROVE  lastStarted' >= due[c]
      OBVIOUS
    <2>1. PICK d \in Callers : Admit(d)
      BY DEF ChatsNext, chatVars, BeginChat, Refused, DeferRetry, Retry, NextRound,
             EndChat, ChatInv, ChatTypeOK
    <2>2. c = d
      BY <2>1 DEF Admit, ChatInv, ChatTypeOK
    <2>3. /\ lastStarted' = Admission(c)
          /\ deadline[c] \in Nat /\ now \in Nat /\ blockedUntil \in Nat
          /\ deadline[c] >= blockedUntil
      BY <2>1, <2>2 DEF Admit, FinishWait, Inv, TypeOK, DeadlineInv
    <2>4. due[c] \in Int /\ due[c] <= blockedUntil
      BY DEF ChatInv, ChatTypeOK, DueInv
    <2> QED
      BY <2>3, <2>4 DEF Admission, Later
  <1> QED
    BY <1>1, ChatsInvariant, PTL DEF ChatsSpec, ChatsInv, RetryWaitsOut, allVars
=============================================================================
