---------------------------- MODULE Conversation ----------------------------
(***************************************************************************)
(* The heart of TerraAI: Sopel runs every IRC event in a thread of its     *)
(* own, and the threads meet only in the SQLite database (plugin.py,       *)
(* bot.py, context/manager.py, database.py).  An AI message reads the      *)
(* opt-in flag, composes its context, asks the provider without holding    *)
(* anything, and saves the exchange afterwards; opt-outs, clears,          *)
(* compactions, a plugin reload or a crash may come in between.            *)
(*                                                                         *)
(* One network ("server") is modelled, since every query is keyed by it.   *)
(* A database transaction is one step: Database.tla is where that is shown.*)
(***************************************************************************)
EXTENDS Integers, FiniteSets

CONSTANTS Events,     \* IRC events, each handled once by one thread
          Nicks, Channels,
          Admins,     \* nicks Sopel treats as admins
          Kinds,      \* kinds of events that occur
          MaxLoads    \* bound on the number of times the plugin is loaded

AllKinds == {"message", "admin", "ai", "optin", "optout", "clear", "compact"}
AiKinds == {"message", "admin", "ai"}

ASSUME KindAssumption == Kinds \subseteq AllKinds
ASSUME AdminAssumption == Admins \subseteq Nicks
ASSUME BoundAssumption == MaxLoads \in Nat

VARIABLES
  \* the database file
  optedIn,      \* users.opted_in, TRUE for a nick without a row
  history,      \* conversation_history, a set of rows with increasing ids
  nextId,       \* AUTOINCREMENT of conversation_history
  sessions,     \* sessions.active_session_id, NoSession without a row
  compactions,  \* compactions: the old session and its number of rows
  \* the process
  terra,        \* which TerraAI the global _terrai holds, 0 for None
  open,         \* TerraAI instances whose database is open
  loads,        \* TerraAI instances made so far
  \* one thread per event
  pc,           \* where its handler is
  event,        \* what it handles
  inst,         \* the TerraAI it fetched
  ctx,          \* the context it composed: session and rows
  result,       \* how it ended
  \* history variables
  lastSession,  \* session ids given out so far
  retired,      \* sessions that clear or compact replaced
  saved,        \* events whose exchange was committed
  exposed       \* per nick, events past the guard when it last opted out

store == <<optedIn, history, nextId, sessions, compactions>>
process == <<terra, open, loads>>
thread == <<pc, event, inst, ctx, result>>
ghost == <<lastSession, retired, saved, exposed>>
vars == <<store, process, thread, ghost>>

----------------------------------------------------------------------------
NoSession == 0
NoEvent == [kind |-> "none"]
NoContext == [session |-> NoSession, rows |-> {}]

Roles == {"user", "assistant"}

Row(id, e, role, s) ==
    [id |-> id, exchange |-> e, nick |-> event[e].nick, channel |-> event[e].channel,
     role |-> role, session |-> s]

\* Handlers that have passed the opt-in guard and may still save an exchange.
PastGuard == {"composing", "policy", "asking", "saving"}

InFlight(n) == {e \in Events : pc[e] \in PastGuard /\ event[e].nick = n}

SessionRows(c, s) == {r \in history : r.channel = c /\ r.session = s}

Init ==
    /\ optedIn = [n \in Nicks |-> TRUE]
    /\ history = {} /\ nextId = 1
    /\ sessions = [c \in Channels |-> NoSession]
    /\ compactions = {}
    /\ terra = 0 /\ open = {} /\ loads = 0
    /\ pc = [e \in Events |-> "idle"]
    /\ event = [e \in Events |-> NoEvent]
    /\ inst = [e \in Events |-> 0]
    /\ ctx = [e \in Events |-> NoContext]
    /\ result = [e \in Events |-> "none"]
    /\ lastSession = NoSession
    /\ retired = {} /\ saved = {}
    /\ exposed = [n \in Nicks |-> {}]

----------------------------------------------------------------------------
(* The plugin's life: setup, shutdown in two steps, and a crash *)

Setup ==
    /\ terra = 0 /\ open = {}
    /\ loads < MaxLoads
    /\ loads' = loads + 1
    /\ terra' = loads + 1
    /\ open' = {loads + 1}
    /\ UNCHANGED <<store, thread, ghost>>

\* shutdown clears the global first, so that new events fail, ...
Unload ==
    /\ terra # 0
    /\ terra' = 0
    /\ UNCHANGED <<store, open, loads, thread, ghost>>

\* ... and then closes the database under the threads still running.
CloseDatabase ==
    /\ terra = 0 /\ open # {}
    /\ open' = {}
    /\ UNCHANGED <<store, terra, loads, thread, ghost>>

\* The process dies: threads are gone, what was committed stays.
Crash ==
    /\ open # {} \/ \E e \in Events : pc[e] \notin {"idle", "done"}
    /\ terra' = 0 /\ open' = {}
    /\ pc' = [e \in Events |-> IF pc[e] = "idle" THEN "idle" ELSE "done"]
    /\ result' = [e \in Events |-> IF pc[e] \in {"idle", "done"} THEN result[e] ELSE "crashed"]
    /\ UNCHANGED <<store, loads, event, inst, ctx, ghost>>

----------------------------------------------------------------------------
(* Steps every handler has *)

Goto(e, step) == pc' = [pc EXCEPT ![e] = step]

End(e, how) == Goto(e, "done") /\ result' = [result EXCEPT ![e] = how]

\* Sopel starts a thread for an event.  An opt-out names a nick or nobody, and
\* then means its own.
Receive(e) ==
    /\ pc[e] = "idle" /\ terra # 0
    /\ \E k \in Kinds, n \in Nicks, c \in Channels, t \in Nicks, named \in BOOLEAN :
          /\ named => k = "optout"
          /\ ~named => t = n
          /\ event' = [event EXCEPT ![e] = [kind |-> k, nick |-> n, channel |-> c,
                                            target |-> t, named |-> named]]
    /\ Goto(e, "received")
    /\ UNCHANGED <<store, process, inst, ctx, result, ghost>>

\* require_admin, and cmd_optout's check for an argument, whosever nick it is.
NeedsAdmin(ev) == ev.kind \in {"admin", "compact"} \/ ev.named

\* cmd_optout fetches its instance before it checks.
Refused(e) ==
    /\ NeedsAdmin(event[e]) /\ event[e].nick \notin Admins
    /\ event[e].kind = "optout" => terra # 0

\* _get_terra: the handler keeps the instance it finds; a refusal is only said.
Enter(e) ==
    /\ pc[e] = "received"
    /\ IF Refused(e)
       THEN Goto(e, "saying") /\ UNCHANGED inst
       ELSE /\ terra # 0
            /\ inst' = [inst EXCEPT ![e] = terra]
            /\ Goto(e, IF event[e].kind \in AiKinds THEN "guarding" ELSE "commanding")
    /\ UNCHANGED <<store, process, event, ctx, result, ghost>>

RaisesAtRecord ==                                          \* mutant
    {"guarding", "composing", "policy", "asking", "saving", "commanding", "recording"}

RaisesOfProvider == {"asking"}                             \* mutant

RaisesAt == {"guarding", "composing", "policy", "asking", "saving", "commanding"}

\* "TerraAI not initialized", "Database is closed", any sqlite3 or provider
\* error: the decorator reports it once and the handler is over.
Raise(e) ==
    /\ \/ pc[e] = "received" /\ terra = 0 /\ ~Refused(e)
       \/ pc[e] \in RaisesAt
    /\ End(e, "error")
    /\ UNCHANGED <<store, process, event, inst, ctx, ghost>>

\* The reply goes out.
Say(e) ==
    /\ pc[e] = "saying"
    /\ End(e, "reply")
    /\ UNCHANGED <<store, process, event, inst, ctx, ghost>>

----------------------------------------------------------------------------
(* AI messages *)

\* cmd_ai and cmd_admin check the guard on the global instance, the rules on the
\* instance they fetched.
GuardInstance(e) == IF event[e].kind \in {"ai", "admin"} THEN terra ELSE inst[e]

PassesAlways(e) == TRUE                                    \* mutant

\* should_respond; messages of the bot itself are left out.
Passes(e) == optedIn[event[e].nick]

Guard(e) ==
    /\ pc[e] = "guarding"
    /\ GuardInstance(e) \in open
    /\ IF Passes(e)
       THEN /\ Goto(e, IF event[e].kind = "ai" THEN "policy" ELSE "composing")
            /\ UNCHANGED result
       ELSE End(e, "silent")
    /\ UNCHANGED <<store, process, event, inst, ctx, ghost>>

\* _get_active_session: the channel's session, or a new one.
ActiveSession(c) == IF sessions[c] = NoSession THEN lastSession + 1 ELSE sessions[c]

OpenSession(c) ==
    /\ sessions' = [sessions EXCEPT ![c] = ActiveSession(c)]
    /\ lastSession' = IF sessions[c] = NoSession THEN lastSession + 1 ELSE lastSession

ContextRowsOfNick(e, s) ==                                 \* mutant
    {r \in history : r.channel = event[e].channel /\ r.nick = event[e].nick}

ContextRows(e, s) == SessionRows(event[e].channel, s)

\* compose_context: HistoryStore.recent in one transaction.
Compose(e) ==
    /\ pc[e] = "composing"
    /\ inst[e] \in open
    /\ LET c == event[e].channel IN
       /\ OpenSession(c)
       /\ ctx' = [ctx EXCEPT ![e] = [session |-> ActiveSession(c),
                                     rows |-> ContextRows(e, ActiveSession(c))]]
    /\ Goto(e, "policy")
    /\ UNCHANGED <<optedIn, history, nextId, compactions, process, event, inst, result,
                   retired, saved, exposed>>

\* The disabled tools are read once, before the provider is asked.
ReadPolicy(e) ==
    /\ pc[e] = "policy"
    /\ inst[e] \in open
    /\ Goto(e, "asking")
    /\ UNCHANGED <<store, process, event, inst, ctx, result, ghost>>

\* provider.chat and up to two concise rewrites returned text; no database
\* access in between, and the text is cut to the limit if need be.
ProviderAnswers(e) ==
    /\ pc[e] = "asking"
    /\ Goto(e, IF event[e].kind = "ai" THEN "recording" ELSE "saving")
    /\ UNCHANGED <<store, process, event, inst, ctx, result, ghost>>

ExchangeNickless(e, s) ==                                  \* mutant
    {Row(nextId, e, "user", s),
     [Row(nextId + 1, e, "assistant", s) EXCEPT !.nick = CHOOSE n \in Nicks : n # event[e].nick]}

\* Both turns are stored under the nick of the user who asked.
Exchange(e, s) == {Row(nextId, e, "user", s), Row(nextId + 1, e, "assistant", s)}

SaveIntoComposed(e) ==                                     \* mutant
    /\ pc[e] = "saving"
    /\ inst[e] \in open
    /\ history' = history \cup Exchange(e, ctx[e].session)
    /\ nextId' = nextId + 2
    /\ saved' = saved \cup {e}
    /\ Goto(e, "recording")
    /\ UNCHANGED <<optedIn, sessions, compactions, process, event, inst, ctx, result,
                   lastSession, retired, exposed>>

\* save_exchange: the session is resolved in the transaction that writes.
Save(e) ==
    /\ pc[e] = "saving"
    /\ inst[e] \in open
    /\ LET c == event[e].channel IN
       /\ OpenSession(c)
       /\ history' = history \cup Exchange(e, ActiveSession(c))
    /\ nextId' = nextId + 2
    /\ saved' = saved \cup {e}
    /\ Goto(e, "recording")
    /\ UNCHANGED <<optedIn, compactions, process, event, inst, ctx, result, retired, exposed>>

\* Performance statistics: a failure, also of a closed database, is reported as
\* recoverable and the reply is still said.
Record(e) ==
    /\ pc[e] = "recording"
    /\ Goto(e, "saying")
    /\ UNCHANGED <<store, process, event, inst, ctx, result, ghost>>

----------------------------------------------------------------------------
(* Commands: one transaction each *)

Command(e, kind) == pc[e] = "commanding" /\ event[e].kind = kind /\ inst[e] \in open

OptIn(e) ==
    /\ Command(e, "optin")
    /\ optedIn' = [optedIn EXCEPT ![event[e].nick] = TRUE]
    /\ Goto(e, "saying")
    /\ UNCHANGED <<history, nextId, sessions, compactions, process, event, inst, ctx, result,
                   ghost>>

OptOutFlagOnly(e) ==                                       \* mutant
    /\ Command(e, "optout")
    /\ optedIn' = [optedIn EXCEPT ![event[e].target] = FALSE]
    /\ exposed' = [exposed EXCEPT ![event[e].target] = InFlight(event[e].target)]
    /\ Goto(e, "saying")
    /\ UNCHANGED <<history, nextId, sessions, compactions, process, event, inst, ctx, result,
                   lastSession, retired, saved>>

\* UserStore.opt_out: the flag and the nick's history, in one transaction.
OptOut(e) ==
    /\ Command(e, "optout")
    /\ LET n == event[e].target IN
       /\ optedIn' = [optedIn EXCEPT ![n] = FALSE]
       /\ history' = {r \in history : r.nick # n}
       /\ exposed' = [exposed EXCEPT ![n] = InFlight(n)]
    /\ Goto(e, "saying")
    /\ UNCHANGED <<nextId, sessions, compactions, process, event, inst, ctx, result,
                   lastSession, retired, saved>>

\* A fresh session replaces the channel's, if it has one.
Rotate(c) ==
    IF sessions[c] = NoSession
    THEN UNCHANGED <<sessions, lastSession, retired>>
    ELSE /\ sessions' = [sessions EXCEPT ![c] = lastSession + 1]
         /\ lastSession' = lastSession + 1
         /\ retired' = retired \cup {sessions[c]}

\* handle_clear.
Clear(e) ==
    /\ Command(e, "clear")
    /\ Rotate(event[e].channel)
    /\ Goto(e, "saying")
    /\ UNCHANGED <<optedIn, history, nextId, compactions, process, event, inst, ctx, result,
                   saved, exposed>>

CompactKeepsSession(e) ==                                  \* mutant
    /\ Command(e, "compact")
    /\ LET c == event[e].channel IN
       compactions' =
          IF sessions[c] = NoSession THEN compactions
          ELSE compactions \cup {[session |-> sessions[c],
                                  before |-> Cardinality(SessionRows(c, sessions[c]))]}
    /\ Goto(e, "saying")
    /\ UNCHANGED <<optedIn, history, nextId, sessions, process, event, inst, ctx, result, ghost>>

\* ContextManager.compact: the old session's rows are counted and left in place.
Compact(e) ==
    /\ Command(e, "compact")
    /\ LET c == event[e].channel IN
       /\ Rotate(c)
       /\ compactions' =
             IF sessions[c] = NoSession THEN compactions
             ELSE compactions \cup {[session |-> sessions[c],
                                     before |-> Cardinality(SessionRows(c, sessions[c]))]}
    /\ Goto(e, "saying")
    /\ UNCHANGED <<optedIn, history, nextId, process, event, inst, ctx, result, saved,
                   exposed>>

----------------------------------------------------------------------------
Step(e) ==
    \/ Enter(e) \/ Raise(e) \/ Say(e)
    \/ Guard(e) \/ Compose(e) \/ ReadPolicy(e) \/ ProviderAnswers(e) \/ Save(e) \/ Record(e)
    \/ OptIn(e) \/ OptOut(e) \/ Clear(e) \/ Compact(e)

Next ==
    \/ Setup \/ Unload \/ CloseDatabase \/ Crash
    \/ \E e \in Events : Receive(e) \/ Step(e)

Spec == Init /\ [][Next]_vars

\* A thread that was started keeps running; the provider's calls time out.
FairSpec == Spec /\ \A e \in Events : WF_vars(Step(e))

----------------------------------------------------------------------------
(* Properties *)

EventRecords ==
    [kind : AllKinds, nick : Nicks, channel : Channels, target : Nicks, named : BOOLEAN]

RowRecords == [id : Nat, exchange : Events, nick : Nicks, channel : Channels, role : Roles,
               session : Nat]

TypeOK ==
    /\ optedIn \in [Nicks -> BOOLEAN]
    /\ history \subseteq RowRecords /\ IsFiniteSet(history)
    /\ nextId \in Nat
    /\ sessions \in [Channels -> Nat]
    /\ compactions \subseteq [session : Nat, before : Nat]
    /\ terra \in Nat /\ open \subseteq Nat /\ loads \in Nat
    /\ pc \in [Events -> {"idle", "received", "guarding", "commanding", "composing", "policy",
                          "asking", "saving", "recording", "saying", "done"}]
    /\ event \in [Events -> EventRecords \cup {NoEvent}]
    /\ inst \in [Events -> Nat]
    /\ ctx \in [Events -> [session : Nat, rows : SUBSET RowRecords]]
    /\ result \in [Events -> {"none", "reply", "silent", "error", "crashed"}]
    /\ lastSession \in Nat
    /\ retired \subseteq Nat /\ saved \subseteq Events
    /\ exposed \in [Nicks -> SUBSET Events]

\* A nick that is opted out has history only from messages that had passed the
\* guard when it opted out: no message received later is stored, and everything
\* older is gone (UserStore.opt_out against handle_ai_message).
OnlyInFlightOutlivesOptOut ==
    \A r \in history : ~optedIn[r.nick] => r.exchange \in exposed[r.nick]

\* A thread that passed the guard before an opt-out is counted as exposed by it.
PrivacyInv ==
    /\ OnlyInFlightOutlivesOptOut
    /\ \A e \in Events :
          /\ pc[e] # "idle" => event[e] \in EventRecords
          /\ pc[e] \in PastGuard /\ ~optedIn[event[e].nick] => e \in exposed[event[e].nick]

\* Session ids are given out in order, to one channel each, and are not in use
\* once they are retired.
SessionInv ==
    /\ \A c \in Channels :
          /\ sessions[c] <= lastSession /\ sessions[c] \notin retired
          /\ \A d \in Channels : sessions[c] = sessions[d] /\ c # d => sessions[c] = NoSession
    /\ \A s \in retired : s \in 1..lastSession

\* The two turns of an exchange stay together: whatever crashes, opt-outs and
\* rotations happen, a stored user turn has its assistant turn right after it,
\* in the same session, and the other way round.
ExchangesAreWhole ==
    \A r \in history :
        \E q \in history :
            /\ {r.role, q.role} = Roles
            /\ q.id = IF r.role = "user" THEN r.id + 1 ELSE r.id - 1
            /\ <<q.exchange, q.nick, q.channel, q.session>>
                  = <<r.exchange, r.nick, r.channel, r.session>>

\* The context given to the provider is the channel's one session, in whole
\* exchanges: never half a conversation, never another channel's or a mix of
\* sessions, although saves and rotations run beside it.
ContextIsOneSession ==
    \A e \in Events : \A r \in ctx[e].rows :
        /\ r.channel = event[e].channel
        /\ r.session = ctx[e].session
        /\ \E q \in ctx[e].rows : q.exchange = r.exchange /\ q.role # r.role

\* A session that clear or compact replaced is over: it never becomes active
\* again and never grows, so that no later context contains it.
RetiredSessionsAreOver ==
    [][\A s \in retired :
          /\ s \in retired'
          /\ \A c \in Channels : sessions'[c] # s
          /\ {r \in history' : r.session = s} \subseteq history]_vars

\* A reply to a message was saved before, an error was not.
Remembered(e) ==
    event[e].kind \in {"message", "admin"} =>
        /\ result[e] = "reply" /\ ~Refused(e) => e \in saved
        /\ result[e] = "error" => e \notin saved

\* An AI reply that went out had its exchange committed before, and a handler
\* that reported an error committed none: statistics that fail after the save
\* do not turn the answer into an error.
RepliesAreRemembered == \A e \in Events : Remembered(e)

\* A compaction is the last word on its session: it is recorded once, counts
\* whole exchanges, and no message that was in flight adds a row to the session
\* afterwards (ContextManager.compact counts and rotates in one transaction).
CompactionsAreFinal ==
    \A k \in compactions :
        /\ Cardinality({r \in history : r.session = k.session}) <= k.before
        /\ k.before % 2 = 0
        /\ \A other \in compactions : other.session = k.session => other = k

\* A row's id is below the next one and its own, its session was given out, and
\* a session in use has rows of its own channel only.
RowsInv ==
    /\ \A r \in history :
          /\ r.id < nextId /\ r.session \in 1..lastSession
          /\ \A q \in history : q.id = r.id => q = r
          /\ \A c \in Channels : sessions[c] = r.session => r.channel = c
    /\ ExchangesAreWhole

\* A context is composed by a thread that has begun.
ContextInv ==
    /\ \A e \in Events : pc[e] = "idle" => ctx[e].rows = {}
    /\ ContextIsOneSession

\* What was compacted was retired in the same transaction.
CompactionInv ==
    /\ \A k \in compactions : k.session \in retired
    /\ CompactionsAreFinal

\* Where a handler is tells whether it has saved an exchange, and where the
\* handlers of messages and of commands can be.
Progress(e) ==
    /\ pc[e] # "done" => result[e] = "none"
    /\ pc[e] \in PastGuard \cup {"guarding", "recording"} => event[e].kind \in AiKinds
    /\ pc[e] = "commanding" => event[e].kind \notin AiKinds
    /\ pc[e] \in {"idle", "received"} \cup RaisesAt => e \notin saved
    /\ pc[e] \in {"recording", "saying"} /\ event[e].kind \in {"message", "admin"} =>
          e \in saved \/ Refused(e)

ProgressInv == RepliesAreRemembered /\ \A e \in Events : Progress(e)

Inv ==
    /\ TypeOK /\ PrivacyInv /\ SessionInv
    /\ RowsInv /\ ContextInv /\ CompactionInv /\ ProgressInv

\* Every event that got a thread ends in a reply, an error, silence for an
\* opted-out nick, or the death of the process.
EveryEventEnds == \A e \in Events : pc[e] = "received" ~> pc[e] = "done"

\* user.py:39: "You are opted out. Your history has been forgotten."
OptOutForgets == \A r \in history : optedIn[r.nick]
=============================================================================
