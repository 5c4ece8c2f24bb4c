------------------------- MODULE ConversationProofs -------------------------
(***************************************************************************)
(* Opt-outs against messages in flight, the life of sessions and of the    *)
(* exchanges, contexts and compactions in them, for any number of events,  *)
(* nicks, channels and plugin loads.                                       *)
(***************************************************************************)
EXTENDS Conversation, TLAPS, FiniteSetTheorems

USE KindAssumption, AdminAssumption, BoundAssumption

\* An empty database and no thread satisfy the invariant.
LEMMA InitInv == Init => Inv
  <1> SUFFICES ASSUME Init PROVE Inv
    OBVIOUS
  <1>1. TypeOK
    <2>1. optedIn \in [Nicks -> BOOLEAN]
      BY DEF Init
    <2>2. NoContext \in [session : Nat, rows : SUBSET RowRecords]
      BY DEF NoContext, NoSession
    <2>3. history \subseteq RowRecords /\ IsFiniteSet(history)
      BY FS_EmptySet DEF Init
    <2> QED
      BY <2>1, <2>2, <2>3 DEF Init, TypeOK, NoSession
  <1>2. PrivacyInv
    BY DEF Init, PrivacyInv, OnlyInFlightOutlivesOptOut, PastGuard
  <1>3. SessionInv
    BY DEF Init, SessionInv, NoSession
  <1>4. RowsInv /\ CompactionInv
    BY DEF Init, RowsInv, ExchangesAreWhole, CompactionInv, CompactionsAreFinal
  <1>5. ContextInv
    BY DEF Init, ContextInv, ContextIsOneSession, NoContext
  <1>6. ProgressInv
    BY DEF Init, ProgressInv, Progress, RepliesAreRemembered, Remembered, NoEvent, PastGuard
  <1> QED
    BY <1>1, <1>2, <1>3, <1>4, <1>5, <1>6 DEF Inv

----------------------------------------------------------------------------
(* What the helpers return *)

\* The fields of an event, for the provers.
LEMMA EventFields ==
    ASSUME NEW ev \in EventRecords
    PROVE  /\ ev.kind \in AllKinds /\ ev.nick \in Nicks
           /\ ev.channel \in Channels /\ ev.target \in Nicks
  BY DEF EventRecords

\* The handler of an event that has begun knows who and where it is.
LEMMA HandledEvent ==
    ASSUME TypeOK, PrivacyInv, NEW e \in Events, pc[e] # "idle"
    PROVE  /\ event[e].kind \in AllKinds /\ event[e].nick \in Nicks
           /\ event[e].channel \in Channels /\ event[e].target \in Nicks
  BY EventFields DEF PrivacyInv

\* Saving an exchange adds two rows, both well formed.
LEMMA ExchangeType ==
    ASSUME TypeOK, PrivacyInv, NEW e \in Events, pc[e] # "idle", NEW s \in Nat
    PROVE  Exchange(e, s) \subseteq RowRecords /\ IsFiniteSet(Exchange(e, s))
  <1>1. ASSUME NEW id \in Nat, NEW role \in Roles PROVE Row(id, e, role, s) \in RowRecords
    BY HandledEvent DEF Row, RowRecords
  <1>2. nextId \in Nat /\ nextId + 1 \in Nat /\ "user" \in Roles /\ "assistant" \in Roles
    BY DEF TypeOK, Roles
  <1>3. ASSUME NEW x, NEW y PROVE IsFiniteSet({x, y})
    <2>1. IsFiniteSet({x})
      BY FS_Singleton
    <2>2. IsFiniteSet({x} \cup {y})
      BY <2>1, FS_AddElement
    <2>3. {x, y} = {x} \cup {y}
      OBVIOUS
    <2> QED
      BY <2>2, <2>3
  <1> QED
    BY <1>1, <1>2, <1>3 DEF Exchange

\* The channel has a session, or gets one.
LEMMA ActiveSessionType ==
    ASSUME TypeOK, NEW c \in Channels
    PROVE  ActiveSession(c) \in Nat
  BY DEF TypeOK, ActiveSession

\* Rotating a session keeps the types of the session table.
LEMMA RotateType ==
    ASSUME TypeOK, NEW c \in Channels, Rotate(c)
    PROVE  /\ sessions' \in [Channels -> Nat]
           /\ lastSession' \in Nat
           /\ retired' \subseteq Nat
  <1>1. CASE sessions[c] = NoSession
    BY <1>1 DEF TypeOK, Rotate
  <1>2. CASE sessions[c] # NoSession
    <2>1. /\ sessions' = [sessions EXCEPT ![c] = lastSession + 1]
          /\ lastSession' = lastSession + 1
          /\ retired' = retired \cup {sessions[c]}
      BY <1>2 DEF Rotate
    <2>2. sessions[c] \in Nat /\ lastSession + 1 \in Nat
      BY DEF TypeOK
    <2> QED
      BY <2>1, <2>2 DEF TypeOK
  <1> QED
    BY <1>1, <1>2

\* The number of rows compact records is a number.
LEMMA CountType ==
    ASSUME TypeOK, NEW c, NEW s
    PROVE  Cardinality(SessionRows(c, s)) \in Nat
  <1>1. IsFiniteSet(SessionRows(c, s))
    BY FS_Subset DEF TypeOK, SessionRows
  <1> QED
    BY <1>1, FS_CardinalityType

----------------------------------------------------------------------------
(* One step *)

\* Every step preserves the types; that a started thread has an event is
\* part of PrivacyInv.
LEMMA NextTypeOK ==
    ASSUME TypeOK, PrivacyInv, [Next]_vars
    PROVE  TypeOK'
  <1>. USE DEF TypeOK, PrivacyInv, Goto, store, process, thread, ghost
  <1>1. CASE Setup
    BY <1>1 DEF Setup
  <1>2. CASE Unload
    BY <1>2 DEF Unload
  <1>3. CASE CloseDatabase
    BY <1>3 DEF CloseDatabase
  <1>4. CASE Crash
    BY <1>4 DEF Crash
  <1>5. ASSUME NEW e \in Events, Receive(e) PROVE TypeOK'
    <2>1. PICK k \in Kinds, n \in Nicks, c \in Channels, t \in Nicks, m \in BOOLEAN :
             /\ m => k = "optout"
             /\ ~m => t = n
             /\ event' = [event EXCEPT ![e] = [kind |-> k, nick |-> n, channel |-> c,
                                               target |-> t, named |-> m]]
      BY <1>5, Zenon DEF Receive
    <2>2. [kind |-> k, nick |-> n, channel |-> c, target |-> t, named |-> m] \in EventRecords
      BY DEF EventRecords
    <2>3. event' \in [Events -> EventRecords \cup {NoEvent}]
      BY <2>1, <2>2
    <2> QED
      BY <1>5, <2>3 DEF Receive
  <1>6. ASSUME NEW e \in Events, Enter(e) PROVE TypeOK'
    <2>1. inst' \in [Events -> Nat]
      BY <1>6 DEF Enter
    <2>2. PICK step \in {"saying", "guarding", "commanding"} : pc' = [pc EXCEPT ![e] = step]
      BY <1>6 DEF Enter
    <2> QED
      BY <1>6, <2>1, <2>2 DEF Enter
  <1>7. ASSUME NEW e \in Events, Raise(e) PROVE TypeOK'
    BY <1>7 DEF End, Raise
  <1>8. ASSUME NEW e \in Events, Say(e) PROVE TypeOK'
    BY <1>8 DEF End, Say
  <1>9. ASSUME NEW e \in Events, Guard(e) PROVE TypeOK'
    BY <1>9 DEF End, Guard
  <1>10. ASSUME NEW e \in Events, Compose(e) PROVE TypeOK'
    <2>. DEFINE c == event[e].channel
    <2>1. c \in Channels /\ ActiveSession(c) \in Nat
      BY <1>10, HandledEvent, ActiveSessionType DEF Compose
    <2>2. sessions' \in [Channels -> Nat] /\ lastSession' \in Nat
      BY <1>10, <2>1 DEF Compose, OpenSession
    <2>3. [session |-> ActiveSession(c), rows |-> ContextRows(e, ActiveSession(c))]
             \in [session : Nat, rows : SUBSET RowRecords]
      BY <2>1 DEF ContextRows, SessionRows
    <2>4. ctx' \in [Events -> [session : Nat, rows : SUBSET RowRecords]]
      BY <1>10, <2>3 DEF Compose
    <2> QED
      BY <1>10, <2>2, <2>4 DEF Compose
  <1>11. ASSUME NEW e \in Events, ReadPolicy(e) PROVE TypeOK'
    BY <1>11 DEF ReadPolicy
  <1>12. ASSUME NEW e \in Events, ProviderAnswers(e) PROVE TypeOK'
    BY <1>12 DEF ProviderAnswers
  <1>13. ASSUME NEW e \in Events, Save(e) PROVE TypeOK'
    <2>. DEFINE c == event[e].channel
    <2>1. c \in Channels /\ ActiveSession(c) \in Nat
      BY <1>13, HandledEvent, ActiveSessionType DEF Save
    <2>2. sessions' \in [Channels -> Nat] /\ lastSession' \in Nat
      BY <1>13, <2>1 DEF Save, OpenSession
    <2>3. Exchange(e, ActiveSession(c)) \subseteq RowRecords
          /\ IsFiniteSet(Exchange(e, ActiveSession(c)))
      BY <1>13, <2>1, ExchangeType DEF Save
    <2>4. history' \subseteq RowRecords /\ IsFiniteSet(history')
      BY <1>13, <2>3, FS_Union DEF Save
    <2> QED
      BY <1>13, <2>2, <2>4 DEF Save
  <1>14. ASSUME NEW e \in Events, Record(e) PROVE TypeOK'
    BY <1>14 DEF Record
  <1>15. ASSUME NEW e \in Events, OptIn(e) PROVE TypeOK'
    BY <1>15 DEF Command, OptIn
  <1>16. ASSUME NEW e \in Events, OptOut(e) PROVE TypeOK'
    <2>1. event[e].target \in Nicks
      BY <1>16, HandledEvent DEF OptOut, Command
    <2>2. optedIn' \in [Nicks -> BOOLEAN]
      BY <1>16, <2>1 DEF OptOut
    <2>3. history' \subseteq RowRecords /\ IsFiniteSet(history')
      BY <1>16, FS_Subset DEF OptOut
    <2>4. exposed' \in [Nicks -> SUBSET Events]
      BY <1>16, <2>1 DEF OptOut, InFlight
    <2> QED
      BY <1>16, <2>2, <2>3, <2>4 DEF OptOut, Command
  <1>17. ASSUME NEW e \in Events, Clear(e) PROVE TypeOK'
    <2>1. sessions' \in [Channels -> Nat] /\ lastSession' \in Nat /\ retired' \subseteq Nat
      BY <1>17, HandledEvent, RotateType DEF Clear, Command
    <2> QED
      BY <1>17, <2>1 DEF Clear, Command
  <1>18. ASSUME NEW e \in Events, Compact(e) PROVE TypeOK'
    <2>. DEFINE c == event[e].channel
    <2>1. c \in Channels
      BY <1>18, HandledEvent DEF Compact, Command
    <2>2. sessions' \in [Channels -> Nat] /\ lastSession' \in Nat /\ retired' \subseteq Nat
      BY <1>18, <2>1, RotateType DEF Compact
    <2>3. [session |-> sessions[c], before |-> Cardinality(SessionRows(c, sessions[c]))]
             \in [session : Nat, before : Nat]
      BY <2>1, CountType
    <2>4. compactions' \subseteq [session : Nat, before : Nat]
      BY <1>18, <2>3 DEF Compact
    <2> QED
      BY <1>18, <2>2, <2>4 DEF Compact, Command
  <1>19. CASE UNCHANGED vars
    BY <1>19 DEF vars
  <1> QED
    BY <1>1, <1>2, <1>3, <1>4, <1>5, <1>6, <1>7, <1>8, <1>9, <1>10, <1>11, <1>12, <1>13, <1>14, <1>15, <1>16, <1>17, <1>18, <1>19 DEF Next, Step

\* Every step preserves the account of who was in flight at an opt-out.
LEMMA NextPrivacyInv ==
    ASSUME Inv, [Next]_vars
    PROVE  PrivacyInv'
  <1>. USE DEF Inv, TypeOK, PrivacyInv, OnlyInFlightOutlivesOptOut, PastGuard, InFlight, Goto, store, process, thread, ghost
  <1>1. CASE Setup
    BY <1>1 DEF Setup
  <1>2. CASE Unload
    BY <1>2 DEF Unload
  <1>3. CASE CloseDatabase
    BY <1>3 DEF CloseDatabase
  <1>4. CASE Crash
    BY <1>4 DEF Crash
  <1>5. ASSUME NEW e \in Events, Receive(e) PROVE PrivacyInv'
    <2>1. PICK k \in Kinds, n \in Nicks, c \in Channels, t \in Nicks, m \in BOOLEAN :
             /\ m => k = "optout"
             /\ ~m => t = n
             /\ event' = [event EXCEPT ![e] = [kind |-> k, nick |-> n, channel |-> c,
                                               target |-> t, named |-> m]]
      BY <1>5, Zenon DEF Receive
    <2>2. event'[e] \in EventRecords
      BY <2>1 DEF EventRecords
    <2>3. \A x \in Events : x # e => event'[x] = event[x] /\ pc'[x] = pc[x]
      BY <1>5, <2>1 DEF Receive
    <2>4. pc'[e] \notin PastGuard
      BY <1>5 DEF Receive
    <2> QED
      BY <1>5, <2>2, <2>3, <2>4 DEF Receive
  <1>6. ASSUME NEW e \in Events, Enter(e) PROVE PrivacyInv'
    BY <1>6 DEF Enter
  <1>7. ASSUME NEW e \in Events, Raise(e) PROVE PrivacyInv'
    <2>1. pc[e] # "idle" /\ pc' = [pc EXCEPT ![e] = "done"]
      BY <1>7 DEF Raise, End, RaisesAt
    <2> QED
      BY <1>7, <2>1 DEF Raise
  <1>8. ASSUME NEW e \in Events, Say(e) PROVE PrivacyInv'
    BY <1>8 DEF End, Say
  <1>9. ASSUME NEW e \in Events, Guard(e) PROVE PrivacyInv'
    <2>1. CASE Passes(e)
      BY <1>9, <2>1 DEF Guard, Passes
    <2>2. CASE ~Passes(e)
      BY <1>9, <2>2 DEF Guard, End
    <2> QED
      BY <2>1, <2>2
  <1>10. ASSUME NEW e \in Events, Compose(e) PROVE PrivacyInv'
    BY <1>10 DEF OpenSession, ActiveSession, Compose
  <1>11. ASSUME NEW e \in Events, ReadPolicy(e) PROVE PrivacyInv'
    BY <1>11 DEF ReadPolicy
  <1>12. ASSUME NEW e \in Events, ProviderAnswers(e) PROVE PrivacyInv'
    BY <1>12 DEF ProviderAnswers
  <1>13. ASSUME NEW e \in Events, Save(e) PROVE PrivacyInv'
    <2>1. \A r \in history' : r \in history \/ (r.nick = event[e].nick /\ r.exchange = e)
      BY <1>13 DEF Save, Exchange, Row
    <2>2. ~optedIn[event[e].nick] => e \in exposed[event[e].nick]
      BY <1>13 DEF Save
    <2>3. OnlyInFlightOutlivesOptOut'
      BY <1>13, <2>1, <2>2 DEF Save
    <2> QED
      BY <1>13, <2>3 DEF Save
  <1>14. ASSUME NEW e \in Events, Record(e) PROVE PrivacyInv'
    BY <1>14 DEF Record
  <1>15. ASSUME NEW e \in Events, OptIn(e) PROVE PrivacyInv'
    BY <1>15 DEF Command, OptIn
  <1>16. ASSUME NEW e \in Events, OptOut(e) PROVE PrivacyInv'
    BY <1>16 DEF Command, OptOut
  <1>17. ASSUME NEW e \in Events, Clear(e) PROVE PrivacyInv'
    BY <1>17 DEF Command, Rotate, Clear
  <1>18. ASSUME NEW e \in Events, Compact(e) PROVE PrivacyInv'
    BY <1>18 DEF Command, Rotate, Compact
  <1>19. CASE UNCHANGED vars
    BY <1>19 DEF vars
  <1> QED
    BY <1>1, <1>2, <1>3, <1>4, <1>5, <1>6, <1>7, <1>8, <1>9, <1>10, <1>11, <1>12, <1>13, <1>14, <1>15, <1>16, <1>17, <1>18, <1>19 DEF Next, Step

\* A rotation gives the channel a session no channel has had.
LEMMA RotateSessionInv ==
    ASSUME TypeOK, SessionInv, NEW c \in Channels, Rotate(c)
    PROVE  SessionInv'
  <1>1. CASE sessions[c] = NoSession
    BY <1>1 DEF Rotate, SessionInv
  <1>2. CASE sessions[c] # NoSession
    <2>1. /\ sessions' = [sessions EXCEPT ![c] = lastSession + 1]
          /\ lastSession' = lastSession + 1
          /\ retired' = retired \cup {sessions[c]}
      BY <1>2 DEF Rotate
    <2>2. /\ lastSession \in Nat /\ sessions[c] \in 1..lastSession
          /\ sessions \in [Channels -> Nat]
      BY <1>2 DEF TypeOK, SessionInv, NoSession
    <2>3. \A s \in retired' : s \in 1..lastSession'
      BY <2>1, <2>2 DEF SessionInv
    <2>4. \A d \in Channels : sessions'[d] <= lastSession' /\ sessions'[d] \notin retired'
      BY <1>2, <2>1, <2>2 DEF SessionInv
    <2>5. \A b, d \in Channels : sessions'[b] = sessions'[d] /\ b # d => sessions'[b] = NoSession
      BY <2>1, <2>2 DEF SessionInv
    <2> QED
      BY <2>3, <2>4, <2>5 DEF SessionInv
  <1> QED
    BY <1>1, <1>2

\* Every step preserves the ownership of sessions.
LEMMA NextSessionInv ==
    ASSUME Inv, [Next]_vars
    PROVE  SessionInv'
  <1>. USE DEF Inv, TypeOK, SessionInv, PrivacyInv, NoSession, Goto, store, process, thread, ghost
  <1>1. CASE Setup
    BY <1>1 DEF Setup
  <1>2. CASE Unload
    BY <1>2 DEF Unload
  <1>3. CASE CloseDatabase
    BY <1>3 DEF CloseDatabase
  <1>4. CASE Crash
    BY <1>4 DEF Crash
  <1>5. ASSUME NEW e \in Events, Receive(e) PROVE SessionInv'
    BY <1>5 DEF Receive
  <1>6. ASSUME NEW e \in Events, Enter(e) PROVE SessionInv'
    BY <1>6 DEF Enter
  <1>7. ASSUME NEW e \in Events, Raise(e) PROVE SessionInv'
    BY <1>7 DEF End, Raise
  <1>8. ASSUME NEW e \in Events, Say(e) PROVE SessionInv'
    BY <1>8 DEF End, Say
  <1>9. ASSUME NEW e \in Events, Guard(e) PROVE SessionInv'
    BY <1>9 DEF End, Guard
  <1>10. ASSUME NEW e \in Events, Compose(e) PROVE SessionInv'
    BY <1>10 DEF OpenSession, ActiveSession, Compose
  <1>11. ASSUME NEW e \in Events, ReadPolicy(e) PROVE SessionInv'
    BY <1>11 DEF ReadPolicy
  <1>12. ASSUME NEW e \in Events, ProviderAnswers(e) PROVE SessionInv'
    BY <1>12 DEF ProviderAnswers
  <1>13. ASSUME NEW e \in Events, Save(e) PROVE SessionInv'
    BY <1>13 DEF OpenSession, ActiveSession, Save
  <1>14. ASSUME NEW e \in Events, Record(e) PROVE SessionInv'
    BY <1>14 DEF Record
  <1>15. ASSUME NEW e \in Events, OptIn(e) PROVE SessionInv'
    BY <1>15 DEF Command, OptIn
  <1>16. ASSUME NEW e \in Events, OptOut(e) PROVE SessionInv'
    BY <1>16 DEF Command, OptOut
  <1>17. ASSUME NEW e \in Events, Clear(e) PROVE SessionInv'
    BY <1>17, HandledEvent, RotateSessionInv DEF Clear, Command
  <1>18. ASSUME NEW e \in Events, Compact(e) PROVE SessionInv'
    BY <1>18, HandledEvent, RotateSessionInv DEF Compact, Command
  <1>19. CASE UNCHANGED vars
    BY <1>19 DEF vars
  <1> QED
    BY <1>1, <1>2, <1>3, <1>4, <1>5, <1>6, <1>7, <1>8, <1>9, <1>10, <1>11, <1>12, <1>13, <1>14, <1>15, <1>16, <1>17, <1>18, <1>19 DEF Next, Step

----------------------------------------------------------------------------
(* The rows of the history *)

\* The fields of a row, for the provers.
LEMMA RowFields ==
    ASSUME NEW r \in RowRecords
    PROVE  /\ r.id \in Nat /\ r.exchange \in Events /\ r.nick \in Nicks
           /\ r.channel \in Channels /\ r.role \in Roles /\ r.session \in Nat
  BY DEF RowRecords

\* Only saves, opt-outs and the steps that hand out sessions touch what
\* RowsInv speaks of.
LEMMA RowsFrame ==
    ASSUME [Next]_vars,
           \A e \in Events : ~(Compose(e) \/ Save(e) \/ OptOut(e) \/ Clear(e) \/ Compact(e))
    PROVE  UNCHANGED <<history, nextId, sessions, lastSession>>
  BY DEF Next, Step, vars, store, ghost, Setup, Unload, CloseDatabase, Crash, Receive, Enter,
         Raise, Say, Guard, ReadPolicy, ProviderAnswers, Record, OptIn

\* Giving a channel without a session a new one disturbs no row.
LEMMA OpenSessionRowsInv ==
    ASSUME TypeOK, RowsInv, NEW c \in Channels, OpenSession(c), UNCHANGED <<history, nextId>>
    PROVE  RowsInv'
  <1>1. /\ sessions \in [Channels -> Nat] /\ lastSession \in Nat
        /\ \A r \in history : r.session \in 1..lastSession
    BY DEF TypeOK, RowsInv
  <1>2. lastSession' >= lastSession /\ lastSession' \in Nat
    BY <1>1 DEF OpenSession
  <1>3. \A r \in history, d \in Channels : sessions'[d] = r.session => sessions[d] = r.session
    BY <1>1 DEF OpenSession, ActiveSession
  <1>4. ExchangesAreWhole'
    BY DEF RowsInv, ExchangesAreWhole
  <1> QED
    BY <1>1, <1>2, <1>3, <1>4 DEF RowsInv

\* Nor does a rotation.
LEMMA RotateRowsInv ==
    ASSUME TypeOK, RowsInv, NEW c \in Channels, Rotate(c), UNCHANGED <<history, nextId>>
    PROVE  RowsInv'
  <1>1. /\ sessions \in [Channels -> Nat] /\ lastSession \in Nat
        /\ \A r \in history : r.session \in 1..lastSession
    BY DEF TypeOK, RowsInv
  <1>2. lastSession' >= lastSession /\ lastSession' \in Nat
    BY <1>1 DEF Rotate
  <1>3. \A r \in history, d \in Channels : sessions'[d] = r.session => sessions[d] = r.session
    BY <1>1 DEF Rotate
  <1>4. ExchangesAreWhole'
    BY DEF RowsInv, ExchangesAreWhole
  <1> QED
    BY <1>1, <1>2, <1>3, <1>4 DEF RowsInv

\* A save adds two rows that belong together, with ids nobody has.
LEMMA SaveRowsInv ==
    ASSUME Inv, NEW e \in Events, Save(e)
    PROVE  RowsInv'
  <1>. DEFINE c == event[e].channel
              s == ActiveSession(c)
              user == Row(nextId, e, "user", s)
              assistant == Row(nextId + 1, e, "assistant", s)
  <1>1. /\ c \in Channels /\ nextId \in Nat /\ lastSession \in Nat
        /\ sessions \in [Channels -> Nat] /\ history \subseteq RowRecords
    BY HandledEvent DEF Inv, TypeOK, Save
  <1>2. /\ history' = history \cup {user, assistant}
        /\ nextId' = nextId + 2
        /\ sessions' = [sessions EXCEPT ![c] = s]
        /\ lastSession' = IF sessions[c] = NoSession THEN lastSession + 1 ELSE lastSession
    BY DEF Save, Exchange, OpenSession
  <1>3. s \in 1..lastSession' /\ lastSession' >= lastSession /\ lastSession' \in Nat
    BY <1>1, <1>2 DEF Inv, SessionInv, NoSession, ActiveSession
  <1>4. /\ user.id = nextId /\ user.role = "user"
        /\ assistant.id = nextId + 1 /\ assistant.role = "assistant"
        /\ user.exchange = assistant.exchange /\ user.nick = assistant.nick
        /\ user.channel = c /\ assistant.channel = c
        /\ user.session = s /\ assistant.session = s
    BY DEF Row
  <1>5. \A r \in history :
           /\ r.id \in Nat /\ r.id < nextId /\ r.session \in 1..lastSession
           /\ \A q \in history : q.id = r.id => q = r
           /\ \A d \in Channels : sessions[d] = r.session => r.channel = d
    BY <1>1, RowFields DEF Inv, RowsInv
  <1>. HIDE DEF user, assistant, s, c
  <1>6. \A r \in history' : r.id < nextId' /\ r.session \in 1..lastSession'
    BY <1>1, <1>2, <1>3, <1>4, <1>5
  <1>7. \A r, q \in history' : q.id = r.id => q = r
    BY <1>1, <1>2, <1>4, <1>5
  <1>8. ASSUME NEW r \in history', NEW d \in Channels, sessions'[d] = r.session
        PROVE  r.channel = d
    <2>1. CASE r \in history
      BY <1>1, <1>2, <1>5, <1>8, <2>1 DEF s, ActiveSession
    <2>2. CASE r \notin history
      <3>1. r.channel = c /\ r.session = s /\ s # NoSession
        BY <1>2, <1>3, <1>4, <2>2 DEF NoSession
      <3>2. d # c => sessions[d] # s
        BY <1>1, <1>3 DEF Inv, SessionInv, s, ActiveSession, NoSession
      <3> QED
        BY <1>1, <1>2, <1>8, <3>1, <3>2
    <2> QED
      BY <2>1, <2>2
  <1>9. ExchangesAreWhole'
    <2>1. ASSUME NEW r \in history
          PROVE  \E q \in history' :
                    /\ {r.role, q.role} = Roles
                    /\ q.id = IF r.role = "user" THEN r.id + 1 ELSE r.id - 1
                    /\ <<q.exchange, q.nick, q.channel, q.session>>
                          = <<r.exchange, r.nick, r.channel, r.session>>
      BY <1>2 DEF Inv, RowsInv, ExchangesAreWhole
    <2>2. /\ {user.role, assistant.role} = Roles /\ {assistant.role, user.role} = Roles
          /\ user.role # assistant.role
      BY <1>4 DEF Roles
    <2> QED
      BY <1>1, <1>2, <1>4, <2>1, <2>2 DEF ExchangesAreWhole
  <1> QED
    BY <1>6, <1>7, <1>8, <1>9 DEF RowsInv

\* Every step preserves the ids, sessions and pairs of the rows.
LEMMA NextRowsInv ==
    ASSUME Inv, [Next]_vars
    PROVE  RowsInv'
  <1>1. ASSUME NEW e \in Events, Compose(e) PROVE RowsInv'
    BY <1>1, HandledEvent, OpenSessionRowsInv DEF Inv, Compose
  <1>2. ASSUME NEW e \in Events, Save(e) PROVE RowsInv'
    BY <1>2, SaveRowsInv
  <1>3. ASSUME NEW e \in Events, OptOut(e) PROVE RowsInv'
    <2>1. /\ history' = {r \in history : r.nick # event[e].target}
          /\ UNCHANGED <<nextId, sessions, lastSession>>
      BY <1>3 DEF OptOut
    <2>2. ExchangesAreWhole'
      BY <2>1 DEF Inv, RowsInv, ExchangesAreWhole
    <2> QED
      BY <2>1, <2>2 DEF Inv, RowsInv
  <1>4. ASSUME NEW e \in Events, Clear(e) \/ Compact(e) PROVE RowsInv'
    BY <1>4, HandledEvent, RotateRowsInv DEF Inv, Clear, Compact, Command
  <1>5. CASE UNCHANGED <<history, nextId, sessions, lastSession>>
    BY <1>5 DEF Inv, RowsInv, ExchangesAreWhole
  <1> QED
    BY <1>1, <1>2, <1>3, <1>4, <1>5, RowsFrame

----------------------------------------------------------------------------
(* The contexts *)

\* The rows of a session are its exchanges, in whole: the partner of a row has
\* its channel and session.
LEMMA SessionRowsAreWhole ==
    ASSUME RowsInv, NEW c, NEW s, NEW r \in SessionRows(c, s)
    PROVE  \E q \in SessionRows(c, s) :
              /\ q.exchange = r.exchange
              /\ \/ r.role = "user" /\ q.role = "assistant" /\ q.id = r.id + 1
                 \/ r.role = "assistant" /\ q.role = "user" /\ q.id = r.id - 1
  <1>1. r \in history /\ r.channel = c /\ r.session = s
    BY DEF SessionRows
  <1>2. PICK q \in history :
           /\ {r.role, q.role} = Roles
           /\ q.id = IF r.role = "user" THEN r.id + 1 ELSE r.id - 1
           /\ <<q.exchange, q.nick, q.channel, q.session>>
                 = <<r.exchange, r.nick, r.channel, r.session>>
    BY <1>1 DEF RowsInv, ExchangesAreWhole
  <1>3. q \in SessionRows(c, s)
    BY <1>1, <1>2 DEF SessionRows
  <1>4. \/ r.role = "user" /\ q.role = "assistant"
        \/ r.role = "assistant" /\ q.role = "user"
    <2>1. /\ "user" \in {r.role, q.role} /\ "assistant" \in {r.role, q.role}
          /\ r.role \in {"user", "assistant"} /\ q.role \in {"user", "assistant"}
      BY <1>2 DEF Roles
    <2> QED
      BY <2>1
  <1> QED
    BY <1>2, <1>3, <1>4

\* Every step preserves that a context is one session in whole exchanges.
LEMMA NextContextInv ==
    ASSUME Inv, [Next]_vars
    PROVE  ContextInv'
  <1>. USE DEF Inv, ContextInv, ContextIsOneSession
  <1>1. ASSUME NEW e \in Events, Receive(e) PROVE ContextInv'
    <2>1. ctx' = ctx /\ ctx[e].rows = {}
      BY <1>1 DEF Receive, thread
    <2>2. \A x \in Events : x # e => event'[x] = event[x] /\ pc'[x] = pc[x]
      BY <1>1 DEF Receive, Goto, TypeOK
    <2> QED
      BY <2>1, <2>2
  <1>2. ASSUME NEW e \in Events, Compose(e) PROVE ContextInv'
    <2>. DEFINE c == event[e].channel
                s == ActiveSession(c)
    <2>1. /\ event' = event
          /\ pc' = [pc EXCEPT ![e] = "policy"]
          /\ ctx' = [ctx EXCEPT ![e] = [session |-> s, rows |-> SessionRows(c, s)]]
      BY <1>2 DEF Compose, Goto, ContextRows
    <2>2. \A r \in SessionRows(c, s) :
             /\ r.channel = c /\ r.session = s
             /\ \E q \in SessionRows(c, s) : q.exchange = r.exchange /\ q.role # r.role
      <3> SUFFICES ASSUME NEW r \in SessionRows(c, s)
                   PROVE  /\ r.channel = c /\ r.session = s
                          /\ \E q \in SessionRows(c, s) :
                                q.exchange = r.exchange /\ q.role # r.role
        OBVIOUS
      <3>1. PICK q \in SessionRows(c, s) : q.exchange = r.exchange /\ q.role # r.role
        BY SessionRowsAreWhole
      <3> QED
        BY <3>1 DEF SessionRows
    <2>3. ctx \in [Events -> [session : Nat, rows : SUBSET RowRecords]]
          /\ pc \in [Events -> {"idle", "received", "guarding", "commanding", "composing",
                                "policy", "asking", "saving", "recording", "saying", "done"}]
      BY DEF TypeOK
    <2> HIDE DEF c, s
    <2>4. /\ ctx'[e].session = s /\ ctx'[e].rows = SessionRows(c, s) /\ pc'[e] = "policy"
          /\ \A x \in Events : x # e => ctx'[x] = ctx[x] /\ pc'[x] = pc[x]
      BY <2>1, <2>3
    <2> QED
      BY <2>1, <2>2, <2>4 DEF c
  <1>3. ASSUME UNCHANGED <<event, ctx>>, \A e \in Events : pc'[e] = "idle" => pc[e] = "idle"
        PROVE  ContextInv'
    BY <1>3
  <1>4. (\A e \in Events : ~Receive(e) /\ ~Compose(e)) =>
           /\ UNCHANGED <<event, ctx>>
           /\ \A e \in Events : pc'[e] = "idle" => pc[e] = "idle"
    BY DEF Next, Step, vars, thread, Setup, Unload, CloseDatabase, Crash, Enter, Raise, Say,
           Guard, ReadPolicy, ProviderAnswers, Save, Record, OptIn, OptOut, Clear, Compact,
           End, Goto, TypeOK
  <1> QED
    BY <1>1, <1>2, <1>3, <1>4

----------------------------------------------------------------------------
(* Where each handler is *)

\* Whether a message was refused does not change while it is handled.
LEMMA RefusalIsStable ==
    ASSUME NEW x \in Events, event'[x] = event[x], event[x].kind \in {"message", "admin"}
    PROVE  Refused(x)' <=> Refused(x)
  BY DEF Refused, NeedsAdmin

\* The step of one thread leaves the others where they are.
LEMMA OthersProgress ==
    ASSUME Inv, NEW e \in Events, Receive(e) \/ Step(e), NEW x \in Events, x # e
    PROVE  (Progress(x) /\ Remembered(x))'
  <1>1. /\ pc'[x] = pc[x] /\ event'[x] = event[x] /\ result'[x] = result[x]
        /\ x \in saved' <=> x \in saved
    BY DEF Inv, TypeOK, thread, ghost, Receive, Step, Enter, Raise, Say, Guard, Compose,
           ReadPolicy, ProviderAnswers, Save, Record, OptIn, OptOut, Clear, Compact, End, Goto,
           Rotate, OpenSession
  <1>2. event[x].kind \in {"message", "admin"} => (Refused(x)' <=> Refused(x))
    BY <1>1, RefusalIsStable
  <1>3. Progress(x) /\ Remembered(x)
    BY DEF Inv, ProgressInv, RepliesAreRemembered
  <1> QED
    BY <1>1, <1>2, <1>3 DEF Progress, Remembered

\* A step of its own keeps the account of a thread.
LEMMA OwnProgress ==
    ASSUME Inv, NEW e \in Events, Receive(e) \/ Step(e)
    PROVE  (Progress(e) /\ Remembered(e))'
  <1>0. /\ Progress(e) /\ Remembered(e)
        /\ pc \in [Events -> {"idle", "received", "guarding", "commanding", "composing",
                              "policy", "asking", "saving", "recording", "saying", "done"}]
        /\ result \in [Events -> {"none", "reply", "silent", "error", "crashed"}]
        /\ event \in [Events -> EventRecords \cup {NoEvent}]
    BY DEF Inv, TypeOK, ProgressInv, RepliesAreRemembered
  <1>1. event'[e] = event[e] /\ event[e].kind \in {"message", "admin"} =>
           (Refused(e)' <=> Refused(e))
    BY RefusalIsStable
  <1>. USE <1>0, <1>1 DEF Progress, Remembered, PastGuard, RaisesAt, AiKinds, Goto, End
  <1>2. CASE Receive(e)
    BY <1>2 DEF Receive, ghost
  <1>3. CASE Enter(e)
    BY <1>3 DEF Enter, ghost
  <1>4. CASE Raise(e)
    BY <1>4 DEF Raise, ghost
  <1>5. CASE Say(e)
    BY <1>5 DEF Say, ghost
  <1>6. CASE Guard(e)
    BY <1>6 DEF Guard, ghost
  <1>7. CASE Compose(e)
    BY <1>7 DEF Compose
  <1>8. CASE ReadPolicy(e)
    BY <1>8 DEF ReadPolicy, ghost
  <1>9. CASE ProviderAnswers(e)
    BY <1>9 DEF ProviderAnswers, ghost
  <1>10. CASE Save(e)
    BY <1>10 DEF Save
  <1>11. CASE Record(e)
    BY <1>11 DEF Record, ghost
  <1>12. CASE OptIn(e)
    BY <1>12 DEF OptIn, Command, ghost
  <1>13. CASE OptOut(e)
    BY <1>13 DEF OptOut, Command
  <1>14. CASE Clear(e)
    BY <1>14 DEF Clear, Command
  <1>15. CASE Compact(e)
    BY <1>15 DEF Compact, Command
  <1> QED
    BY <1>2, <1>3, <1>4, <1>5, <1>6, <1>7, <1>8, <1>9, <1>10, <1>11, <1>12, <1>13, <1>14, <1>15
       DEF Step

\* Every step preserves the account of who has saved an exchange.
LEMMA NextProgressInv ==
    ASSUME Inv, [Next]_vars
    PROVE  ProgressInv'
  <1> SUFFICES ASSUME NEW x \in Events PROVE (Progress(x) /\ Remembered(x))'
    BY DEF ProgressInv, RepliesAreRemembered
  <1>1. ASSUME NEW e \in Events, Receive(e) \/ Step(e)
        PROVE  (Progress(x) /\ Remembered(x))'
    BY <1>1, OwnProgress, OthersProgress
  <1>2. Progress(x) /\ Remembered(x)
    BY DEF Inv, ProgressInv, RepliesAreRemembered
  <1>3. CASE UNCHANGED <<thread, ghost>>
    BY <1>2, <1>3, RefusalIsStable DEF thread, ghost, Progress, Remembered
  <1>4. CASE Crash
    BY <1>2, <1>4, RefusalIsStable
       DEF Crash, ghost, Inv, TypeOK, Progress, Remembered, PastGuard, RaisesAt
  <1> QED
    BY <1>1, <1>3, <1>4 DEF Next, Setup, Unload, CloseDatabase, vars

----------------------------------------------------------------------------
(* Retired sessions *)

RetiredStep ==
    \A s \in retired :
        /\ s \in retired'
        /\ \A c \in Channels : sessions'[c] # s
        /\ {r \in history' : r.session = s} \subseteq history

\* No step revives a retired session or adds a row to it.
LEMMA StepRetires ==
    ASSUME Inv, SessionInv', [Next]_vars
    PROVE  RetiredStep
  <1>1. retired \subseteq retired'
    BY DEF Next, Step, vars, ghost, Setup, Unload, CloseDatabase, Crash, Receive, Enter, Raise,
           Say, Guard, Compose, ReadPolicy, ProviderAnswers, Save, Record, OptIn, OptOut, Clear,
           Compact, Rotate
  <1>2. \A s \in retired : \A c \in Channels : sessions'[c] # s
    BY <1>1 DEF SessionInv
  <1>3. ASSUME NEW e \in Events, Save(e), NEW s \in retired
        PROVE  {r \in history' : r.session = s} \subseteq history
    <2>1. ActiveSession(event[e].channel) # s
      BY <1>3, HandledEvent DEF Save, Inv, SessionInv, TypeOK, ActiveSession
    <2>2. \A r \in Exchange(e, ActiveSession(event[e].channel)) : r.session # s
      BY <2>1 DEF Exchange, Row
    <2> QED
      BY <1>3, <2>2 DEF Save
  <1>4. (\A e \in Events : ~Save(e)) => history' \subseteq history
    BY DEF Next, Step, vars, store, Setup, Unload, CloseDatabase, Crash, Receive, Enter, Raise,
           Say, Guard, Compose, ReadPolicy, ProviderAnswers, Record, OptIn, OptOut, Clear,
           Compact
  <1> QED
    BY <1>1, <1>2, <1>3, <1>4 DEF RetiredStep

\* An exchange is two rows, so that a session has an even number of them: its
\* user turns and its assistant turns correspond one to one.
LEMMA SessionsAreEven ==
    ASSUME TypeOK, RowsInv, NEW c, NEW s
    PROVE  Cardinality(SessionRows(c, s)) % 2 = 0
  <1>. DEFINE S == SessionRows(c, s)
              U == {r \in S : r.role = "user"}
              A == {r \in S : r.role = "assistant"}
              f == [u \in U |-> CHOOSE a \in A : a.id = u.id + 1]
  <1>1. /\ IsFiniteSet(S)
        /\ \A r \in S : r.id \in Nat /\ r.role \in Roles
        /\ \A r, q \in S : q.id = r.id => q = r
    <2>1. IsFiniteSet(S)
      BY FS_Subset DEF TypeOK, SessionRows
    <2>2. \A r \in S : r \in history /\ r \in RowRecords
      BY DEF TypeOK, SessionRows
    <2> QED
      BY <2>1, <2>2, RowFields DEF RowsInv
  <1>2. IsFiniteSet(U) /\ IsFiniteSet(A)
    BY <1>1, FS_Subset
  <1>3. \A r \in S : \E q \in S :
           \/ r.role = "user" /\ q.role = "assistant" /\ q.id = r.id + 1
           \/ r.role = "assistant" /\ q.role = "user" /\ q.id = r.id - 1
    BY SessionRowsAreWhole
  <1>. HIDE DEF S
  <1>4. \A u \in U : \E a \in A : a.id = u.id + 1
    BY <1>3
  <1>5. \A a \in A : \E u \in U : a.id = u.id + 1
    <2> SUFFICES ASSUME NEW a \in A PROVE \E u \in U : a.id = u.id + 1
      OBVIOUS
    <2>1. PICK u \in S : u.role = "user" /\ u.id = a.id - 1
      BY <1>3
    <2> QED
      BY <1>1, <2>1
  <1>6. f \in Bijection(U, A)
    <2>1. f \in [U -> A] /\ \A u \in U : f[u].id = u.id + 1
      BY <1>4
    <2>2. \A u, v \in U : f[u] = f[v] => u = v
      BY <1>1, <2>1
    <2>3. \A a \in A : \E u \in U : f[u] = a
      BY <1>1, <1>5, <2>1
    <2> HIDE DEF f
    <2> QED
      BY <2>1, <2>2, <2>3 DEF Bijection, Injection, IsInjective, Surjection
  <1>7. Cardinality(A) = Cardinality(U) /\ Cardinality(U) \in Nat
    BY <1>2, <1>6, FS_Bijection, FS_CardinalityType DEF ExistsBijection
  <1>8. Cardinality(U \cup A) = Cardinality(U) + Cardinality(A) - Cardinality(U \cap A)
    BY <1>2, FS_Union
  <1>9. U \cup A = S /\ U \cap A = {}
    BY <1>1 DEF Roles
  <1>. HIDE DEF U, A
  <1>10. Cardinality(S) = Cardinality(U) + Cardinality(U)
    <2>1. Cardinality(U \cap A) = 0
      BY <1>9, FS_EmptySet
    <2>2. Cardinality(U \cup A) = Cardinality(S)
      BY <1>9
    <2> QED
      BY <1>7, <1>8, <2>1, <2>2
  <1>11. ASSUME NEW n \in Nat PROVE (n + n) % 2 = 0
    OBVIOUS
  <1> QED
    BY <1>7, <1>10, <1>11 DEF S

\* Every step preserves that a compaction is the last word on its session.
LEMMA NextCompactionInv ==
    ASSUME Inv, SessionInv', [Next]_vars
    PROVE  CompactionInv'
  <1>. DEFINE Of(s) == {r \in history : r.session = s}
  <1>1. \A s : IsFiniteSet(Of(s)) /\ Cardinality(Of(s)) \in Nat
    <2> SUFFICES ASSUME NEW s PROVE IsFiniteSet(Of(s)) /\ Cardinality(Of(s)) \in Nat
      OBVIOUS
    <2>1. IsFiniteSet(Of(s))
      BY FS_Subset DEF Inv, TypeOK
    <2> QED
      BY <2>1, FS_CardinalityType
  <1>2. ASSUME NEW s \in retired
        PROVE  s \in retired' /\ Cardinality(Of(s)') <= Cardinality(Of(s))
    <2>1. s \in retired' /\ Of(s)' \in SUBSET Of(s)
      BY <1>2, StepRetires DEF RetiredStep
    <2> QED
      BY <1>1, <2>1, FS_Subset
  <1>3. \A k \in compactions : k.session \in retired /\ k.session \in Nat /\ k.before \in Nat
    BY DEF Inv, TypeOK, CompactionInv
  <1>4. ASSUME NEW k \in compactions
        PROVE  /\ k.session \in retired'
               /\ Cardinality(Of(k.session)') <= k.before
               /\ k.before % 2 = 0
    <2>1. Cardinality(Of(k.session)) <= k.before /\ k.before % 2 = 0
      BY DEF Inv, CompactionInv, CompactionsAreFinal
    <2>2. Cardinality(Of(k.session)') <= Cardinality(Of(k.session)) /\ k.session \in retired'
      BY <1>2, <1>3
    <2>3. k.before \in Nat /\ Cardinality(Of(k.session)) \in Nat
          /\ Cardinality(Of(k.session)') \in Nat
      <3>1. Of(k.session)' \in SUBSET Of(k.session)
        BY <1>3, StepRetires DEF RetiredStep
      <3>2. IsFiniteSet(Of(k.session)')
        BY <1>1, <3>1, FS_Subset
      <3> QED
        BY <1>1, <1>3, <3>2, FS_CardinalityType
    <2> QED
      BY <2>1, <2>2, <2>3
  <1>5. ASSUME NEW e \in Events, Compact(e), sessions[event[e].channel] # NoSession
        PROVE  CompactionInv'
    <2>. DEFINE c == event[e].channel
                s == sessions[c]
                new == [session |-> s, before |-> Cardinality(SessionRows(c, s))]
    <2>1. c \in Channels /\ s \in 1..lastSession /\ s \notin retired
      BY <1>5, HandledEvent DEF Inv, TypeOK, SessionInv, NoSession, Compact, Command
    <2>2. /\ compactions' = compactions \cup {new}
          /\ retired' = retired \cup {s}
          /\ history' = history
      BY <1>5 DEF Compact, Rotate
    <2>3. SessionRows(c, s) = Of(s)
      BY <2>1 DEF Inv, RowsInv, SessionRows
    <2>4. /\ new.session = s /\ new.before = Cardinality(Of(s))
          /\ new.before % 2 = 0 /\ new.before \in Nat
      BY <1>1, <2>3, SessionsAreEven DEF Inv
    <2>5. Cardinality({r \in history' : r.session = new.session}) <= new.before
      BY <2>2, <2>4
    <2>6. \A k \in compactions : k.session # s
      BY <1>3, <2>1
    <2> HIDE DEF new, s
    <2> QED
      BY <1>4, <2>2, <2>4, <2>5, <2>6 DEF Inv, CompactionInv, CompactionsAreFinal
  <1>6. CASE compactions' = compactions
    BY <1>4, <1>6 DEF Inv, CompactionInv, CompactionsAreFinal
  <1>7. ASSUME NEW e \in Events, Compact(e), sessions[event[e].channel] = NoSession
        PROVE  compactions' = compactions
    BY <1>7 DEF Compact
  <1>8. (\A e \in Events : ~Compact(e)) => compactions' = compactions
    BY DEF Next, Step, vars, store, Setup, Unload, CloseDatabase, Crash, Receive, Enter, Raise,
           Say, Guard, Compose, ReadPolicy, ProviderAnswers, Save, Record, OptIn, OptOut, Clear
  <1> QED
    BY <1>5, <1>6, <1>7, <1>8

----------------------------------------------------------------------------
(* The invariant and what follows from it *)

\* The invariant is inductive.
LEMMA NextInv == Inv /\ [Next]_vars => Inv'
  BY NextTypeOK, NextPrivacyInv, NextSessionInv, NextRowsInv, NextContextInv,
     NextCompactionInv, NextProgressInv DEF Inv

\* The inductive invariant: types, exposure to opt-outs, ownership of sessions.
THEOREM ConversationInvariant == Spec => []Inv
  BY InitInv, NextInv, PTL DEF Spec

\* Whatever crashes, opt-outs and rotations happen, a stored turn has the other
\* turn of its exchange beside it.
THEOREM ConversationKeepsExchangesWhole == Spec => []ExchangesAreWhole
  <1>1. Inv => ExchangesAreWhole
    BY DEF Inv, RowsInv
  <1> QED
    BY <1>1, ConversationInvariant, PTL

\* The provider is never given a mix of sessions or half an exchange.
THEOREM ConversationContextsAreOneSession == Spec => []ContextIsOneSession
  <1>1. Inv => ContextIsOneSession
    BY DEF Inv, ContextInv
  <1> QED
    BY <1>1, ConversationInvariant, PTL

\* A compaction is recorded once for its session, counts whole exchanges and is
\* never overtaken by a message that was in flight.
THEOREM ConversationCompactionsAreFinal == Spec => []CompactionsAreFinal
  <1>1. Inv => CompactionsAreFinal
    BY DEF Inv, CompactionInv
  <1> QED
    BY <1>1, ConversationInvariant, PTL

\* An AI reply was saved before it went out, and an error saved nothing.
THEOREM ConversationRemembersReplies == Spec => []RepliesAreRemembered
  <1>1. Inv => RepliesAreRemembered
    BY DEF Inv, ProgressInv
  <1> QED
    BY <1>1, ConversationInvariant, PTL

\* A message that has not passed the guard when its nick opts out is never
\* stored while the nick stays opted out.
THEOREM ConversationHonoursOptOut == Spec => []OnlyInFlightOutlivesOptOut
  <1>1. Inv => OnlyInFlightOutlivesOptOut
    BY DEF Inv, PrivacyInv
  <1> QED
    BY <1>1, ConversationInvariant, PTL

\* A cleared or compacted session never comes back and never grows, whatever
\* was in flight when it was replaced.
THEOREM ConversationRetiresSessions == Spec => RetiredSessionsAreOver
  <1>1. Inv /\ [Next]_vars => [RetiredStep]_vars
    BY NextSessionInv, StepRetires
  <1> QED
    BY <1>1, ConversationInvariant, PTL DEF Spec, RetiredSessionsAreOver, RetiredStep
=============================================================================
