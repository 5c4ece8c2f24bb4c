--------------------------- MODULE RoutingProofs ---------------------------
(***************************************************************************)
(* No line is answered twice and none that speaks to the bot is left       *)
(* unanswered, for any number of lines whose handlers interleave with each *)
(* other and with reloads: the tests by which the handlers of plugin.py    *)
(* recognise their own lines divide the lines among them.  The exception   *)
(* is part of the statement: pm_text_to_ai asks for the instance before    *)
(* its test.                                                               *)
(***************************************************************************)
EXTENDS Routing, TLAPS

\* Of the handlers that see a line at most one takes it for its own
\* (unknown_prefixed_command_to_ai, addressed_freeform, pm_text_to_ai against
\* the registered commands).
LEMMA OwnersAreUnique ==
    ASSUME NEW l, NEW h \in Handlers, NEW k \in Handlers, Owns(h, l), Owns(k, l)
    PROVE  h = k
  <1>1. h \in Matching(l) /\ k \in Matching(l)
    BY DEF Owns
  <1>2. /\ l.form \in Commands => ~Addressed(l) /\ l.form # "unknown"
        /\ Prefixed(l) => ~Addressed(l)
    BY DEF Addressed, Prefixed, Commands, Management, AdminOnly, Hybrid
  <1>3. CASE h = "command"
    BY <1>1, <1>2, <1>3 DEF Owns, Matching, FallbackOwns, PmOwns, Registered, Handlers
  <1>4. CASE h = "fallback"
    BY <1>1, <1>2, <1>4 DEF Owns, Matching, FallbackOwns, PmOwns, Registered, Handlers
  <1>5. CASE h = "addressed"
    BY <1>1, <1>2, <1>5 DEF Owns, Matching, AddressedOwns, PmOwns, Registered, Handlers
  <1>6. CASE h = "pm"
    BY <1>1, <1>2, <1>6
       DEF Owns, Matching, FallbackOwns, AddressedOwns, PmOwns, Registered, Handlers
  <1> QED
    BY <1>3, <1>4, <1>5, <1>6 DEF Handlers

\* A line of a user that is said to the bot has an owner among its handlers.
LEMMA PromptsHaveOwners ==
    ASSUME NEW l, l.sender = "user", l.private \/ Addressed(l) \/ Prefixed(l)
    PROVE  \E h \in Handlers : Owns(h, l)
  <1>1. CASE Registered(l)
    <2>1. Owns("command", l)
      BY <1>1 DEF Owns, Matching, Handlers
    <2> QED
      BY <2>1 DEF Handlers
  <1>2. CASE ~Registered(l) /\ l.private
    <2>1. Owns("pm", l)
      BY <1>2 DEF Owns, Matching, Handlers, PmOwns
    <2> QED
      BY <2>1 DEF Handlers
  <1>3. CASE ~Registered(l) /\ ~l.private /\ Addressed(l)
    <2>1. Owns("addressed", l)
      BY <1>3 DEF Owns, Matching, Handlers, AddressedOwns
    <2> QED
      BY <2>1 DEF Handlers
  <1>4. CASE ~Registered(l) /\ ~l.private /\ Prefixed(l)
    <2>1. Owns("fallback", l)
      BY <1>4 DEF Owns, Matching, Handlers, FallbackOwns
    <2> QED
      BY <2>1 DEF Handlers
  <1> QED
    BY <1>1, <1>2, <1>3, <1>4

----------------------------------------------------------------------------
\* A line that arrives has its handlers to run and nothing done for it.
LEMMA ArriveInv ==
    ASSUME Inv, NEW i \in Lines, Arrive(i)
    PROVE  Inv'
  <1>1. PICK l \in [form : Forms, private : BOOLEAN,
                    sender : {"user", "bot", "self"}, admin : BOOLEAN] :
           /\ line' = [line EXCEPT ![i] = l]
           /\ pending' = [pending EXCEPT ![i] = Matching(l)]
    BY DEF Arrive
  <1>2. /\ line[i] = NoLine /\ UNCHANGED <<loaded, optedIn, effects>>
        /\ pending[i] = {} /\ effects[i] = {}
    BY DEF Arrive, Inv, PendingInv
  <1>3. /\ line'[i] = l /\ pending'[i] = Matching(l) /\ effects'[i] = {}
        /\ \A j \in Lines \ {i} :
              line'[j] = line[j] /\ pending'[j] = pending[j] /\ effects'[j] = effects[j]
    BY <1>1, <1>2 DEF Inv, TypeOK
  <1>4. /\ absent \subseteq absent' /\ absent' \subseteq absent \cup {i}
        /\ overtaken \subseteq overtaken' /\ overtaken' \subseteq overtaken \cup {i}
        /\ loaded \/ i \in absent'
        /\ optedIn \/ i \in overtaken'
    BY DEF Arrive
  <1>5. TypeOK'
    <2>1. Matching(l) \in SUBSET Handlers
      BY DEF Matching
    <2>2. absent' \subseteq Lines /\ overtaken' \subseteq Lines
      BY <1>4 DEF Inv, TypeOK
    <2> QED
      BY <1>1, <1>2, <2>1, <2>2 DEF Inv, TypeOK
  <1>6. l # NoLine
    <2>1. "none" \notin Forms
      BY DEF Forms, Commands, Management, AdminOnly, Hybrid
    <2> QED
      BY <2>1 DEF NoLine
  <1>7. PendingInv'
    <2>. SUFFICES ASSUME NEW j \in Lines
                  PROVE  /\ pending'[j] \subseteq Matching(line'[j])
                         /\ line'[j] = NoLine => pending'[j] = {} /\ effects'[j] = {}
                         /\ pending'[j] # {} => /\ loaded \/ j \in absent'
                                                /\ optedIn \/ j \in overtaken'
      BY <1>2 DEF PendingInv, Matching, Registered, Prefixed, Addressed
    <2>1. CASE j = i
      BY <1>3, <1>4, <1>6, <2>1
    <2>2. CASE j # i
      BY <1>3, <1>4, <2>2 DEF Inv, PendingInv
    <2> QED
      BY <2>1, <2>2
  <1>8. EffectsInv'
    <2>. SUFFICES ASSUME NEW j \in Lines, NEW x \in effects'[j]
                  PROVE  /\ \/ Owns(x[1], line'[j])
                            \/ /\ x = <<"pm", "error">>
                               /\ j \in absent' /\ line'[j].private
                               /\ Registered(line'[j])
                         /\ x[1] \notin pending'[j]
                         /\ \A y \in effects'[j] : x[1] = y[1] => x = y
      BY DEF EffectsInv, TwiceAnswered, Owns, Matching, FallbackOwns, AddressedOwns,
             PmOwns, Registered, Prefixed, Addressed
    <2>1. j # i /\ x \in effects[j]
      BY <1>3
    <2> QED
      BY <1>3, <1>4, <2>1 DEF Inv, EffectsInv, TwiceAnswered
  <1>9. OwnerInv'
    <2>. SUFFICES ASSUME NEW j \in Lines, NEW h \in Handlers, line'[j] # NoLine,
                         line'[j].sender = "user", Owns(h, line'[j]), h \notin pending'[j],
                         j \in overtaken' => line'[j].form \in Local
                  PROVE  effects'[j] # {}
      BY DEF OwnerInv, Owns, Matching, FallbackOwns, AddressedOwns, PmOwns,
             Registered, Prefixed, Addressed
    <2>1. CASE j = i
      BY <1>3, <2>1 DEF Owns
    <2>2. CASE j # i
      BY <1>3, <1>4, <2>2 DEF Inv, OwnerInv
    <2> QED
      BY <2>1, <2>2
  <1> QED
    BY <1>5, <1>7, <1>8, <1>9 DEF Inv

\* A handler keeps the invariant if it does at most one thing, for a line it
\* owns or as the error of pm_text_to_ai, and does it for a user who is opted
\* in or whom it answers anyway.
LEMMA HandlerInv ==
    ASSUME Inv, NEW i \in Lines, NEW h \in Handlers, Runs(h, i),
           NEW what \in SUBSET ({h} \X Answers), Does(i, what),
           \A x, y \in what : x = y,
           \A x \in what : \/ Owns(h, line[i])
                           \/ x = <<"pm", "error">> /\ TwiceAnswered(i),
           /\ Owns(h, line[i]) /\ line[i].sender = "user"
           /\ optedIn \/ line[i].form \in Local
           => what # {},
           optedIn' \in BOOLEAN,
           overtaken \subseteq overtaken', overtaken' \subseteq Lines,
           optedIn' \/ Waiting \subseteq overtaken' \/ (optedIn' = optedIn)
    PROVE  Inv'
  <1>1. /\ h \in pending[i] /\ line' = line /\ loaded' = loaded /\ absent' = absent
        /\ pending'[i] = pending[i] \ {h} /\ effects'[i] = effects[i] \cup what
        /\ \A j \in Lines \ {i} : pending'[j] = pending[j] /\ effects'[j] = effects[j]
    BY DEF Runs, Does, Inv, TypeOK
  <1>2. line[i] # NoLine
    BY <1>1 DEF Inv, PendingInv
  <1>3. \A x \in what : x[1] = h
    OBVIOUS
  <1>4. \A x \in effects[i] : x[1] # h
    BY <1>1 DEF Inv, EffectsInv
  <1>5. TypeOK'
    <2>1. what \in SUBSET (Handlers \X Answers)
      OBVIOUS
    <2>2. /\ pending[i] \ {h} \in SUBSET Handlers
          /\ effects[i] \cup what \in SUBSET (Handlers \X Answers)
      BY <2>1 DEF Inv, TypeOK
    <2> QED
      BY <1>1, <2>2 DEF Inv, TypeOK, Runs, Does
  <1>6. PendingInv'
    <2>. SUFFICES ASSUME NEW j \in Lines
                  PROVE  /\ pending'[j] \subseteq Matching(line[j])
                         /\ line[j] = NoLine => pending'[j] = {} /\ effects'[j] = {}
                         /\ pending'[j] # {} => /\ loaded \/ j \in absent
                                                /\ optedIn' \/ j \in overtaken'
      BY <1>1 DEF PendingInv, Matching, Registered, Prefixed, Addressed
    <2>1. pending'[j] \subseteq pending[j]
      BY <1>1
    <2>2. pending'[j] \subseteq Matching(line[j])
      BY <2>1 DEF Inv, PendingInv
    <2>3. line[j] = NoLine => pending'[j] = {} /\ effects'[j] = {}
      BY <1>1, <1>2 DEF Inv, PendingInv
    <2>4. ASSUME pending'[j] # {}
          PROVE  (loaded \/ j \in absent) /\ (optedIn' \/ j \in overtaken')
      <3>1. pending[j] # {} /\ j \in Waiting
        BY <2>1, <2>4 DEF Waiting
      <3> QED
        BY <3>1 DEF Inv, PendingInv
    <2> QED
      BY <2>2, <2>3, <2>4
  <1>7. EffectsInv'
    <2>. SUFFICES ASSUME NEW j \in Lines, NEW x \in effects'[j]
                  PROVE  /\ \/ Owns(x[1], line[j])
                            \/ x = <<"pm", "error">> /\ TwiceAnswered(j)
                         /\ x[1] \notin pending'[j]
                         /\ \A y \in effects'[j] : x[1] = y[1] => x = y
      BY <1>1 DEF EffectsInv, TwiceAnswered, Registered
    <2>1. CASE j # i
      BY <1>1, <2>1 DEF Inv, EffectsInv
    <2>2. CASE j = i /\ x \in effects[i]
      <3>1. x[1] # h
        BY <1>4, <2>2
      <3>2. /\ \/ Owns(x[1], line[j])
               \/ x = <<"pm", "error">> /\ TwiceAnswered(j)
            /\ x[1] \notin pending[i]
            /\ \A y \in effects[i] : x[1] = y[1] => x = y
        BY <2>2 DEF Inv, EffectsInv
      <3> QED
        BY <1>1, <1>3, <2>2, <3>1, <3>2
    <2>3. CASE j = i /\ x \in what
      <3>1. x[1] = h /\ h \notin pending'[i]
        BY <1>1, <1>3, <2>3
      <3>2. \/ Owns(x[1], line[j])
            \/ x = <<"pm", "error">> /\ TwiceAnswered(j)
        BY <2>3, <3>1
      <3>3. \A y \in effects'[i] : x[1] = y[1] => x = y
        BY <1>1, <1>4, <2>3, <3>1
      <3> QED
        BY <2>3, <3>1, <3>2, <3>3
    <2> QED
      BY <1>1, <2>1, <2>2, <2>3
  <1>8. OwnerInv'
    <2>. SUFFICES ASSUME NEW j \in Lines, NEW k \in Handlers, line[j] # NoLine,
                         line[j].sender = "user", Owns(k, line[j]), k \notin pending'[j],
                         j \in overtaken' => line[j].form \in Local
                  PROVE  effects'[j] # {}
      BY <1>1 DEF OwnerInv
    <2>1. j \in overtaken => line[j].form \in Local
      OBVIOUS
    <2>2. CASE j = i /\ k = h
      <3>1. optedIn \/ line[i].form \in Local
        BY <1>1, <2>1, <2>2 DEF Inv, PendingInv
      <3> QED
        BY <1>1, <2>2, <3>1
    <2>3. CASE ~(j = i /\ k = h)
      <3>1. k \notin pending[j]
        BY <1>1, <2>3
      <3>2. effects[j] # {}
        BY <2>1, <3>1 DEF Inv, OwnerInv
      <3> QED
        BY <1>1, <3>2
    <2> QED
      BY <2>2, <2>3
  <1> QED
    BY <1>5, <1>6, <1>7, <1>8 DEF Inv

\* Most handlers leave the users table alone.
LEMMA PlainHandlerInv ==
    ASSUME Inv, NEW i \in Lines, NEW h \in Handlers, Runs(h, i),
           NEW what \in SUBSET ({h} \X Answers), Does(i, what),
           \A x, y \in what : x = y,
           \A x \in what : \/ Owns(h, line[i])
                           \/ x = <<"pm", "error">> /\ TwiceAnswered(i),
           /\ Owns(h, line[i]) /\ line[i].sender = "user"
           /\ optedIn \/ line[i].form \in Local
           => what # {},
           UNCHANGED <<optedIn, overtaken>>
    PROVE  Inv'
  <1>1. /\ optedIn' \in BOOLEAN /\ optedIn' = optedIn
        /\ overtaken \subseteq overtaken' /\ overtaken' \subseteq Lines
    BY DEF Inv, TypeOK
  <1> QED
    BY <1>1, HandlerInv

\* A handler that answers a line it owns with one thing, whatever it is.
LEMMA AnsweringInv ==
    ASSUME Inv, NEW i \in Lines, NEW h \in Handlers, Runs(h, i),
           NEW a \in Answers, Does(i, {<<h, a>>}), Owns(h, line[i]),
           UNCHANGED <<optedIn, overtaken>>
    PROVE  Inv'
  <1>. DEFINE what == {<<h, a>>}
  <1>1. what \in SUBSET ({h} \X Answers) /\ what # {} /\ Does(i, what)
    OBVIOUS
  <1>2. \A x, y \in what : x = y
    OBVIOUS
  <1>. HIDE DEF what
  <1> QED
    BY <1>1, <1>2, PlainHandlerInv

\* A handler that leaves a line alone that it does not own or whose sender it
\* may not answer.
LEMMA LeavingInv ==
    ASSUME Inv, NEW i \in Lines, NEW h \in Handlers, Runs(h, i), Does(i, {}),
           ~(/\ Owns(h, line[i]) /\ line[i].sender = "user"
             /\ optedIn \/ line[i].form \in Local),
           UNCHANGED <<optedIn, overtaken>>
    PROVE  Inv'
  <1>. DEFINE what == {}
  <1>1. what \in SUBSET ({h} \X Answers) /\ what = {} /\ Does(i, what)
    OBVIOUS
  <1>2. \A x, y \in what : x = y
    OBVIOUS
  <1>. HIDE DEF what
  <1> QED
    BY <1>1, <1>2, PlainHandlerInv

\* A handler that owns a line asks the AI, if its sender passes the guard.
LEMMA AskingInv ==
    ASSUME Inv, NEW i \in Lines, NEW h \in Handlers, Runs(h, i), Owns(h, line[i]),
           AskIfAllowed(i, h), line[i].form \notin Local,
           UNCHANGED <<optedIn, overtaken>>
    PROVE  Inv'
  <1>1. CASE ~loaded
    <2>1. Does(i, {<<h, "error">>}) /\ "error" \in Answers
      BY <1>1 DEF AskIfAllowed, WithTerra, Answers
    <2> QED
      BY <2>1, AnsweringInv
  <1>2. CASE loaded /\ ShouldRespond(line[i])
    <2>1. Does(i, {<<h, "ai">>}) /\ "ai" \in Answers
      BY <1>2 DEF AskIfAllowed, WithTerra, Answers
    <2> QED
      BY <2>1, AnsweringInv
  <1>3. CASE loaded /\ ~ShouldRespond(line[i])
    <2>1. Does(i, {}) /\ ~(line[i].sender = "user" /\ optedIn)
      BY <1>3 DEF AskIfAllowed, WithTerra, ShouldRespond
    <2> QED
      BY <2>1, LeavingInv
  <1> QED
    BY <1>1, <1>2, <1>3

\* optin and optout write the users table besides their answer.
LEMMA ManagementInv ==
    ASSUME Inv, NEW i \in Lines, ManagementCommand(i), Owns("command", line[i])
    PROVE  Inv'
  <1>1. /\ Runs("command", i) /\ "command" \in Handlers
        /\ "local" \in Answers /\ "error" \in Answers
    BY DEF ManagementCommand, Handlers, Answers
  <1>2. CASE ~loaded
    <2>1. Does(i, {<<"command", "error">>}) /\ UNCHANGED <<optedIn, overtaken>>
      BY <1>2 DEF ManagementCommand, WithTerra
    <2> QED
      BY <1>1, <2>1, AnsweringInv
  <1>3. CASE loaded
    <2>. DEFINE what == {<<"command", "local">>}
    <2>1. /\ what \in SUBSET ({"command"} \X Answers) /\ what # {}
          /\ \A x, y \in what : x = y
      BY <1>1
    <2>2. Does(i, what) /\ Writes(i)
      BY <1>3 DEF ManagementCommand, WithTerra
    <2>. HIDE DEF what
    <2>3. optedIn' \in BOOLEAN
      BY <2>2 DEF Writes, Inv, TypeOK
    <2>4. /\ overtaken \subseteq overtaken' /\ overtaken' \subseteq Lines
          /\ optedIn' \/ Waiting \subseteq overtaken'
      BY <2>2, <2>3 DEF Writes, Waiting, Inv, TypeOK
    <2> QED
      BY <1>1, <2>1, <2>2, <2>3, <2>4, HandlerInv
  <1> QED
    BY <1>2, <1>3

\* pm_text_to_ai: its own lines, those of others, and the error between.
LEMMA PmInv ==
    ASSUME Inv, NEW i \in Lines, PmText(i)
    PROVE  Inv'
  <1>1. /\ Runs("pm", i) /\ UNCHANGED <<optedIn, overtaken>> /\ "pm" \in Handlers
        /\ "pm" \in pending[i] /\ "pm" \in Matching(line[i])
    BY DEF PmText, Runs, Handlers, Inv, PendingInv
  <1>2. CASE PmOwns(line[i])
    <2>1. AskIfAllowed(i, "pm") /\ Owns("pm", line[i]) /\ line[i].form \notin Local
      BY <1>1, <1>2
         DEF PmText, Owns, PmOwns, Registered, Commands, Local
    <2> QED
      BY <1>1, <2>1, AskingInv
  <1>3. CASE ~PmOwns(line[i]) /\ (loaded \/ ~line[i].private)
    <2>1. Does(i, {})
      BY <1>3 DEF PmText, WithTerra, Does, Inv, TypeOK
    <2>2. ~Owns("pm", line[i])
      BY <1>3 DEF Owns
    <2> QED
      BY <1>1, <2>1, <2>2, LeavingInv
  <1>4. CASE ~PmOwns(line[i]) /\ ~loaded /\ line[i].private
    <2>. DEFINE what == {<<"pm", "error">>}
    <2>1. Does(i, what)
      BY <1>4 DEF PmText, WithTerra
    <2>2. /\ what \in SUBSET ({"pm"} \X Answers)
          /\ \A x, y \in what : x = y
          /\ \A x \in what : x = <<"pm", "error">>
      BY DEF Answers
    <2>3. TwiceAnswered(i)
      <3>1. i \in absent
        BY <1>1, <1>4 DEF Inv, PendingInv
      <3> QED
        BY <1>4, <3>1 DEF TwiceAnswered, PmOwns
    <2>4. ~Owns("pm", line[i])
      BY <1>4 DEF Owns
    <2>. HIDE DEF what
    <2> QED
      BY <1>1, <2>1, <2>2, <2>3, <2>4, PlainHandlerInv
  <1> QED
    BY <1>2, <1>3, <1>4

\* Each handler is one of those.
LEMMA HandlersInv ==
    ASSUME Inv, NEW i \in Lines, Handle(i)
    PROVE  Inv'
  <1>1. ASSUME NEW h \in Handlers, Runs(h, i)
        PROVE  /\ h \in Matching(line[i])
               /\ h = "command" => Owns(h, line[i])
    BY <1>1 DEF Inv, PendingInv, Runs, Owns
  <1>2. ASSUME UNCHANGED effects
        PROVE  Does(i, {})
    BY <1>2 DEF Does, Inv, TypeOK
  <1>3. /\ "command" \in Handlers /\ "fallback" \in Handlers /\ "addressed" \in Handlers
    BY DEF Handlers
  <1>4. CASE ManagementCommand(i)
    <2>1. Owns("command", line[i])
      BY <1>1, <1>3, <1>4 DEF ManagementCommand
    <2> QED
      BY <1>4, <2>1, ManagementInv
  <1>5. CASE ForeignCommand(i)
    <2>1. /\ Runs("command", i) /\ Does(i, {<<"command", "local">>})
          /\ "local" \in Answers /\ UNCHANGED <<optedIn, overtaken>>
      BY <1>5 DEF ForeignCommand, Answers
    <2> QED
      BY <1>1, <1>3, <2>1, AnsweringInv
  <1>6. CASE AdminCommand(i)
    <2>1. /\ Runs("command", i) /\ UNCHANGED <<optedIn, overtaken>>
          /\ Owns("command", line[i])
      BY <1>1, <1>3, <1>6 DEF AdminCommand
    <2>2. CASE line[i].form = "admin" /\ AskIfAllowed(i, "command")
      <3>1. line[i].form \notin Local
        BY <2>2 DEF Local, Management, AdminOnly
      <3> QED
        BY <1>3, <2>1, <2>2, <3>1, AskingInv
    <2>3. CASE \E a \in {"local", "denied", "error"} : Does(i, {<<"command", a>>})
      <3>1. PICK a \in {"local", "denied", "error"} : Does(i, {<<"command", a>>})
        BY <2>3
      <3>2. a \in Answers
        BY DEF Answers
      <3> QED
        BY <1>3, <2>1, <3>1, <3>2, AnsweringInv
    <2> QED
      BY <1>6, <2>2, <2>3 DEF AdminCommand, WithTerra
  <1>7. CASE HybridCommand(i)
    <2>1. /\ Runs("command", i) /\ UNCHANGED <<optedIn, overtaken>>
          /\ AskIfAllowed(i, "command") /\ line[i].form \notin Local
      BY <1>7 DEF HybridCommand, Hybrid, Local, Management, AdminOnly
    <2> QED
      BY <1>1, <1>3, <2>1, AskingInv
  <1>8. CASE Fallback(i)
    <2>1. Runs("fallback", i) /\ UNCHANGED <<optedIn, overtaken>>
      BY <1>8 DEF Fallback
    <2>2. CASE FallbackOwns(line[i])
      <3>1. /\ AskIfAllowed(i, "fallback") /\ Owns("fallback", line[i])
            /\ line[i].form \notin Local
        BY <1>1, <1>3, <1>8, <2>1, <2>2
           DEF Fallback, Owns, FallbackOwns, Registered, Commands, Local
      <3> QED
        BY <1>3, <2>1, <3>1, AskingInv
    <2>3. CASE ~FallbackOwns(line[i])
      <3>1. Does(i, {}) /\ ~Owns("fallback", line[i])
        BY <1>2, <1>8, <2>3 DEF Fallback, Owns
      <3> QED
        BY <1>3, <2>1, <3>1, LeavingInv
    <2> QED
      BY <2>2, <2>3
  <1>9. CASE AddressedFreeform(i)
    <2>1. Runs("addressed", i) /\ UNCHANGED <<optedIn, overtaken>>
      BY <1>9 DEF AddressedFreeform
    <2>2. CASE AddressedOwns(line[i])
      <3>1. AskIfAllowed(i, "addressed") /\ Owns("addressed", line[i])
        BY <1>1, <1>3, <1>9, <2>1, <2>2 DEF AddressedFreeform, Owns
      <3>2. line[i].form \notin Local
        BY <3>1 DEF Owns, Matching, Addressed, Local, Management, AdminOnly
      <3> QED
        BY <1>3, <2>1, <3>1, <3>2, AskingInv
    <2>3. CASE ~AddressedOwns(line[i])
      <3>1. Does(i, {}) /\ ~Owns("addressed", line[i])
        BY <1>2, <1>9, <2>3 DEF AddressedFreeform, Owns
      <3> QED
        BY <1>3, <2>1, <3>1, LeavingInv
    <2> QED
      BY <2>2, <2>3
  <1>10. CASE PmText(i)
    BY <1>10, PmInv
  <1> QED
    BY <1>4, <1>5, <1>6, <1>7, <1>8, <1>9, <1>10 DEF Handle

\* A reload touches no line, and is remembered for those that wait.
LEMMA ReloadInv ==
    ASSUME Inv, Setup \/ Shutdown
    PROVE  Inv'
  <1>1. /\ UNCHANGED <<optedIn, line, pending, effects, overtaken>>
        /\ loaded' \in BOOLEAN /\ absent \subseteq absent' /\ absent' \subseteq Lines
        /\ loaded' \/ Waiting \subseteq absent'
    BY DEF Setup, Shutdown, Waiting, Inv, TypeOK
  <1>2. TypeOK'
    BY <1>1 DEF Inv, TypeOK
  <1>3. PendingInv'
    BY <1>1 DEF Inv, PendingInv, Waiting, Matching, Registered, Prefixed, Addressed
  <1>4. EffectsInv'
    BY <1>1 DEF Inv, EffectsInv, TwiceAnswered
  <1>5. OwnerInv'
    BY <1>1 DEF Inv, OwnerInv
  <1> QED
    BY <1>2, <1>3, <1>4, <1>5 DEF Inv

----------------------------------------------------------------------------
\* Whatever lines arrive, however their handlers interleave and whenever the
\* plugin is reloaded, what was done for a line its owner did, once, or is the
\* error of pm_text_to_ai; and an owner that ran answered its user.
THEOREM RoutingInvariant == Spec => []Inv
  <1>1. Init => Inv
    <2>. SUFFICES ASSUME Init PROVE Inv
      OBVIOUS
    <2>1. TypeOK
      BY DEF Init, TypeOK
    <2>2. PendingInv /\ EffectsInv /\ OwnerInv
      BY DEF Init, PendingInv, EffectsInv, OwnerInv, NoLine
    <2> QED
      BY <2>1, <2>2 DEF Inv
  <1>2. Inv /\ [Next]_vars => Inv'
    <2>. SUFFICES ASSUME Inv, [Next]_vars PROVE Inv'
      OBVIOUS
    <2>1. ASSUME NEW i \in Lines, Arrive(i) PROVE Inv'
      BY <2>1, ArriveInv
    <2>2. ASSUME NEW i \in Lines, Handle(i) PROVE Inv'
      BY <2>2, HandlersInv
    <2>3. CASE Setup \/ Shutdown
      BY <2>3, ReloadInv
    <2>4. CASE UNCHANGED vars
      <3>1. /\ TypeOK' /\ PendingInv'
        BY <2>4 DEF vars, Inv, TypeOK, PendingInv
      <3>2. EffectsInv' /\ OwnerInv'
        BY <2>4 DEF vars, Inv, EffectsInv, OwnerInv, TwiceAnswered
      <3> QED
        BY <3>1, <3>2 DEF Inv
    <2> QED
      BY <2>1, <2>2, <2>3, <2>4 DEF Next
  <1> QED
    BY <1>1, <1>2, PTL DEF Spec

\* No line is answered twice, whichever of its handlers run, in whatever order
\* and between whatever reloads; a registered command in private that met the
\* plugin shut down may get the error of pm_text_to_ai besides.
THEOREM RoutingAnswersOnce == Spec => []OneEffectPerLine
  <1>1. Inv => OneEffectPerLine
    <2>. SUFFICES ASSUME Inv, NEW i \in Lines, NEW x \in effects[i], NEW y \in effects[i],
                         x # y
                  PROVE  TwiceAnswered(i) /\ <<"pm", "error">> \in {x, y}
      BY DEF OneEffectPerLine
    <2>1. x[1] # y[1] /\ x[1] \in Handlers /\ y[1] \in Handlers
      BY DEF Inv, EffectsInv, TypeOK
    <2>2. ~(Owns(x[1], line[i]) /\ Owns(y[1], line[i]))
      BY <2>1, OwnersAreUnique
    <2> QED
      BY <2>2 DEF Inv, EffectsInv
  <1> QED
    BY <1>1, RoutingInvariant, PTL

\* A prompt is answered by the time its handlers have run, through reloads too,
\* unless it was for the AI and its nick was opted out while it waited.
THEOREM RoutingLeavesNoPrompt == Spec => []EveryPromptHasAnOwner
  <1>1. Inv => EveryPromptHasAnOwner
    <2>. SUFFICES ASSUME Inv, NEW i \in Lines, line[i] # NoLine, pending[i] = {},
                         line[i].sender = "user",
                         line[i].private \/ Addressed(line[i]) \/ Prefixed(line[i]),
                         i \in overtaken => line[i].form \in Local
                  PROVE  effects[i] # {}
      BY DEF EveryPromptHasAnOwner
    <2>1. PICK h \in Handlers : Owns(h, line[i])
      BY PromptsHaveOwners
    <2> QED
      BY <2>1 DEF Inv, OwnerInv
  <1> QED
    BY <1>1, RoutingInvariant, PTL
=============================================================================
