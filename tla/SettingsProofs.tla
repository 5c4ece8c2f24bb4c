--------------------------- MODULE SettingsProofs ---------------------------
(***************************************************************************)
(* Concurrent commands and the messages beside them, for any number of     *)
(* threads, nicks, triggers and tools: what the replies said is what the   *)
(* tables hold, and a message asks with the tools that were enabled.       *)
(***************************************************************************)
EXTENDS Settings, TLAPS, FiniteSetTheorems

\* What an action may do to the threads: the answers of one that ends.
LEMMA AnswerFields ==
    ASSUME TypeOK, NEW e \in Events, NEW text \in Texts,
           NEW t \in Triggers \cup {NoTrigger}, Answer(e, text, t)
    PROVE  /\ pc' = [pc EXCEPT ![e] = "done"] /\ pc'[e] = "done"
           /\ reply' \in [Events -> [text : Texts, trigger : Triggers \cup {NoTrigger}]]
           /\ reply'[e] = [text |-> text, trigger |-> t]
           /\ \A f \in Events \ {e} : reply'[f] = reply[f] /\ pc'[f] = pc[f]
           /\ pc' \in [Events -> {"idle", "acting", "naming", "composing", "asking", "asked",
                                  "done"}]
  <1>1. [text |-> text, trigger |-> t] \in [text : Texts, trigger : Triggers \cup {NoTrigger}]
    OBVIOUS
  <1> QED
    BY <1>1 DEF Answer, TypeOK

----------------------------------------------------------------------------
(* Types *)

\* The commands on prompts keep the types.
LEMMA PromptsTypeOK ==
    ASSUME TypeOK, Next, UNCHANGED <<settings, messages>>
    PROVE  TypeOK'
  <1>. /\ NoTrigger \in Triggers \cup {NoTrigger}
       /\ Location \in Triggers /\ Location \in Triggers \cup {NoTrigger}
    BY TriggerAssumption
  <1>1. PICK e \in Events :
           \/ Receive(e) \/ AddPrompt(e) \/ SetLocation(e) \/ IgnoreLocation(e)
           \/ RemoveByIndex(e) \/ NoSuchPrompt(e) \/ NameRemoved(e)
    BY DEF Next
  <1>2. /\ UNCHANGED <<users, disabled, offered, request, rewrites, changed>>
        /\ command[e] \in {NoCommand} \cup PromptCommands \cup SettingCommands
    BY DEF settings, messages, TypeOK
  <1>3. CASE Receive(e)
    <2>1. PICK c \in PromptCommands : command' = [command EXCEPT ![e] = c]
      BY <1>3 DEF Receive, PromptCommands
    <2> QED
      BY <1>2, <1>3, <2>1 DEF Receive, TypeOK
  <1>4. CASE AddPrompt(e)
    <2>1. /\ command[e].nick \in Nicks /\ command[e].trigger \in Triggers
      BY <1>2, <1>4 DEF AddPrompt, Texts, PromptCommands, SettingCommands, NoCommand
    <2>2. prompts' \subseteq [trigger : Triggers, nick : Nicks]
      <3>1. [trigger |-> command[e].trigger, nick |-> command[e].nick]
               \in [trigger : Triggers, nick : Nicks]
        BY <2>1
      <3>2. \/ prompts' = prompts
            \/ prompts' = prompts \cup {[trigger |-> command[e].trigger,
                                         nick |-> command[e].nick]}
        BY <1>4 DEF AddPrompt, Insert
      <3> QED
        BY <3>1, <3>2 DEF TypeOK
    <2>3. PICK text \in Texts : Answer(e, text, command[e].trigger)
      BY <1>4 DEF AddPrompt, Texts
    <2> QED
      BY <1>2, <1>4, <2>1, <2>2, <2>3, AnswerFields DEF AddPrompt, Texts, TypeOK
  <1>5. CASE SetLocation(e)
    <2>1. /\ command[e].nick \in Nicks /\ command[e].trigger \in Triggers
      BY <1>2, <1>5 DEF SetLocation, Texts, PromptCommands, SettingCommands, NoCommand
    <2>2. prompts' \subseteq [trigger : Triggers, nick : Nicks]
      <3>1. [trigger |-> command[e].trigger, nick |-> command[e].nick]
               \in [trigger : Triggers, nick : Nicks]
        BY <2>1
      <3>2. \/ prompts' = prompts
            \/ prompts' = prompts \cup {[trigger |-> command[e].trigger,
                                         nick |-> command[e].nick]}
        BY <1>5 DEF SetLocation, Insert
      <3> QED
        BY <3>1, <3>2 DEF TypeOK
    <2>3. Answer(e, "asked", Location)
      BY <1>5 DEF SetLocation, Texts
    <2> QED
      BY <1>2, <1>5, <2>2, <2>3, AnswerFields DEF SetLocation, Texts, TypeOK
  <1>6. CASE RemoveByIndex(e)
    BY <1>2, <1>6 DEF RemoveByIndex, TypeOK
  <1>7. CASE NoSuchPrompt(e)
    BY <1>2, <1>7, AnswerFields DEF NoSuchPrompt, Texts, TypeOK
  <1>8. CASE NameRemoved(e)
    <2>1. PICK t \in Triggers \cup {NoTrigger} : Answer(e, "removed", t)
      BY <1>8 DEF NameRemoved, Texts
    <2> QED
      BY <1>2, <1>8, <2>1, AnswerFields DEF NameRemoved, Texts, TypeOK
  <1>9. CASE IgnoreLocation(e)
    BY <1>2, <1>9, AnswerFields DEF IgnoreLocation, Texts, TypeOK
  <1> QED
    BY <1>1, <1>3, <1>4, <1>5, <1>6, <1>7, <1>8, <1>9

\* A row is no missing row, whatever its columns.
LEMMA RowIsRow ==
    ASSUME NEW a \in BOOLEAN, NEW b \in BOOLEAN
    PROVE  [optedIn |-> a, noisy |-> b] # NoRow /\ [optedIn |-> a, noisy |-> b].noisy = b
  BY RowAssumption

\* Without a row a nick has the defaults, with one its two columns.
LEMMA RowColumns ==
    ASSUME TypeOK, NEW n \in Nicks
    PROVE  IsNoisy(n) \in BOOLEAN /\ IsOptedIn(n) \in BOOLEAN
  BY DEF TypeOK, IsNoisy, IsOptedIn

\* The commands on settings and the messages keep them.
LEMMA SettingsTypeOK ==
    ASSUME TypeOK, NEW e \in Events,
           \/ ReceiveSetting(e) \/ ToggleNoisy(e) \/ Opt(e) \/ SwitchTool(e)
           \/ GuardMessage(e) \/ ReadPolicy(e) \/ Request(e) \/ Rewrite(e) \/ AnswerMessage(e)
    PROVE  TypeOK'
  <1>. NoTrigger \in Triggers \cup {NoTrigger}
    OBVIOUS
  <1>1. command[e] \in {NoCommand} \cup PromptCommands \cup SettingCommands
    BY DEF TypeOK
  <1>2. CASE ReceiveSetting(e)
    <2>1. PICK c \in SettingCommands : command' = [command EXCEPT ![e] = c]
      BY <1>2 DEF ReceiveSetting, SettingCommands
    <2> QED
      BY <1>2, <2>1 DEF ReceiveSetting, TypeOK, settings, messages
  <1>3. CASE ToggleNoisy(e)
    <2>1. command[e].nick \in Nicks
      BY <1>1, <1>3 DEF ToggleNoisy, Texts, PromptCommands, SettingCommands, NoCommand
    <2>2. users' \in [Nicks -> {NoRow} \cup [optedIn : BOOLEAN, noisy : BOOLEAN]]
      BY <1>3, <2>1, RowColumns DEF ToggleNoisy, Texts, SetNoisy, TypeOK
    <2>3. PICK text \in Texts : Answer(e, text, NoTrigger)
      BY <1>3 DEF ToggleNoisy, Texts
    <2> QED
      BY <1>3, <2>2, <2>3, AnswerFields DEF ToggleNoisy, Texts, TypeOK, messages
  <1>4. CASE Opt(e)
    <2>1. command[e].nick \in Nicks
      BY <1>1, <1>4 DEF Opt, Texts, PromptCommands, SettingCommands, NoCommand
    <2>2. users' \in [Nicks -> {NoRow} \cup [optedIn : BOOLEAN, noisy : BOOLEAN]]
      BY <1>4, <2>1, RowColumns DEF Opt, Texts, SetOptedIn, TypeOK
    <2> QED
      BY <1>4, <2>2, AnswerFields DEF Opt, Texts, TypeOK, messages
  <1>5. CASE SwitchTool(e)
    <2>1. PICK text \in Texts : Answer(e, text, NoTrigger)
      BY <1>5 DEF SwitchTool, Texts
    <2>2. disabled' \subseteq Tools
      BY <1>5 DEF SwitchTool, TypeOK
    <2>3. changed' \in [Events -> SUBSET Tools]
      <3>1. CASE command[e].tool \in Tools
        <4>1. \A m \in Events : changed[m] \in SUBSET Tools
          BY DEF TypeOK
        <4>2. \A m \in Events : changed[m] \cup {command[e].tool} \in SUBSET Tools
          BY <3>1, <4>1
        <4> QED
          BY <1>5, <3>1, <4>1, <4>2 DEF SwitchTool
      <3>2. CASE command[e].tool \notin Tools
        BY <1>5, <3>2 DEF SwitchTool, TypeOK
      <3> QED
        BY <3>1, <3>2
    <2> QED
      BY <1>5, <2>1, <2>2, <2>3, AnswerFields DEF SwitchTool, Texts, TypeOK
  <1>6. CASE GuardMessage(e)
    <2>1. CASE IsOptedIn(command[e].nick)
      BY <1>6, <2>1 DEF GuardMessage, Texts, TypeOK, settings, messages
    <2>2. CASE ~IsOptedIn(command[e].nick)
      BY <1>6, <2>2, AnswerFields DEF GuardMessage, Texts, TypeOK, settings, messages
    <2> QED
      BY <2>1, <2>2
  <1>7. CASE ReadPolicy(e)
    BY <1>7 DEF ReadPolicy, TypeOK, settings
  <1>8. CASE Request(e)
    BY <1>8 DEF Request, RewriteTools, TypeOK, settings
  <1>9. CASE Rewrite(e)
    <2>1. rewrites[e] + 1 \in 0..MaxRewrites
      BY <1>9, RewriteAssumption DEF Rewrite, TypeOK
    <2> QED
      BY <1>9, <2>1 DEF Rewrite, TypeOK, settings
  <1>10. CASE AnswerMessage(e)
    BY <1>10, AnswerFields DEF AnswerMessage, Texts, TypeOK, settings, messages
  <1> QED
    BY <1>2, <1>3, <1>4, <1>5, <1>6, <1>7, <1>8, <1>9, <1>10

----------------------------------------------------------------------------
(* What a step does to the threads *)

\* The thread of e goes on and no other does; it answers when it ends, and it
\* names a prompt as removed before that.
Moves(e) ==
    /\ pc[e] # "done" /\ pc'[e] # "idle"
    /\ pc'[e] # "done" => reply'[e] = reply[e]
    /\ pc'[e] \notin {"naming", "done"} => removed'[e] = removed[e] /\ pc[e] # "naming"
    /\ pc[e] # "idle" => command'[e] = command[e]
    /\ \A f \in Events \ {e} :
          /\ pc'[f] = pc[f] /\ reply'[f] = reply[f]
          /\ removed'[f] = removed[f] /\ command'[f] = command[f]

\* A thread that ends with an answer moves so.
LEMMA AnsweringMoves ==
    ASSUME TypeOK, NEW e \in Events, NEW text, NEW t, pc[e] \notin {"idle", "done"},
           Answer(e, text, t), UNCHANGED <<command, removed>>
    PROVE  Moves(e) /\ reply'[e].text = text
  BY DEF Answer, Moves, TypeOK

\* So do all commands on prompts, and but for .addprompt and .rmprompt they say
\* nothing of a prompt being added or of a noisy mode.
LEMMA PromptsMove ==
    ASSUME TypeOK, NEW e \in Events,
           \/ Receive(e) \/ AddPrompt(e) \/ SetLocation(e) \/ IgnoreLocation(e)
           \/ RemoveByIndex(e) \/ NoSuchPrompt(e) \/ NameRemoved(e)
    PROVE  /\ Moves(e)
           /\ pc'[e] = "done" => reply'[e].text \notin {"ON", "OFF"}
  <1>1. CASE Receive(e)
    BY <1>1 DEF Receive, Moves, TypeOK
  <1>2. CASE AddPrompt(e)
    <2>1. PICK text \in {"added", "exists"} : Answer(e, text, command[e].trigger)
      BY <1>2 DEF AddPrompt
    <2> QED
      BY <1>2, <2>1, AnsweringMoves DEF AddPrompt
  <1>3. CASE SetLocation(e)
    BY <1>3, AnsweringMoves DEF SetLocation
  <1>4. CASE RemoveByIndex(e)
    BY <1>4 DEF RemoveByIndex, Moves, TypeOK
  <1>5. CASE NoSuchPrompt(e)
    <2>1. /\ Answer(e, "no such", NoTrigger) /\ pc[e] = "acting"
          /\ UNCHANGED <<command, removed>>
      BY <1>5 DEF NoSuchPrompt
    <2>2. pc[e] \notin {"idle", "done"}
      BY <2>1
    <2>3. Moves(e) /\ reply'[e].text = "no such"
      BY <2>1, <2>2, AnsweringMoves
    <2> QED
      BY <2>3
  <1>6. CASE NameRemoved(e)
    <2>1. PICK t : Answer(e, "removed", t)
      BY <1>6 DEF NameRemoved
    <2> QED
      BY <1>6, <2>1, AnsweringMoves DEF NameRemoved
  <1>7. CASE IgnoreLocation(e)
    <2>1. /\ Answer(e, "ignored", NoTrigger) /\ pc[e] = "acting"
          /\ UNCHANGED <<command, removed>>
      BY <1>7 DEF IgnoreLocation
    <2>2. pc[e] \notin {"idle", "done"}
      BY <2>1
    <2>3. Moves(e) /\ reply'[e].text = "ignored"
      BY <2>1, <2>2, AnsweringMoves
    <2> QED
      BY <2>3
  <1> QED
    BY <1>1, <1>2, <1>3, <1>4, <1>5, <1>6, <1>7

\* And so do the commands on settings and the messages, which leave the prompts
\* alone.
LEMMA SettingsMove ==
    ASSUME TypeOK, NEW e \in Events,
           \/ ReceiveSetting(e) \/ ToggleNoisy(e) \/ Opt(e) \/ SwitchTool(e)
           \/ GuardMessage(e) \/ ReadPolicy(e) \/ Request(e) \/ Rewrite(e) \/ AnswerMessage(e)
    PROVE  /\ Moves(e)
           /\ pc'[e] = "done" => reply'[e].text # "added"
           /\ pc'[e] = "done" /\ ~ToggleNoisy(e) => reply'[e].text \notin {"ON", "OFF"}
           /\ prompts' = prompts /\ removed' = removed
  <1>1. CASE ReceiveSetting(e)
    BY <1>1 DEF ReceiveSetting, Moves, TypeOK
  <1>2. CASE ToggleNoisy(e)
    <2>1. PICK text \in {"ON", "OFF"} : Answer(e, text, NoTrigger)
      BY <1>2 DEF ToggleNoisy
    <2> QED
      BY <1>2, <2>1, AnsweringMoves DEF ToggleNoisy
  <1>3. CASE Opt(e)
    BY <1>3, AnsweringMoves DEF Opt
  <1>4. CASE SwitchTool(e)
    <2>1. PICK text \in {"switched", "unknown tool"} : Answer(e, text, NoTrigger)
      BY <1>4 DEF SwitchTool
    <2> QED
      BY <1>4, <2>1, AnsweringMoves DEF SwitchTool
  <1>5. CASE GuardMessage(e)
    <2>1. CASE IsOptedIn(command[e].nick)
      BY <1>5, <2>1 DEF GuardMessage, Moves, TypeOK
    <2>2. CASE ~IsOptedIn(command[e].nick)
      BY <1>5, <2>2, AnsweringMoves DEF GuardMessage
    <2> QED
      BY <2>1, <2>2
  <1>6. CASE ReadPolicy(e)
    BY <1>6 DEF ReadPolicy, Moves, TypeOK
  <1>7. CASE Request(e)
    BY <1>7 DEF Request, Moves, TypeOK
  <1>8. CASE Rewrite(e)
    BY <1>8 DEF Rewrite, Moves, TypeOK
  <1>9. CASE AnswerMessage(e)
    BY <1>9, AnsweringMoves DEF AnswerMessage
  <1> QED
    BY <1>1, <1>2, <1>3, <1>4, <1>5, <1>6, <1>7, <1>8, <1>9

\* A thread that moves keeps to answering once.
LEMMA MovesAnswerInv ==
    ASSUME TypeOK, AnswerInv, NEW e \in Events, Moves(e)
    PROVE  AnswerInv'
  <1>1. IsFiniteSet({f \in Events : pc'[f] # "idle"})
    <2>1. {f \in Events : pc'[f] # "idle"} \subseteq {f \in Events : pc[f] # "idle"} \cup {e}
      BY DEF Moves
    <2>2. IsFiniteSet({f \in Events : pc[f] # "idle"} \cup {e})
      BY FS_AddElement DEF AnswerInv
    <2> QED
      BY <2>1, <2>2, FS_Subset
  <1>2. ASSUME NEW f \in Events
        PROVE  /\ pc'[f] # "done" => reply'[f].text = "none"
               /\ pc'[f] \notin {"naming", "done"} => removed'[f] = NoTrigger
    <2>1. CASE f = e
      BY <2>1 DEF AnswerInv, Moves
    <2>2. CASE f # e
      BY <2>2 DEF AnswerInv, Moves
    <2> QED
      BY <2>1, <2>2
  <1> QED
    BY <1>1, <1>2 DEF AnswerInv

----------------------------------------------------------------------------
(* The replies against the tables *)

\* The threads that said so are finitely many: they have ended.
LEMMA SaidIsFinite ==
    ASSUME AnswerInv
    PROVE  /\ \A t : IsFiniteSet(Answered("added", t))
           /\ \A t \in Triggers : IsFiniteSet({e \in Events : removed[e] = t})
           /\ \A n : IsFiniteSet(Told(n, "ON")) /\ IsFiniteSet(Told(n, "OFF"))
  <1>. DEFINE Started == {e \in Events : pc[e] # "idle"}
  <1>1. IsFiniteSet(Started)
    BY DEF AnswerInv
  <1>2. ASSUME NEW t PROVE Answered("added", t) \subseteq Started
    BY DEF AnswerInv, Answered
  <1>3. ASSUME NEW t \in Triggers PROVE {e \in Events : removed[e] = t} \subseteq Started
    <2>1. t # NoTrigger
      BY TriggerAssumption DEF NoTrigger
    <2> QED
      BY <2>1 DEF AnswerInv
  <1>4. ASSUME NEW n
        PROVE  Told(n, "ON") \subseteq Started /\ Told(n, "OFF") \subseteq Started
    BY DEF AnswerInv, Told
  <1> QED
    BY <1>1, <1>2, <1>3, <1>4, FS_Subset

\* A thread that says nothing of a prompt and leaves the other triggers alone.
LEMMA TableFrame ==
    ASSUME AnswerInv, TableMatchesReplies, NEW e \in Events, Moves(e), removed' = removed,
           pc'[e] = "done" => reply'[e].text # "added",
           \A t \in Triggers \ {Location} : Taken(t)' <=> Taken(t)
    PROVE  TableMatchesReplies'
  <1>. SUFFICES ASSUME NEW t \in Triggers \ {Location}
                PROVE  Cardinality(Answered("added", t)')
                          = Cardinality({f \in Events : removed'[f] = t})
                              + (IF Taken(t)' THEN 1 ELSE 0)
    BY DEF TableMatchesReplies
  <1>1. reply[e].text # "added" /\ reply'[e].text # "added"
    BY DEF AnswerInv, Moves
  <1>2. \A f \in Events : reply'[f] = [text |-> "added", trigger |-> t]
                          <=> reply[f] = [text |-> "added", trigger |-> t]
    BY <1>1 DEF Moves
  <1>3. Answered("added", t)' = Answered("added", t)
    BY <1>2 DEF Answered
  <1> QED
    BY <1>3 DEF TableMatchesReplies

\* .addprompt: one more answer for the trigger that is now taken.
LEMMA AddPromptTable ==
    ASSUME TypeOK, AnswerInv, TableMatchesReplies, NEW e \in Events, AddPrompt(e)
    PROVE  TableMatchesReplies'
  <1>. DEFINE c == command[e]
  <1>1. Moves(e) /\ removed' = removed /\ c.trigger \in Triggers
    <2>1. c \in {NoCommand} \cup PromptCommands \cup SettingCommands
      BY DEF TypeOK
    <2>2. c.trigger \in Triggers
      BY <2>1 DEF AddPrompt, PromptCommands, SettingCommands, NoCommand
    <2> QED
      BY <2>2, PromptsMove DEF AddPrompt
  <1>2. CASE Taken(c.trigger)
    <2>1. prompts' = prompts /\ Answer(e, "exists", c.trigger)
      BY <1>2 DEF AddPrompt, Insert
    <2>2. reply'[e].text = "exists"
      BY <2>1 DEF Answer, TypeOK
    <2>3. \A t \in Triggers \ {Location} : Taken(t)' <=> Taken(t)
      BY <2>1 DEF Taken
    <2> QED
      BY <1>1, <2>2, <2>3, TableFrame
  <1>3. CASE ~Taken(c.trigger)
    <2>1. /\ prompts' = prompts \cup {[trigger |-> c.trigger, nick |-> c.nick]}
          /\ Answer(e, "added", c.trigger)
      BY <1>3 DEF AddPrompt, Insert
    <2>2. /\ reply'[e] = [text |-> "added", trigger |-> c.trigger]
          /\ \A f \in Events \ {e} : reply'[f] = reply[f]
          /\ reply[e].text # "added"
      BY <2>1, <1>1 DEF Answer, TypeOK, AnswerInv, Moves
    <2>3. SUFFICES ASSUME NEW t \in Triggers \ {Location}
                   PROVE  Cardinality(Answered("added", t)')
                             = Cardinality({f \in Events : removed'[f] = t})
                                 + (IF Taken(t)' THEN 1 ELSE 0)
      BY DEF TableMatchesReplies
    <2>4. e \notin Answered("added", t)
      BY <2>2 DEF Answered
    <2>5. CASE t = c.trigger
      <3>1. Answered("added", t)' = Answered("added", t) \cup {e}
        BY <2>2, <2>5 DEF Answered
      <3>2. Cardinality(Answered("added", t)') = Cardinality(Answered("added", t)) + 1
        <4>1. IsFiniteSet(Answered("added", t))
          BY SaidIsFinite
        <4> QED
          BY <2>4, <3>1, <4>1, FS_AddElement
      <3>3. ~Taken(t) /\ Taken(t)'
        <4>1. ~Taken(t)
          BY <1>3, <2>5
        <4>2. \E p \in prompts' : p.trigger = t
          <5>1. [trigger |-> c.trigger, nick |-> c.nick].trigger = t
            BY <2>5
          <5> QED
            BY <2>1, <5>1
        <4> QED
          BY <4>1, <4>2 DEF Taken
      <3>4. Cardinality(Answered("added", t)) = Cardinality({f \in Events : removed[f] = t}) + 0
        BY <3>3 DEF TableMatchesReplies
      <3>5. Cardinality({f \in Events : removed[f] = t}) \in Nat
        BY SaidIsFinite, FS_CardinalityType
      <3> QED
        BY <1>1, <3>2, <3>3, <3>4, <3>5
    <2>6. CASE t # c.trigger
      <3>1. Answered("added", t)' = Answered("added", t)
        BY <2>2, <2>6 DEF Answered
      <3>2. Taken(t)' <=> Taken(t)
        BY <2>1, <2>6 DEF Taken
      <3> QED
        BY <1>1, <3>1, <3>2 DEF TableMatchesReplies
    <2> QED
      BY <2>5, <2>6
  <1> QED
    BY <1>2, <1>3

\* .rmprompt: the trigger it takes out was taken, and it took out none before.
LEMMA RemoveByIndexTable ==
    ASSUME TypeOK, AnswerInv, TableMatchesReplies, NEW e \in Events, RemoveByIndex(e)
    PROVE  TableMatchesReplies'
  <1>1. PICK u \in Triggers :
           /\ Taken(u)
           /\ removed' = [removed EXCEPT ![e] = u]
           /\ prompts' = {p \in prompts : p.trigger # u}
    BY DEF RemoveByIndex, Listed, Taken
  <1>2. reply' = reply /\ removed[e] = NoTrigger
    BY DEF RemoveByIndex, AnswerInv
  <1>. SUFFICES ASSUME NEW t \in Triggers \ {Location}
                PROVE  Cardinality(Answered("added", t)')
                          = Cardinality({f \in Events : removed'[f] = t})
                              + (IF Taken(t)' THEN 1 ELSE 0)
    BY DEF TableMatchesReplies
  <1>3. Answered("added", t)' = Answered("added", t)
    BY <1>2 DEF Answered
  <1>4. t # NoTrigger
    BY TriggerAssumption DEF NoTrigger
  <1>5. CASE t = u
    <2>1. e \notin {f \in Events : removed[f] = t}
      BY <1>2, <1>4
    <2>2. {f \in Events : removed'[f] = t} = {f \in Events : removed[f] = t} \cup {e}
      BY <1>1, <1>5 DEF TypeOK
    <2>3. /\ Cardinality({f \in Events : removed'[f] = t})
                = Cardinality({f \in Events : removed[f] = t}) + 1
          /\ Cardinality({f \in Events : removed[f] = t}) \in Nat
      BY <2>1, <2>2, SaidIsFinite, FS_AddElement, FS_CardinalityType
    <2>4. Taken(t) /\ ~Taken(t)'
      BY <1>1, <1>5 DEF Taken
    <2> QED
      BY <1>3, <2>3, <2>4 DEF TableMatchesReplies
  <1>6. CASE t # u
    <2>1. {f \in Events : removed'[f] = t} = {f \in Events : removed[f] = t}
      BY <1>1, <1>2, <1>4, <1>6 DEF TypeOK
    <2>2. Taken(t)' <=> Taken(t)
      BY <1>1, <1>6 DEF Taken
    <2> QED
      BY <1>3, <2>1, <2>2 DEF TableMatchesReplies
  <1> QED
    BY <1>5, <1>6

\* A thread that changes no noisy mode and says nothing of one.
LEMMA NoisyFrame ==
    ASSUME AnswerInv, NoisyMatchesReplies, NEW e \in Events, Moves(e),
           pc'[e] = "done" => reply'[e].text \notin {"ON", "OFF"},
           \A n \in Nicks : IsNoisy(n)' <=> IsNoisy(n)
    PROVE  NoisyMatchesReplies'
  <1>1. reply[e].text = "none" /\ reply'[e].text \notin {"ON", "OFF"}
    BY DEF AnswerInv, Moves
  <1>2. ASSUME NEW n, NEW text \in {"ON", "OFF"}
        PROVE  Told(n, text)' = Told(n, text)
    BY <1>1 DEF Told, Moves
  <1> QED
    BY <1>2 DEF NoisyMatchesReplies

\* .noisy: the answer says what the mode has become, and it was the other.
LEMMA ToggleNoisyReplies ==
    ASSUME TypeOK, AnswerInv, NoisyMatchesReplies, NEW e \in Events, ToggleNoisy(e)
    PROVE  NoisyMatchesReplies'
  <1>. DEFINE u == command[e].nick
  <1>1. /\ command' = command /\ pc[e] = "acting" /\ reply[e].text = "none"
        /\ Answer(e, IF IsNoisy(u) THEN "OFF" ELSE "ON", NoTrigger)
        /\ SetNoisy(u, ~IsNoisy(u))
    BY DEF ToggleNoisy, AnswerInv
  <1>2. /\ reply'[e].text = (IF IsNoisy(u) THEN "OFF" ELSE "ON")
        /\ \A f \in Events \ {e} : reply'[f] = reply[f]
    BY <1>1 DEF Answer, TypeOK
  <1>. SUFFICES ASSUME NEW n \in Nicks
                PROVE  Cardinality(Told(n, "ON")')
                          = Cardinality(Told(n, "OFF")') + (IF IsNoisy(n)' THEN 1 ELSE 0)
    BY DEF NoisyMatchesReplies
  <1>3. /\ IsFiniteSet(Told(n, "ON")) /\ IsFiniteSet(Told(n, "OFF"))
        /\ Cardinality(Told(n, "ON")) \in Nat /\ Cardinality(Told(n, "OFF")) \in Nat
        /\ e \notin Told(n, "ON") /\ e \notin Told(n, "OFF")
    BY <1>1, SaidIsFinite, FS_CardinalityType DEF Told
  <1>4. CASE n # u
    <2>1. Told(n, "ON")' = Told(n, "ON") /\ Told(n, "OFF")' = Told(n, "OFF")
      BY <1>1, <1>2, <1>3, <1>4 DEF Told
    <2>2. IsNoisy(n)' <=> IsNoisy(n)
      BY <1>1, <1>4 DEF SetNoisy, IsNoisy, TypeOK
    <2> QED
      BY <2>1, <2>2 DEF NoisyMatchesReplies
  <1>5. CASE n = u
    <2>1. IsNoisy(n)' <=> ~IsNoisy(n)
      <3>1. users'[n] = [optedIn |-> IsOptedIn(n), noisy |-> ~IsNoisy(n)]
        BY <1>1, <1>5 DEF SetNoisy, TypeOK
      <3>2. (~IsNoisy(n)) \in BOOLEAN /\ IsOptedIn(n) \in BOOLEAN
        BY RowColumns
      <3>3. users'[n] # NoRow /\ users'[n].noisy = ~IsNoisy(n)
        BY <3>1, <3>2, RowIsRow
      <3> QED
        BY <3>3 DEF IsNoisy
    <2>2. CASE IsNoisy(n)
      <3>0. Cardinality(Told(n, "ON")) = Cardinality(Told(n, "OFF")) + 1
        BY <2>2 DEF NoisyMatchesReplies
      <3>1. Told(n, "ON")' = Told(n, "ON") /\ Told(n, "OFF")' = Told(n, "OFF") \cup {e}
        BY <1>1, <1>2, <1>3, <1>5, <2>2 DEF Told
      <3>2. Cardinality(Told(n, "OFF")') = Cardinality(Told(n, "OFF")) + 1
        BY <1>3, <3>1, FS_AddElement
      <3> QED
        BY <1>3, <2>1, <2>2, <3>0, <3>1, <3>2
    <2>3. CASE ~IsNoisy(n)
      <3>0. Cardinality(Told(n, "ON")) = Cardinality(Told(n, "OFF")) + 0
        BY <2>3 DEF NoisyMatchesReplies
      <3>1. Told(n, "OFF")' = Told(n, "OFF") /\ Told(n, "ON")' = Told(n, "ON") \cup {e}
        BY <1>1, <1>2, <1>3, <1>5, <2>3 DEF Told
      <3>2. Cardinality(Told(n, "ON")') = Cardinality(Told(n, "ON")) + 1
        BY <1>3, <3>1, FS_AddElement
      <3> QED
        BY <1>3, <2>1, <2>3, <3>0, <3>1, <3>2
    <2> QED
      BY <2>2, <2>3
  <1> QED
    BY <1>4, <1>5

\* .optin and .optout write the same row and keep its noisy mode.
LEMMA OptKeepsNoisy ==
    ASSUME TypeOK, NEW e \in Events, Opt(e)
    PROVE  \A n \in Nicks : IsNoisy(n)' <=> IsNoisy(n)
  <1>. DEFINE u == command[e].nick
              b == command[e].kind = "optin"
  <1>. SUFFICES ASSUME NEW n \in Nicks PROVE IsNoisy(n)' <=> IsNoisy(n)
    OBVIOUS
  <1>1. users' = [users EXCEPT ![u] = [optedIn |-> b, noisy |-> IsNoisy(u)]]
    BY DEF Opt, SetOptedIn
  <1>2. CASE n = u
    <2>1. users'[n] = [optedIn |-> b, noisy |-> IsNoisy(n)]
      BY <1>1, <1>2 DEF TypeOK
    <2>2. b \in BOOLEAN /\ IsNoisy(n) \in BOOLEAN
      BY RowColumns
    <2>3. users'[n] # NoRow /\ users'[n].noisy = IsNoisy(n)
      <3>. HIDE DEF b
      <3> QED
        BY <2>1, <2>2, RowIsRow
    <2> QED
      BY <2>3 DEF IsNoisy
  <1>3. CASE n # u
    BY <1>1, <1>3 DEF IsNoisy, TypeOK
  <1> QED
    BY <1>2, <1>3

----------------------------------------------------------------------------
(* The tools of a message *)

\* A thread that goes elsewhere leaves the snapshots of all alone.
LEMMA PolicyFrame ==
    ASSUME PolicyInv, NEW e \in Events, Moves(e), pc'[e] \notin {"asking", "asked"},
           UNCHANGED <<disabled, messages>>
    PROVE  PolicyInv'
  BY DEF PolicyInv, Moves, messages

\* The messages' own steps and the commands that switch tools.
LEMMA SettingsPolicyInv ==
    ASSUME TypeOK, PolicyInv, NEW e \in Events,
           \/ ReceiveSetting(e) \/ ToggleNoisy(e) \/ Opt(e) \/ SwitchTool(e)
           \/ GuardMessage(e) \/ ReadPolicy(e) \/ Request(e) \/ Rewrite(e) \/ AnswerMessage(e)
    PROVE  PolicyInv'
  <1>1. Moves(e)
    BY SettingsMove
  <1>2. CASE \/ ReceiveSetting(e) \/ ToggleNoisy(e) \/ Opt(e)
             \/ GuardMessage(e) \/ AnswerMessage(e)
    <2>1. pc'[e] \notin {"asking", "asked"}
      BY <1>2 DEF ReceiveSetting, ToggleNoisy, Opt, GuardMessage, AnswerMessage, Answer, TypeOK
    <2>2. UNCHANGED <<disabled, messages>>
      BY <1>2 DEF ReceiveSetting, ToggleNoisy, Opt, GuardMessage, AnswerMessage, settings
    <2> QED
      BY <1>1, <2>1, <2>2, PolicyFrame
  <1>3. CASE SwitchTool(e)
    <2>1. pc'[e] = "done"
      BY <1>3 DEF SwitchTool, Answer, TypeOK
    <2>2. CASE command[e].tool \notin Tools
      <3>1. UNCHANGED <<disabled, messages>>
        BY <1>3, <2>2 DEF SwitchTool, messages
      <3> QED
        BY <1>1, <2>1, <3>1, PolicyFrame
    <2>3. CASE command[e].tool \in Tools
      <3>1. /\ \A t \in Tools \ {command[e].tool} : t \in disabled' <=> t \in disabled
            /\ offered' = offered /\ request' = request
        BY <1>3, <2>3 DEF SwitchTool
      <3>2. \A m \in Events :
               pc[m] # "idle" => changed'[m] = changed[m] \cup {command[e].tool}
        BY <1>3, <2>3 DEF SwitchTool
      <3>3. ASSUME NEW m \in Events
            PROVE  /\ pc'[m] \in {"asking", "asked"} =>
                         \A t \in Tools \ changed'[m] : t \in offered'[m] <=> t \notin disabled'
                   /\ pc'[m] = "asked" => request'[m] = offered'[m]
        <4>1. CASE m = e
          BY <2>1, <4>1
        <4>2. CASE m # e
          BY <1>1, <3>1, <3>2, <4>2 DEF PolicyInv, Moves
        <4> QED
          BY <4>1, <4>2
      <3> QED
        BY <3>3 DEF PolicyInv
    <2> QED
      BY <2>2, <2>3
  <1>4. CASE ReadPolicy(e)
    <2>1. /\ offered' = [offered EXCEPT ![e] = Tools \ disabled] /\ pc'[e] = "asking"
          /\ UNCHANGED <<disabled, request, changed>>
      BY <1>4 DEF ReadPolicy, settings, TypeOK
    <2>2. /\ offered'[e] = Tools \ disabled
          /\ \A m \in Events \ {e} : offered'[m] = offered[m]
      BY <2>1 DEF TypeOK
    <2>3. ASSUME NEW m \in Events
          PROVE  /\ pc'[m] \in {"asking", "asked"} =>
                       \A t \in Tools \ changed'[m] : t \in offered'[m] <=> t \notin disabled'
                 /\ pc'[m] = "asked" => request'[m] = offered'[m]
      <3>1. CASE m = e
        BY <2>1, <2>2, <3>1
      <3>2. CASE m # e
        BY <1>1, <2>1, <2>2, <3>2 DEF PolicyInv, Moves
      <3> QED
        BY <3>1, <3>2
    <2> QED
      BY <2>3 DEF PolicyInv
  <1>5. CASE Request(e)
    <2>1. /\ pc[e] = "asking" /\ request' = [request EXCEPT ![e] = offered[e]]
          /\ UNCHANGED <<disabled, offered, changed>>
      BY <1>5 DEF Request, RewriteTools, settings
    <2>2. ASSUME NEW m \in Events
          PROVE  /\ pc'[m] \in {"asking", "asked"} =>
                       \A t \in Tools \ changed'[m] : t \in offered'[m] <=> t \notin disabled'
                 /\ pc'[m] = "asked" => request'[m] = offered'[m]
      <3>1. CASE m = e
        BY <2>1, <3>1 DEF PolicyInv, TypeOK
      <3>2. CASE m # e
        BY <1>1, <2>1, <3>2 DEF PolicyInv, Moves, TypeOK
      <3> QED
        BY <3>1, <3>2
    <2> QED
      BY <2>2 DEF PolicyInv
  <1>6. CASE Rewrite(e)
    <2>1. /\ pc[e] = "asked" /\ pc'[e] = "asking"
          /\ UNCHANGED <<disabled, offered, request, changed>>
      BY <1>6 DEF Rewrite, settings, TypeOK
    <2> QED
      BY <1>1, <2>1 DEF PolicyInv, Moves
  <1> QED
    BY <1>2, <1>3, <1>4, <1>5, <1>6

----------------------------------------------------------------------------
(* The theorems *)

\* The commands on prompts keep the invariant.
LEMMA PromptsKeepInv ==
    ASSUME SettingsInv, Next, UNCHANGED <<settings, messages>>
    PROVE  SettingsInv'
  <1>1. PICK e \in Events :
           \/ Receive(e) \/ AddPrompt(e) \/ SetLocation(e) \/ IgnoreLocation(e)
           \/ RemoveByIndex(e) \/ NoSuchPrompt(e) \/ NameRemoved(e)
    BY DEF Next
  <1>2. TypeOK /\ AnswerInv /\ PolicyInv /\ TableMatchesReplies /\ NoisyMatchesReplies
    BY DEF SettingsInv
  <1>3. /\ Moves(e)
        /\ pc'[e] = "done" => reply'[e].text \notin {"ON", "OFF"}
    BY <1>1, <1>2, PromptsMove
  <1>4. TypeOK' /\ AnswerInv'
    BY <1>2, <1>3, PromptsTypeOK, MovesAnswerInv
  <1>5. PolicyInv'
    <2>1. pc'[e] \notin {"asking", "asked"}
      BY <1>1, <1>2 DEF Receive, AddPrompt, SetLocation, IgnoreLocation, RemoveByIndex,
                  NoSuchPrompt, NameRemoved, Answer, TypeOK
    <2>2. UNCHANGED <<disabled, messages>>
      BY DEF settings
    <2> QED
      BY <1>2, <1>3, <2>1, <2>2, PolicyFrame
  <1>6. NoisyMatchesReplies'
    <2>1. \A n \in Nicks : IsNoisy(n)' <=> IsNoisy(n)
      BY DEF IsNoisy, settings
    <2> QED
      BY <1>2, <1>3, <2>1, NoisyFrame
  <1>7. TableMatchesReplies'
    <2>1. CASE AddPrompt(e)
      BY <1>2, <2>1, AddPromptTable
    <2>2. CASE RemoveByIndex(e)
      BY <1>2, <2>2, RemoveByIndexTable
    <2>3. CASE \/ Receive(e) \/ SetLocation(e) \/ IgnoreLocation(e)
               \/ NoSuchPrompt(e) \/ NameRemoved(e)
      <3>1. removed' = removed
        BY <2>3 DEF Receive, SetLocation, IgnoreLocation, NoSuchPrompt, NameRemoved
      <3>2. pc'[e] = "done" => reply'[e].text # "added"
        <4>1. CASE Receive(e)
          BY <1>2, <4>1 DEF Receive, TypeOK
        <4>2. CASE SetLocation(e) \/ IgnoreLocation(e) \/ NoSuchPrompt(e) \/ NameRemoved(e)
          <5>1. PICK text \in {"asked", "ignored", "no such", "removed"} : \E t : Answer(e, text, t)
            BY <4>2 DEF SetLocation, IgnoreLocation, NoSuchPrompt, NameRemoved
          <5>2. PICK t : Answer(e, text, t)
            BY <5>1
          <5>3. reply'[e].text = text
            BY <1>2, <5>2 DEF Answer, TypeOK
          <5> QED
            BY <5>3
        <4> QED
          BY <2>3, <4>1, <4>2
      <3>3. \A t \in Triggers \ {Location} : Taken(t)' <=> Taken(t)
        <4>1. CASE SetLocation(e)
          <5>1. command[e].trigger = Location
            BY <1>2, <4>1
               DEF SetLocation, TypeOK, PromptCommands, SettingCommands, NoCommand
          <5>2. \/ prompts' = prompts
                \/ prompts' = prompts \cup {[trigger |-> Location, nick |-> command[e].nick]}
            BY <4>1, <5>1 DEF SetLocation, Insert
          <5> QED
            BY <5>2 DEF Taken
        <4>2. CASE prompts' = prompts
          BY <4>2 DEF Taken
        <4> QED
          BY <2>3, <4>1, <4>2 DEF Receive, IgnoreLocation, NoSuchPrompt, NameRemoved
      <3> QED
        BY <1>2, <1>3, <3>1, <3>2, <3>3, TableFrame
    <2> QED
      BY <1>1, <2>1, <2>2, <2>3
  <1> QED
    BY <1>4, <1>5, <1>6, <1>7 DEF SettingsInv

\* So do the commands on settings and the messages.
LEMMA SettingsKeepInv ==
    ASSUME SettingsInv, NEW e \in Events,
           \/ ReceiveSetting(e) \/ ToggleNoisy(e) \/ Opt(e) \/ SwitchTool(e)
           \/ GuardMessage(e) \/ ReadPolicy(e) \/ Request(e) \/ Rewrite(e) \/ AnswerMessage(e)
    PROVE  SettingsInv'
  <1>1. TypeOK /\ AnswerInv /\ PolicyInv /\ TableMatchesReplies /\ NoisyMatchesReplies
    BY DEF SettingsInv
  <1>2. /\ Moves(e)
        /\ pc'[e] = "done" => reply'[e].text # "added"
        /\ pc'[e] = "done" /\ ~ToggleNoisy(e) => reply'[e].text \notin {"ON", "OFF"}
        /\ prompts' = prompts /\ removed' = removed
    BY <1>1, SettingsMove
  <1>3. TypeOK' /\ AnswerInv' /\ PolicyInv'
    BY <1>1, <1>2, SettingsTypeOK, MovesAnswerInv, SettingsPolicyInv
  <1>4. TableMatchesReplies'
    <2>1. \A t \in Triggers \ {Location} : Taken(t)' <=> Taken(t)
      BY <1>2 DEF Taken
    <2> QED
      BY <1>1, <1>2, <2>1, TableFrame
  <1>5. NoisyMatchesReplies'
    <2>1. CASE ToggleNoisy(e)
      BY <1>1, <2>1, ToggleNoisyReplies
    <2>2. CASE ~ToggleNoisy(e)
      <3>1. \A n \in Nicks : IsNoisy(n)' <=> IsNoisy(n)
        <4>1. CASE Opt(e)
          BY <1>1, <4>1, OptKeepsNoisy
        <4>2. CASE users' = users
          BY <4>2 DEF IsNoisy
        <4> QED
          BY <2>2, <4>1, <4>2 DEF ReceiveSetting, SwitchTool, GuardMessage, ReadPolicy, Request,
                      Rewrite, AnswerMessage, settings
      <3> QED
        BY <1>1, <1>2, <2>2, <3>1, NoisyFrame
    <2> QED
      BY <2>1, <2>2
  <1> QED
    BY <1>3, <1>4, <1>5 DEF SettingsInv

\* At the start nothing was said and the tables are empty.
LEMMA InitSettingsInv ==
    ASSUME SettingsInit
    PROVE  SettingsInv
  <1>1. TypeOK
    BY RewriteAssumption DEF SettingsInit, Init, TypeOK, Texts
  <1>2. AnswerInv /\ PolicyInv
    <2>1. {e \in Events : pc[e] # "idle"} = {}
      BY DEF SettingsInit, Init
    <2>2. IsFiniteSet({e \in Events : pc[e] # "idle"})
      BY <2>1, FS_EmptySet
    <2> QED
      BY <2>2 DEF SettingsInit, Init, AnswerInv, PolicyInv
  <1>3. TableMatchesReplies
    <2>. SUFFICES ASSUME NEW t \in Triggers \ {Location}
                  PROVE  Cardinality(Answered("added", t))
                            = Cardinality({e \in Events : removed[e] = t})
                                + (IF Taken(t) THEN 1 ELSE 0)
      BY DEF TableMatchesReplies
    <2>1. Answered("added", t) = {}
      BY DEF SettingsInit, Init, Answered
    <2>2. t # NoTrigger
      BY TriggerAssumption DEF NoTrigger
    <2>3. {e \in Events : removed[e] = t} = {}
      BY <2>2 DEF SettingsInit, Init
    <2>4. ~Taken(t)
      BY DEF SettingsInit, Init, Taken
    <2> QED
      BY <2>1, <2>3, <2>4, FS_EmptySet
  <1>4. NoisyMatchesReplies
    <2>1. ASSUME NEW n \in Nicks
          PROVE  Told(n, "ON") = {} /\ Told(n, "OFF") = {} /\ ~IsNoisy(n)
      BY DEF SettingsInit, Init, Told, IsNoisy
    <2> QED
      BY <2>1, FS_EmptySet DEF NoisyMatchesReplies
  <1> QED
    BY <1>1, <1>2, <1>3, <1>4 DEF SettingsInv

\* Prompts, settings and messages of concurrent threads: types, one answer each,
\* the snapshot of a message, and tables that agree with the replies.
THEOREM SettingsInvariant == SettingsSpec => []SettingsInv
  <1>1. SettingsInit => SettingsInv
    BY InitSettingsInv
  <1>2. SettingsInv /\ [SettingsNext]_<<vars, settings, messages>> => SettingsInv'
    <2>. SUFFICES ASSUME SettingsInv, [SettingsNext]_<<vars, settings, messages>>
                  PROVE  SettingsInv'
      OBVIOUS
    <2>1. CASE Next /\ UNCHANGED <<settings, messages>>
      BY <2>1, PromptsKeepInv
    <2>2. ASSUME NEW e \in Events,
                 \/ ReceiveSetting(e) \/ ToggleNoisy(e) \/ Opt(e) \/ SwitchTool(e)
                 \/ GuardMessage(e) \/ ReadPolicy(e) \/ Request(e) \/ Rewrite(e)
                 \/ AnswerMessage(e)
          PROVE  SettingsInv'
      BY <2>2, SettingsKeepInv
    <2>3. CASE UNCHANGED <<vars, settings, messages>>
      <3>1. UNCHANGED <<prompts, pc, command, removed, reply, users, disabled, offered,
                        request, rewrites, changed>>
        BY <2>3 DEF vars, settings, messages
      <3>2. TypeOK' /\ AnswerInv' /\ PolicyInv'
        BY <3>1 DEF SettingsInv, TypeOK, AnswerInv, PolicyInv
      <3>3. TableMatchesReplies' /\ NoisyMatchesReplies'
        BY <3>1 DEF SettingsInv, TableMatchesReplies, NoisyMatchesReplies, Answered, Taken, Told,
                    IsNoisy
      <3> QED
        BY <3>2, <3>3 DEF SettingsInv
    <2> QED
      BY <2>1, <2>2, <2>3 DEF SettingsNext
  <1> QED
    BY <1>1, <1>2, PTL DEF SettingsSpec

\* However concurrent .addprompt, .setlocation and .rmprompt interleave, a prompt
\* reported as added is there until exactly one removal takes it out.
THEOREM SettingsKeepPromptTable == SettingsSpec => []TableMatchesReplies
  BY SettingsInvariant, PTL DEF SettingsInv

\* .noisy answers ON and OFF in turns and the last one holds, whatever .optin and
\* .optout write to the same row.
THEOREM SettingsKeepNoisyReplies == SettingsSpec => []NoisyMatchesReplies
  BY SettingsInvariant, PTL DEF SettingsInv

\* All requests of a message, rewrites included, offer the tools of its first
\* one, and those are the enabled ones, but for tools switched in the meantime.
THEOREM SettingsRequestsFollowPolicy == SettingsSpec => []RequestsFollowPolicy
  <1>1. SettingsInv => RequestsFollowPolicy
    BY DEF SettingsInv, PolicyInv, RequestsFollowPolicy
  <1> QED
    BY <1>1, SettingsInvariant, PTL
=============================================================================
