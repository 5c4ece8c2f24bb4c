------------------------------ MODULE Prompts ------------------------------
(***************************************************************************)
(* The server-wide table of custom prompts and the commands on it          *)
(* (PromptStore, PromptManager, handle_addprompt, handle_rmprompt and      *)
(* cmd_setlocation).  Each command runs in a thread of its own; a prompt   *)
(* is removed by its number in the alphabetical list.                      *)
(*                                                                         *)
(* Triggers are numbers in alphabetical order.  One transaction is one     *)
(* step, as in Conversation.tla.                                           *)
(***************************************************************************)
EXTENDS Integers, FiniteSets

CONSTANTS Events, Nicks,
          Triggers,       \* what .addprompt may name
          Location        \* the trigger .setlocation uses

ASSUME TriggerAssumption == Triggers \subseteq Nat /\ Location \in Triggers

VARIABLES prompts,   \* rows: trigger, and the nick that made it
          pc,        \* what the thread of each command does next
          command,   \* the command: who, and what about
          removed,   \* trigger rmprompt took out, NoTrigger before
          reply      \* what the command answered

vars == <<prompts, pc, command, removed, reply>>

NoTrigger == -1
NoCommand == [kind |-> "none"]

Init ==
    /\ prompts = {}
    /\ pc = [e \in Events |-> "idle"]
    /\ command = [e \in Events |-> NoCommand]
    /\ removed = [e \in Events |-> NoTrigger]
    /\ reply = [e \in Events |-> [text |-> "none", trigger |-> NoTrigger]]

----------------------------------------------------------------------------
\* list_all: the trigger at a position, counted from 0.
Listed(index, t) ==
    /\ \E p \in prompts : p.trigger = t
    /\ Cardinality({p \in prompts : p.trigger < t}) = index

Taken(t) == \E p \in prompts : p.trigger = t

Answer(e, text, t) ==
    /\ pc' = [pc EXCEPT ![e] = "done"]
    /\ reply' = [reply EXCEPT ![e] = [text |-> text, trigger |-> t]]

Receive(e) ==
    /\ pc[e] = "idle"
    /\ \E n \in Nicks :
          \/ \E t \in Triggers :
                command' = [command EXCEPT ![e] = [kind |-> "add", nick |-> n, trigger |-> t]]
          \/ command' = [command EXCEPT ![e] =
                            [kind |-> "location", nick |-> n, trigger |-> Location]]
          \/ \E k \in 0..Cardinality(Triggers) :
                command' = [command EXCEPT ![e] = [kind |-> "remove", nick |-> n, index |-> k]]
    /\ pc' = [pc EXCEPT ![e] = "acting"]
    /\ UNCHANGED <<prompts, removed, reply>>

\* INSERT under UNIQUE (server, trigger): a second row is refused.
Insert(c) ==
    prompts' = IF Taken(c.trigger) THEN prompts
               ELSE prompts \cup {[trigger |-> c.trigger, nick |-> c.nick]}

AddPrompt(e) ==
    /\ pc[e] = "acting" /\ command[e].kind = "add"
    /\ Insert(command[e])
    /\ Answer(e, IF Taken(command[e].trigger) THEN "exists" ELSE "added", command[e].trigger)
    /\ UNCHANGED <<command, removed>>

\* setlocation does not look at the result and goes on to the AI, like any
\* message ...
SetLocation(e) ==
    /\ pc[e] = "acting" /\ command[e].kind = "location"
    /\ Insert(command[e])
    /\ Answer(e, "asked", Location)
    /\ UNCHANGED <<command, removed>>

\* ... unless its nick is opted out, which Settings knows.
IgnoreLocation(e) ==
    /\ pc[e] = "acting" /\ command[e].kind = "location"
    /\ Answer(e, "ignored", NoTrigger)
    /\ UNCHANGED <<prompts, command, removed>>

RemoveByListSeen(e) ==                                     \* mutant
    /\ command[e].kind = "remove"
    /\ \/ /\ pc[e] = "acting"
          /\ \E t \in Triggers : Listed(command[e].index, t) /\ removed' = [removed EXCEPT ![e] = t]
          /\ pc' = [pc EXCEPT ![e] = "deleting"]
          /\ UNCHANGED <<prompts, command, reply>>
       \/ /\ pc[e] = "deleting"
          /\ prompts' = {p \in prompts : p.trigger # removed[e]}
          /\ pc' = [pc EXCEPT ![e] = "naming"]
          /\ UNCHANGED <<command, removed, reply>>

\* remove_by_index: the list is read and the row deleted in one transaction.
RemoveByIndex(e) ==
    /\ pc[e] = "acting" /\ command[e].kind = "remove"
    /\ \E t \in Triggers :
          /\ Listed(command[e].index, t)
          /\ removed' = [removed EXCEPT ![e] = t]
          /\ prompts' = {p \in prompts : p.trigger # t}
    /\ pc' = [pc EXCEPT ![e] = "naming"]
    /\ UNCHANGED <<command, reply>>

NoSuchPrompt(e) ==
    /\ pc[e] = "acting" /\ command[e].kind = "remove"
    /\ ~ \E t \in Triggers : Listed(command[e].index, t)
    /\ Answer(e, "no such", NoTrigger)
    /\ UNCHANGED <<prompts, command, removed>>

\* The name in "Removed #n (name)" is looked up in the list read afterwards.
NameRemoved(e) ==
    /\ pc[e] = "naming"
    /\ IF \E t \in Triggers : Listed(command[e].index, t)
       THEN \E t \in Triggers : Listed(command[e].index, t) /\ Answer(e, "removed", t)
       ELSE Answer(e, "removed", NoTrigger)
    /\ UNCHANGED <<prompts, command, removed>>

Next ==
    \E e \in Events :
        \/ Receive(e) \/ AddPrompt(e) \/ SetLocation(e) \/ IgnoreLocation(e)
        \/ RemoveByIndex(e) \/ NoSuchPrompt(e) \/ NameRemoved(e)

Spec == Init /\ [][Next]_vars

----------------------------------------------------------------------------
(* Properties *)

Answered(text, t) == {e \in Events : reply[e] = [text |-> text, trigger |-> t]}

\* The replies account for the table: a prompt that was reported as added is
\* there until exactly one rmprompt takes it out, and two of them never claim
\* the same one (handle_addprompt and remove_by_index under concurrent use).
TableMatchesReplies ==
    \A t \in Triggers \ {Location} :
        Cardinality(Answered("added", t))
            = Cardinality({e \in Events : removed[e] = t}) + (IF Taken(t) THEN 1 ELSE 0)

\* management.py:40: "Removed #n (trigger)" names the prompt it removed.
ReplyNamesRemovedPrompt ==
    \A e \in Events :
        reply[e].text = "removed" /\ reply[e].trigger # NoTrigger => reply[e].trigger = removed[e]
=============================================================================
