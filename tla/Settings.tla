------------------------------ MODULE Settings ------------------------------
(***************************************************************************)
(* What commands change besides the prompts, and the AI messages that read *)
(* it while they run: the users table (UserStore: opted_in and noisy, two  *)
(* columns of one row) and the server's disabled tools (ToolPolicyStore,   *)
(* ToolPolicy).  Every command and message is a thread of its own, as in   *)
(* Prompts, whose commands run beside these.  One transaction is one step. *)
(*                                                                         *)
(* .effort is left out: one attribute assigned by one command and read by  *)
(* every request.  Who may give a command is the business of Routing.      *)
(***************************************************************************)
EXTENDS Prompts

CONSTANTS Tools,          \* LOCAL_TOOLS by name
          UnknownTool,    \* a name that is none of them
          NoRow,          \* get_user's None
          MaxRewrites     \* MAX_CONCISE_RETRIES, 2

ASSUME ToolAssumption == UnknownTool \notin Tools
ASSUME RowAssumption == NoRow \notin [optedIn : BOOLEAN, noisy : BOOLEAN]
ASSUME RewriteAssumption == MaxRewrites \in Nat

VARIABLES users,      \* users table: a nick's row, or NoRow
          disabled,   \* disabled_tools table
          offered,    \* the local "tools" of each message
          request,    \* the tools of a message's latest request
          rewrites,   \* concise_retries of each message
          changed     \* history: tools switched since the message arrived

settings == <<users, disabled>>
messages == <<offered, request, rewrites, changed>>

----------------------------------------------------------------------------
SettingsInit ==
    /\ Init
    /\ users = [n \in Nicks |-> NoRow]
    /\ disabled = {}
    /\ offered = [e \in Events |-> {}]
    /\ request = [e \in Events |-> {}]
    /\ rewrites = [e \in Events |-> 0]
    /\ changed = [e \in Events |-> {}]

\* Without a row a nick is opted in and not noisy.
IsOptedIn(n) == IF users[n] = NoRow THEN TRUE ELSE users[n].optedIn
IsNoisy(n) == IF users[n] = NoRow THEN FALSE ELSE users[n].noisy

\* _upsert: COALESCE keeps the column that is not given.
SetOptedIn(n, b) == users' = [users EXCEPT ![n] = [optedIn |-> b, noisy |-> IsNoisy(n)]]
SetNoisy(n, b) == users' = [users EXCEPT ![n] = [optedIn |-> IsOptedIn(n), noisy |-> b]]

ReceiveSetting(e) ==
    /\ pc[e] = "idle"
    /\ \/ \E n \in Nicks : \E kind \in {"noisy", "optin", "optout", "message"} :
             command' = [command EXCEPT ![e] = [kind |-> kind, nick |-> n]]
       \/ \E t \in Tools \cup {UnknownTool} : \E kind \in {"disable", "enable"} :
             command' = [command EXCEPT ![e] = [kind |-> kind, tool |-> t]]
    /\ pc' = [pc EXCEPT ![e] = "acting"]
    /\ UNCHANGED <<prompts, removed, reply, settings, messages>>

ToggleReadThenWrite(e) ==                                  \* mutant
    /\ command[e].kind = "noisy"
    /\ \/ /\ pc[e] = "acting"
          /\ pc' = [pc EXCEPT ![e] = IF IsNoisy(command[e].nick) THEN "to OFF" ELSE "to ON"]
          /\ UNCHANGED <<users, reply>>
       \/ /\ pc[e] \in {"to ON", "to OFF"}
          /\ SetNoisy(command[e].nick, pc[e] = "to ON")
          /\ Answer(e, IF pc[e] = "to ON" THEN "ON" ELSE "OFF", NoTrigger)
    /\ UNCHANGED <<prompts, command, removed, disabled, messages>>

\* toggle_noisy reads and writes in one transaction.
ToggleNoisy(e) ==
    /\ pc[e] = "acting" /\ command[e].kind = "noisy"
    /\ SetNoisy(command[e].nick, ~IsNoisy(command[e].nick))
    /\ Answer(e, IF IsNoisy(command[e].nick) THEN "OFF" ELSE "ON", NoTrigger)
    /\ UNCHANGED <<prompts, command, removed, disabled, messages>>

Opt(e) ==
    /\ pc[e] = "acting" /\ command[e].kind \in {"optin", "optout"}
    /\ SetOptedIn(command[e].nick, command[e].kind = "optin")
    /\ Answer(e, "opted", NoTrigger)
    /\ UNCHANGED <<prompts, command, removed, disabled, messages>>

\* disable-tool and enable-tool act on the whole server; a name that is no
\* local tool changes nothing.
SwitchTool(e) ==
    /\ pc[e] = "acting" /\ command[e].kind \in {"disable", "enable"}
    /\ IF command[e].tool \in Tools
       THEN /\ disabled' = IF command[e].kind = "disable" THEN disabled \cup {command[e].tool}
                           ELSE disabled \ {command[e].tool}
            /\ changed' = [m \in Events |->
                              IF pc[m] # "idle" THEN changed[m] \cup {command[e].tool}
                              ELSE changed[m]]
            /\ Answer(e, "switched", NoTrigger)
       ELSE Answer(e, "unknown tool", NoTrigger) /\ UNCHANGED <<disabled, changed>>
    /\ UNCHANGED <<prompts, command, removed, users, offered, request, rewrites>>

\* The guard of a message, before anything else.
GuardMessage(e) ==
    /\ pc[e] = "acting" /\ command[e].kind = "message"
    /\ IF IsOptedIn(command[e].nick)
       THEN pc' = [pc EXCEPT ![e] = "composing"] /\ UNCHANGED reply
       ELSE Answer(e, "ignored", NoTrigger)
    /\ UNCHANGED <<prompts, command, removed, settings, messages>>

\* The disabled tools are read once, when the context is composed.
ReadPolicy(e) ==
    /\ pc[e] = "composing"
    /\ offered' = [offered EXCEPT ![e] = Tools \ disabled]
    /\ pc' = [pc EXCEPT ![e] = "asking"]
    /\ UNCHANGED <<prompts, command, removed, reply, settings, request, rewrites, changed>>

RewriteToolsReread(e) == Tools \ disabled                  \* mutant

\* Every rewrite is asked with the tools of the first request.
RewriteTools(e) == offered[e]

Request(e) ==
    /\ pc[e] = "asking"
    /\ request' = [request EXCEPT ![e] =
                      IF rewrites[e] = 0 THEN offered[e] ELSE RewriteTools(e)]
    /\ pc' = [pc EXCEPT ![e] = "asked"]
    /\ UNCHANGED <<prompts, command, removed, reply, settings, offered, rewrites, changed>>

Rewrite(e) ==
    /\ pc[e] = "asked"
    /\ rewrites[e] < MaxRewrites
    /\ rewrites' = [rewrites EXCEPT ![e] = @ + 1]
    /\ pc' = [pc EXCEPT ![e] = "asking"]
    /\ UNCHANGED <<prompts, command, removed, reply, settings, offered, request, changed>>

AnswerMessage(e) ==
    /\ pc[e] = "asked"
    /\ Answer(e, "answered", NoTrigger)
    /\ UNCHANGED <<prompts, command, removed, settings, messages>>

\* cmd_setlocation is guarded like a message.
LocationGuard ==
    \A e \in Events :
        pc[e] = "acting" /\ pc'[e] = "done" /\ command[e].kind = "location" =>
            (reply'[e].text = "ignored" <=> ~IsOptedIn(command[e].nick))

SettingsNext ==
    \/ Next /\ LocationGuard /\ UNCHANGED <<settings, messages>>
    \/ \E e \in Events : ReceiveSetting(e)
    \/ \E e \in Events : ToggleNoisy(e)
    \/ \E e \in Events : Opt(e)
    \/ \E e \in Events : SwitchTool(e)
    \/ \E e \in Events : GuardMessage(e)
    \/ \E e \in Events : ReadPolicy(e)
    \/ \E e \in Events : Request(e)
    \/ \E e \in Events : Rewrite(e)
    \/ \E e \in Events : AnswerMessage(e)

SettingsSpec == SettingsInit /\ [][SettingsNext]_<<vars, settings, messages>>

----------------------------------------------------------------------------
(* Properties *)

Told(n, text) == {e \in Events : reply[e].text = text /\ command[e].nick = n}

\* A nick's noisy mode is what its replies say, in whatever order concurrent
\* .noisy commands run and although .optin and .optout write the same row:
\* ON and OFF take turns, and the last of them holds (toggle_noisy, _upsert).
NoisyMatchesReplies ==
    \A n \in Nicks :
        Cardinality(Told(n, "ON"))
            = Cardinality(Told(n, "OFF")) + (IF IsNoisy(n) THEN 1 ELSE 0)

\* All requests of a message, rewrites included, offer the same tools, also
\* those that were switched between two of them; and any other tool is offered
\* exactly if it is enabled (the snapshot of handle_ai_message).
RequestsFollowPolicy ==
    \A e \in Events : pc[e] = "asked" =>
        /\ request[e] = offered[e]
        /\ \A t \in Tools \ changed[e] : t \in request[e] <=> t \notin disabled

----------------------------------------------------------------------------
(* The inductive invariant of the prompts and the settings together *)

PromptCommands ==
    [kind : {"add"}, nick : Nicks, trigger : Triggers]
        \cup [kind : {"location"}, nick : Nicks, trigger : {Location}]
        \cup [kind : {"remove"}, nick : Nicks, index : 0..Cardinality(Triggers)]

SettingCommands ==
    [kind : {"noisy", "optin", "optout", "message"}, nick : Nicks]
        \cup [kind : {"disable", "enable"}, tool : Tools \cup {UnknownTool}]

Texts == {"none", "added", "exists", "asked", "removed", "no such", "ON", "OFF", "opted",
          "switched", "unknown tool", "ignored", "answered"}

TypeOK ==
    /\ prompts \subseteq [trigger : Triggers, nick : Nicks]
    /\ pc \in [Events -> {"idle", "acting", "naming", "composing", "asking", "asked", "done"}]
    /\ command \in [Events -> {NoCommand} \cup PromptCommands \cup SettingCommands]
    /\ removed \in [Events -> Triggers \cup {NoTrigger}]
    /\ reply \in [Events -> [text : Texts, trigger : Triggers \cup {NoTrigger}]]
    /\ users \in [Nicks -> {NoRow} \cup [optedIn : BOOLEAN, noisy : BOOLEAN]]
    /\ disabled \subseteq Tools
    /\ offered \in [Events -> SUBSET Tools]
    /\ request \in [Events -> SUBSET Tools]
    /\ rewrites \in [Events -> 0..MaxRewrites]
    /\ changed \in [Events -> SUBSET Tools]

\* A thread answers once, at its end, and its command was there from its start.
AnswerInv ==
    /\ IsFiniteSet({e \in Events : pc[e] # "idle"})
    /\ \A e \in Events :
          /\ pc[e] # "done" => reply[e].text = "none"
          /\ pc[e] \notin {"naming", "done"} => removed[e] = NoTrigger

\* Between composing its context and its answer a message knows every tool that
\* nobody switched since.
PolicyInv ==
    \A e \in Events :
        /\ pc[e] \in {"asking", "asked"} =>
              \A t \in Tools \ changed[e] : t \in offered[e] <=> t \notin disabled
        /\ pc[e] = "asked" => request[e] = offered[e]

SettingsInv ==
    /\ TypeOK /\ AnswerInv /\ PolicyInv
    /\ TableMatchesReplies /\ NoisyMatchesReplies
=============================================================================
