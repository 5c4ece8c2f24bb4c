------------------------------ MODULE Routing ------------------------------
(***************************************************************************)
(* How an IRC line finds its handler (plugin.py).  Sopel starts a thread   *)
(* for every rule that matches: a command, the fallback for unknown        *)
(* commands, the rule for lines that address the bot, the rule for any     *)
(* text.  The handlers do not know of each other; each decides from the    *)
(* line alone whether it is the owner.                                     *)
(*                                                                         *)
(* Lines still arrive while the plugin is shut down or reloaded: Sopel     *)
(* calls shutdown before it takes the rules away.  A handler that asks for *)
(* the instance then raises, and _irc_error_handler says an Error line.    *)
(*                                                                         *)
(* A line is what the decisions depend on: where it was sent, by whom, and *)
(* its form.  Forms are disjoint: a nick does not begin with the prefix.   *)
(***************************************************************************)
EXTENDS Integers, FiniteSets

CONSTANTS Lines   \* numbers of the lines that arrive, in any order

Management == {"optin", "optout", "help"}          \* answered locally, for everyone
AdminOnly == {"compact", "disable-tool"}           \* require_admin, answered locally
Hybrid == {"ai", "setlocation"}                    \* reach the provider
Commands == Management \cup AdminOnly \cup Hybrid \cup {"admin", "foreign"}

\* "-command", "-whatever", "- text", "TerraAI: text", "TerraAI: optin", "text".
Forms == Commands \cup {"unknown", "spaced", "addressed", "addressed optin", "plain"}

Handlers == {"command", "fallback", "addressed", "pm"}

VARIABLES loaded,    \* _terrai is set
          optedIn,   \* users.opted_in of the one nick that writes
          line,      \* the lines that have arrived
          pending,   \* handlers of each line still to run
          effects,   \* what the handlers of each line did
          absent,    \* history: lines that waited while _terrai was not set
          overtaken  \* history: lines that waited while their nick was opted out

vars == <<loaded, optedIn, line, pending, effects, absent, overtaken>>

NoLine == [form |-> "none", private |-> FALSE, sender |-> "user", admin |-> FALSE]

Init ==
    /\ loaded = TRUE
    /\ optedIn = TRUE
    /\ line = [i \in Lines |-> NoLine]
    /\ pending = [i \in Lines |-> {}]
    /\ effects = [i \in Lines |-> {}]
    /\ absent = {}
    /\ overtaken = {}

Waiting == {i \in Lines : pending[i] # {}}

\* setup and shutdown; both happen again and again over reloads.
Setup ==
    /\ ~loaded
    /\ loaded' = TRUE
    /\ UNCHANGED <<optedIn, line, pending, effects, absent, overtaken>>

Shutdown ==
    /\ loaded
    /\ loaded' = FALSE
    /\ absent' = absent \cup Waiting
    /\ UNCHANGED <<optedIn, line, pending, effects, overtaken>>

----------------------------------------------------------------------------
Registered(l) == l.form \in Commands
Prefixed(l) == l.form \in Commands \cup {"unknown"}
Addressed(l) == l.form \in {"addressed", "addressed optin"}

\* Sopel's part: the rules whose pattern fits the line.  A bot's line reaches
\* only the rule that allows bots.
Matching(l) ==
    {h \in Handlers :
        /\ l.sender = "bot" => h = "addressed"
        /\ h = "command" => Registered(l)
        /\ h = "fallback" => Prefixed(l)
        /\ h = "addressed" => Addressed(l)}

Arrive(i) ==
    /\ line[i] = NoLine
    /\ \E l \in [form : Forms, private : BOOLEAN, sender : {"user", "bot", "self"},
                 admin : BOOLEAN] :
          /\ l.admin => l.form \in AdminOnly \cup {"admin"}   \* only they ask for the right
          /\ line' = [line EXCEPT ![i] = l]
          /\ pending' = [pending EXCEPT ![i] = Matching(l)]
    /\ absent' = IF loaded THEN absent ELSE absent \cup {i}
    /\ overtaken' = IF optedIn THEN overtaken ELSE overtaken \cup {i}
    /\ UNCHANGED <<loaded, optedIn, effects>>

Runs(h, i) ==
    /\ h \in pending[i]
    /\ pending' = [pending EXCEPT ![i] = @ \ {h}]
    /\ UNCHANGED <<loaded, line, absent>>

Does(i, what) == effects' = [effects EXCEPT ![i] = @ \cup what]

\* What h does once _get_terra returned; _get_terra raises if there is nothing
\* to return, and _irc_error_handler reports it.
WithTerra(i, h, what) == Does(i, IF loaded THEN what ELSE {<<h, "error">>})

\* TerraAI.should_respond.
ShouldRespond(l) == l.sender # "self" /\ optedIn

\* handle_ai_message for lines whose sender passes the guard.
AskIfAllowed(i, h) ==
    WithTerra(i, h, IF ShouldRespond(line[i]) THEN {<<h, "ai">>} ELSE {})

----------------------------------------------------------------------------
(* Registered commands; another plugin's says what it likes *)

Writes(i) ==
    /\ optedIn' = CASE line[i].form = "optin" -> TRUE
                    [] line[i].form = "optout" -> FALSE
                    [] OTHER -> optedIn
    /\ overtaken' = IF optedIn' THEN overtaken ELSE overtaken \cup Waiting

ManagementCommand(i) ==
    /\ Runs("command", i)
    /\ line[i].form \in Management
    /\ WithTerra(i, "command", {<<"command", "local">>})
    /\ IF loaded THEN Writes(i) ELSE UNCHANGED <<optedIn, overtaken>>

ForeignCommand(i) ==
    /\ Runs("command", i)
    /\ line[i].form = "foreign"
    /\ Does(i, {<<"command", "local">>})
    /\ UNCHANGED <<optedIn, overtaken>>

\* require_admin refuses before the handler asks for the instance.
AdminCommand(i) ==
    /\ Runs("command", i)
    /\ line[i].form \in AdminOnly \cup {"admin"}
    /\ \/ ~line[i].admin /\ Does(i, {<<"command", "denied">>})
       \/ /\ line[i].admin
          /\ IF line[i].form = "admin" THEN AskIfAllowed(i, "command")
             ELSE WithTerra(i, "command", {<<"command", "local">>})
    /\ UNCHANGED <<optedIn, overtaken>>

HybridCommand(i) ==
    /\ Runs("command", i)
    /\ line[i].form \in Hybrid
    /\ AskIfAllowed(i, "command")
    /\ UNCHANGED <<optedIn, overtaken>>

----------------------------------------------------------------------------
(* The three rules *)

FallbackOwnsInPrivate(l) == ~Registered(l)                 \* mutant

\* unknown_prefixed_command_to_ai leaves PMs and registered commands alone.
FallbackOwns(l) == ~l.private /\ ~Registered(l)

Fallback(i) ==
    /\ Runs("fallback", i)
    /\ IF FallbackOwns(line[i]) THEN AskIfAllowed(i, "fallback") ELSE UNCHANGED effects
    /\ UNCHANGED <<optedIn, overtaken>>

AddressedOwnsText(l) == ~l.private /\ l.form # "addressed optin"   \* mutant

\* addressed_freeform leaves PMs alone; a command word is text like any other.
AddressedOwns(l) == ~l.private

AddressedFreeform(i) ==
    /\ Runs("addressed", i)
    /\ IF AddressedOwns(line[i]) THEN AskIfAllowed(i, "addressed") ELSE UNCHANGED effects
    /\ UNCHANGED <<optedIn, overtaken>>

\* pm_text_to_ai takes what is left of PMs.
PmOwns(l) == l.private /\ ~Registered(l)

\* It asks for the instance before it knows whether the line is its own, so
\* that a registered command in private makes it raise too.
PmText(i) ==
    /\ Runs("pm", i)
    /\ IF ~line[i].private THEN UNCHANGED effects
       ELSE IF PmOwns(line[i]) THEN AskIfAllowed(i, "pm")
       ELSE WithTerra(i, "pm", {})
    /\ UNCHANGED <<optedIn, overtaken>>

Handle(i) ==
    \/ ManagementCommand(i) \/ ForeignCommand(i) \/ AdminCommand(i) \/ HybridCommand(i)
    \/ Fallback(i) \/ AddressedFreeform(i) \/ PmText(i)

Next ==
    \/ Setup \/ Shutdown
    \/ \E i \in Lines : Arrive(i) \/ Handle(i)

Spec == Init /\ [][Next]_vars

----------------------------------------------------------------------------
(* Properties *)

\* A registered command in private that met the plugin shut down.
TwiceAnswered(i) == i \in absent /\ line[i].private /\ Registered(line[i])

\* No line is answered twice, whichever handlers run, in whatever order and
\* with whatever reloads between them ("execute once as commands", cleanup
\* plan rules 3 and 4), but for one kind: a registered command in private that
\* waited while the plugin was shut down, to which pm_text_to_ai may add one
\* Error line of its own.
OneEffectPerLine ==
    \A i \in Lines : \A x, y \in effects[i] :
        x # y => TwiceAnswered(i) /\ <<"pm", "error">> \in {x, y}

\* Lines that their handler answers whoever wrote them, opted in or not.
Local == Management \cup AdminOnly \cup {"foreign"}

\* Nothing falls between the handlers, and a reload makes none of them silent:
\* what a user says to the bot is answered by the time its handlers have run.
\* Only a line for the AI that waited while its nick was opted out may not be.
EveryPromptHasAnOwner ==
    \A i \in Lines :
        LET l == line[i] IN
        /\ l # NoLine /\ pending[i] = {} /\ l.sender = "user"
        /\ l.private \/ Addressed(l) \/ Prefixed(l)
        /\ i \in overtaken => l.form \in Local
        => effects[i] # {}

----------------------------------------------------------------------------
(* The inductive invariant *)

Answers == {"ai", "local", "denied", "error"}

TypeOK ==
    /\ loaded \in BOOLEAN /\ optedIn \in BOOLEAN
    /\ line \in [Lines -> {NoLine} \cup [form : Forms, private : BOOLEAN,
                                         sender : {"user", "bot", "self"}, admin : BOOLEAN]]
    /\ pending \in [Lines -> SUBSET Handlers]
    /\ effects \in [Lines -> SUBSET (Handlers \X Answers)]
    /\ absent \subseteq Lines /\ overtaken \subseteq Lines

\* The handler that a line belongs to, of those that see it.
Owns(h, l) ==
    /\ h \in Matching(l)
    /\ h = "fallback" => FallbackOwns(l)
    /\ h = "addressed" => AddressedOwns(l)
    /\ h = "pm" => PmOwns(l)

\* Only handlers that a line matches wait for it, and what happens while they
\* wait is remembered.
PendingInv ==
    \A i \in Lines :
        /\ pending[i] \subseteq Matching(line[i])
        /\ line[i] = NoLine => pending[i] = {} /\ effects[i] = {}
        /\ pending[i] # {} => (loaded \/ i \in absent) /\ (optedIn \/ i \in overtaken)

\* What was done for a line its owner did, or pm_text_to_ai raised; and who did
\* something did one thing and no longer waits.
EffectsInv ==
    \A i \in Lines : \A x \in effects[i] :
        /\ Owns(x[1], line[i]) \/ (x = <<"pm", "error">> /\ TwiceAnswered(i))
        /\ x[1] \notin pending[i]
        /\ \A y \in effects[i] : x[1] = y[1] => x = y

\* An owner that has run has answered its user, unless it asked for the AI and
\* the nick was opted out while it waited.
OwnerInv ==
    \A i \in Lines : \A h \in Handlers :
        /\ line[i] # NoLine /\ line[i].sender = "user"
        /\ Owns(h, line[i]) /\ h \notin pending[i]
        /\ i \in overtaken => line[i].form \in Local
        => effects[i] # {}

Inv == TypeOK /\ PendingInv /\ EffectsInv /\ OwnerInv
=============================================================================
