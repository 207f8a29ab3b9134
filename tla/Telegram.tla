------------------------------ MODULE Telegram ------------------------------
(***************************************************************************)
(* The Telegram bot (telegram/bot.py): its commands and buttons, the       *)
(* limiter each user of it has, and the control calls it makes.            *)
(*                                                                         *)
(* A handler asks the limiter before its first await and touches nothing   *)
(* shared after it, so that it is one action here; what the gateway makes  *)
(* of a call, and whether it answers within ten seconds, is left open: it  *)
(* only decides what the bot says.  /help does nothing.  Time is discrete; *)
(* an age stops growing once it is over the window.                        *)
(*                                                                         *)
(* Bot in the name of a definition tells it from that of ControlPlane, the *)
(* API the bot calls: ControlPlaneProofs extends both.                     *)
(***************************************************************************)
EXTENDS Integers, Sequences, SlidingWindow

CONSTANTS
    People, Bot,        \* the people in the chat, and the bot itself
    Admins, Operators,  \* telegram_admins, telegram_operators
    Keys,               \* the agents' keys
    MaxCommands,        \* MAX_COMMANDS_PER_MIN
    Span                \* the minute

ASSUME TelegramAssumption ==
    Bot \notin People /\ MaxCommands \in Nat \ {0} /\ Span \in Nat

Actions == {"start", "stop"}
Buttons == Actions \X Keys

VARIABLES
    history,    \* _COMMAND_HISTORY: ages of each user's admitted commands, oldest first
    listed,     \* a list of the agents, with two buttons each, is in the chat
    confirms,   \* the confirm buttons in the chat
    posts       \* ages of the control calls of the last window, by user, oldest first

botVars == <<history, listed, confirms, posts>>
chat == <<listed, confirms>>

BotTypeOK ==
    /\ history \in [People -> Seq(0..Span + 1)] /\ posts \in [People -> Seq(0..Span)]
    /\ listed \in BOOLEAN /\ confirms \subseteq Buttons

BotInit ==
    /\ history = [u \in People |-> <<>>] /\ posts = [u \in People |-> <<>>]
    /\ listed = FALSE /\ confirms = {}

-----------------------------------------------------------------------------
(* _rate_limited() and _ensure_role()                                      *)

\* What `popleft` leaves.
Remembered(u) == Unexpired(history[u], Span)
RateLimited(u) == Len(Remembered(u)) >= MaxCommands

Pass(u) ==
    /\ ~RateLimited(u)
    /\ history' = [history EXCEPT ![u] = Append(Remembered(u), 0)]

\* Seeded fault: a command that is turned away takes the place of the oldest one.
DenyCounts(u) ==
    /\ RateLimited(u)
    /\ history' = [history EXCEPT ![u] = Append(Tail(Remembered(u)), 0)]
    /\ UNCHANGED <<chat, posts>>

\* Any limited command or confirmation, turned away: it is not counted.
Deny(u) ==
    /\ RateLimited(u)
    /\ history' = [history EXCEPT ![u] = Remembered(u)]
    /\ UNCHANGED <<chat, posts>>

Role(user) ==
    IF user \in Admins THEN "admin" ELSE IF user \in Operators THEN "operator" ELSE "viewer"
MayControl(user) == Role(user) # "viewer"

\* The call of the gateway's /start or /stop.
Post(u) == posts' = [posts EXCEPT ![u] = Append(@, 0)]

-----------------------------------------------------------------------------
(* The commands                                                            *)

\* /start and /status.
Command(u) == Pass(u) /\ UNCHANGED <<chat, posts>>

\* /logs
ReadLogs(u) == MayControl(u) /\ Command(u)

\* _list_agents: the list appears if the gateway answers and knows an agent.
List == listed' = TRUE

\* /agents
ListAgents(u) ==
    /\ Pass(u)
    /\ List
    /\ UNCHANGED <<confirms, posts>>

\* /start_agent and /stop_agent; no call without exactly one agent.
Control(u) ==
    /\ MayControl(u) /\ Pass(u)
    /\ Post(u) \/ UNCHANGED posts
    /\ UNCHANGED chat

-----------------------------------------------------------------------------
(* The buttons, which everybody in the chat may press, again and again     *)

\* start_callback and stop_callback look at the author of the message that bears the button,
\* and that is the bot.  They are not limited.
PressControl(button) ==
    /\ listed /\ MayControl(Bot)
    /\ confirms' = confirms \cup {button}
    /\ UNCHANGED <<history, listed, posts>>

\* Seeded fault: the confirmation is not limited.
ConfirmUnlimited(u) ==
    confirms # {} /\ Post(u) /\ UNCHANGED <<history, chat>>

\* confirm_callback: the call is made for the one who presses, unless Telegram no longer
\* delivers the message with the button.
PressConfirm(u) ==
    /\ confirms # {} /\ Pass(u)
    /\ Post(u) \/ UNCHANGED posts
    /\ UNCHANGED chat

-----------------------------------------------------------------------------
ClockAdvances ==
    /\ history' = [u \in People |->
                     [i \in 1..Len(history[u]) |->
                        IF history[u][i] <= Span THEN history[u][i] + 1 ELSE history[u][i]]]
    /\ posts' = [u \in People |->
                     Unexpired([i \in 1..Len(posts[u]) |-> posts[u][i] + 1], Span)]
    /\ UNCHANGED chat

BotNext ==
    \/ \E u \in People :
        \/ Deny(u) \/ Command(u) \/ ReadLogs(u) \/ ListAgents(u)
        \/ Control(u) \/ PressConfirm(u)
    \/ \E button \in Buttons : PressControl(button)
    \/ ClockAdvances

\* Time goes on, whatever the users do.
BotSpec == BotInit /\ [][BotNext]_botVars /\ WF_botVars(ClockAdvances)

-----------------------------------------------------------------------------
(* Properties                                                              *)

\* In no window of a minute, wherever it begins, does the bot make more control calls for a
\* user than the limit, by command and by button together (bot.py:26-34, 236-246).
PostsBounded == \A u \in People : Len(posts[u]) <= MaxCommands

\* A user over the limit is let in again, even one who keeps trying (bot.py:29-33).
BlockEnds == \A u \in People : RateLimited(u) ~> ~RateLimited(u)
=============================================================================
