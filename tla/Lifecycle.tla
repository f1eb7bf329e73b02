------------------------------ MODULE Lifecycle -----------------------------
(***************************************************************************)
(* main, from the environment to exit, with the FIX session it starts: the *)
(* steps of the start in their order, each with the ways it may end; the   *)
(* session from InitFIXEngine on; the wait for SIGINT or SIGTERM and the   *)
(* shutdown.  A failure of InitFIXEngine is logged and the process goes    *)
(* on; the failures before it are fatal.  What the other steps build is    *)
(* the subject of Universe, SymbolTable and Hedger.                        *)
(***************************************************************************)
EXTENDS FixSession

\* The variables of the environment, and of the .env file main loads into it,
\* that main and its callees look at, and whether stdin is a terminal.
EnvNames ==
  {"DERIBIT_CLIENT_ID", "DERIBIT_CLIENT_SECRET", "STRATEGY", "STRATEGY_NUM",
   "TELEGRAM_BOT_TOKEN", "TELEGRAM_CHAT_ID", "terminal"}

\* Those whose value matters, not only that there is one.
Checked == {"STRATEGY", "STRATEGY_NUM", "TELEGRAM_CHAT_ID"}

CONSTANT Environments   \* the environments to start in, as sets of names

ASSUME LifecycleAssumption == Environments \subseteq SUBSET EnvNames

VARIABLES
  env,        \* what there is of EnvNames
  proper,     \* the variables among them whose value the program can use
  at,         \* main is at Steps[at]; then "wait", "stop", and how it ended
  ready,      \* steps done
  notifier,   \* ntf is not nil
  sigc        \* a signal is in the channel

mainVars == <<env, proper, at, ready, notifier, sigc>>

vars == <<mainVars, sessionVars>>

\* Fault: the FIX engine is started before what its callbacks use.
StepsFixFirst ==
  <<"credentials", "token", "universe", "fix", "symbols", "books", "notifier",
    "strategy", "engine", "signals">>

Steps ==
  <<"credentials", "token", "universe", "symbols", "books", "notifier",
    "strategy", "engine", "fix", "signals">>

Ended == {"fatal", "killed", "exited"}

After(step) ==
  IF step = Steps[Len(Steps)] THEN "wait"
  ELSE Steps[1 + CHOOSE n \in DOMAIN Steps : Steps[n] = step]

Init ==
  /\ env \in Environments /\ proper \in SUBSET (env \cap Checked)
  /\ at = Steps[1]
  /\ ready = {} /\ notifier = FALSE /\ sigc = FALSE
  /\ SessionInit

Proceed(step) == at = step /\ at' = After(step) /\ ready' = ready \cup {step}

Fatal(step) == at = step /\ at' = "fatal" /\ UNCHANGED ready

Credentials ==
  /\ IF {"DERIBIT_CLIENT_ID", "DERIBIT_CLIENT_SECRET"} \subseteq env
     THEN Proceed("credentials") ELSE Fatal("credentials")
  /\ UNCHANGED <<env, proper, notifier, sigc, sessionVars>>

\* No answer, or none in JSON, is fatal; a refusal is JSON without a token.
\* The request has no deadline, and main drops what it returns.
FetchJWTToken ==
  /\ Proceed("token") \/ Fatal("token")
  /\ UNCHANGED <<env, proper, notifier, sigc, sessionVars>>

\* Two more requests without a deadline; fatal if there are no options.
BuildUniverse ==
  /\ Proceed("universe") \/ Fatal("universe")
  /\ UNCHANGED <<env, proper, notifier, sigc, sessionVars>>

\* SetOptionSymbols and InitOrderBooks.
Tables ==
  /\ \E step \in {"symbols", "books"} : Proceed(step)
  /\ UNCHANGED <<env, proper, notifier, sigc, sessionVars>>

\* NewTelegramFromEnv: without both variables, or with an identifier that is
\* not a number, there is no notifier.
NewTelegramFromEnv ==
  /\ Proceed("notifier")
  /\ notifier' = ({"TELEGRAM_BOT_TOKEN", "TELEGRAM_CHAT_ID"} \subseteq env
                  /\ "TELEGRAM_CHAT_ID" \in proper)
  /\ UNCHANGED <<env, proper, sigc, sessionVars>>

\* Chosen without asking: by a variable, or because there is nobody to ask.
Chosen == {"STRATEGY", "STRATEGY_NUM"} \cap proper # {} \/ "terminal" \notin env

\* Fault: the operator is asked although there is none.
ChooseStrategyAsks ==
  /\ {"STRATEGY", "STRATEGY_NUM"} \cap proper # {}
  /\ Proceed("strategy")
  /\ UNCHANGED <<env, proper, notifier, sigc, sessionVars>>

\* ChooseStrategy ends in the box strategy whatever it finds.
ChooseStrategy ==
  /\ Chosen
  /\ Proceed("strategy")
  /\ UNCHANGED <<env, proper, notifier, sigc, sessionVars>>

\* The operator presses enter, after whatever was typed, or closes stdin.
Answer ==
  /\ ~Chosen
  /\ Proceed("strategy")
  /\ UNCHANGED <<env, proper, notifier, sigc, sessionVars>>

\* The strategy's and the consumer's goroutine start; Handle.Stop is nil.
StartEngine ==
  /\ Proceed("engine")
  /\ UNCHANGED <<env, proper, notifier, sigc, sessionVars>>

StartFIX ==
  /\ Proceed("fix")
  /\ InitFIXEngine
  /\ UNCHANGED <<env, proper, notifier, sigc>>

\* signal.Notify, on a channel with room for one signal.
Notify ==
  /\ Proceed("signals")
  /\ UNCHANGED <<env, proper, notifier, sigc, sessionVars>>

\* Before signal.Notify a signal kills the process; later ones find the
\* channel full.
Signal ==
  /\ at \notin Ended
  /\ IF "signals" \in ready
     THEN sigc' = TRUE /\ UNCHANGED <<at, sessionVars>>
     ELSE at' = "killed" /\ Stopped /\ UNCHANGED sigc
  /\ UNCHANGED <<env, proper, ready, notifier>>

\* main takes the signal, has no handle to stop, and sleeps.
Shutdown ==
  /\ at = "wait" /\ sigc
  /\ sigc' = FALSE
  /\ at' = "stop"
  /\ UNCHANGED <<env, proper, ready, notifier, sessionVars>>

\* Fault: the initiator is stopped whether there is one or not.
ExitUnguarded ==
  /\ at = "stop" /\ engine = "running"
  /\ StopFIXEngine
  /\ at' = "exited"
  /\ UNCHANGED <<env, proper, ready, notifier, sigc>>

\* The deferred StopFIXEngine, which does without an initiator, and exit.  The
\* initiator's logout and its wait for the session's goroutine are one step.
Exit ==
  /\ at = "stop"
  /\ StopFIXEngine
  /\ at' = "exited"
  /\ UNCHANGED <<env, proper, ready, notifier, sigc>>

\* What main does without waiting for anybody.
Main ==
  \/ Credentials \/ Tables \/ NewTelegramFromEnv \/ ChooseStrategy
  \/ StartEngine \/ StartFIX \/ Notify \/ Shutdown \/ Exit

Session == SessionStep /\ UNCHANGED mainVars

Next == Main \/ FetchJWTToken \/ BuildUniverse \/ Answer \/ Signal \/ Session

(***************************************************************************)
(* main runs on, but the REST service and the operator owe no answer and   *)
(* nobody owes a signal.  The initiator tries again for ever, the          *)
(* session's goroutine runs and the venue answers; nobody owes a change of *)
(* the market or a lost connection.                                        *)
(***************************************************************************)
Spec ==
  /\ Init /\ [][Next]_vars
  /\ WF_vars(Main)
  /\ WF_vars(UNCHANGED mainVars /\ SessionGoesOn)

(***************************************************************************)
(* Properties.                                                             *)
(***************************************************************************)

\* While the session is logged on, and so may call OnLogon and FromApp, the
\* symbols, the books, the channel and the goroutine they feed are there.
CallbacksFindTables == link => {"symbols", "books", "engine"} \subseteq ready

\* A signal main has asked for ends the process, feed or no feed, whatever is
\* under way.
SignalEndsIt == sigc ~> at = "exited" /\ engine = "stopped"

\* Without an operator to ask, the start comes to an end one way or other,
\* unless it waits for the REST service for ever.
StartEnds == Chosen ~> at \in Ended \cup {"wait", "token", "universe"}

\* However often the connection is lost, the book catches up again, unless a
\* request could not be sent: nobody tries that again on the same connection.
CatchesUp ==
  engine = "running" ~> engine = "stopped" \/ request = "refused" \/ CaughtUp
=============================================================================
