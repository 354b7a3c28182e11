---------------------------- MODULE ControlLoop ----------------------------
(***************************************************************************)
(* The adaptive poll interval of runLoop.  Time is kept relative to the   *)
(* boost deadline: boostLeft = max(boostUntil - now, 0), so the state is  *)
(* finite without a clock bound.  One step is one iteration of the `for`  *)
(* loop: pick the interval, pollOnce (which takes some seconds and ends   *)
(* with no command, a command, or an error), reset the boost window on a  *)
(* command or error, sleep the interval picked at the top.  The idle-poll *)
(* log line and the idlePolls counter (never read) are left out.          *)
(***************************************************************************)
EXTENDS Integers

CONSTANTS
    ConfigIntervals,  \* values cfg.PollIntervalSeconds may hold
    Durations,        \* seconds one pollOnce may take (fetch + command + ack)
    MaxActivity       \* bound: cycles that receive a command or an error

defaultPollSeconds == 10
defaultFastPollSeconds == 3
defaultPollBoostSeconds == 60

ASSUME ConfigIntervals \subseteq Int /\ Durations \subseteq Nat
ASSUME MaxActivity \in Nat

Window == defaultPollBoostSeconds
Clip(x) == IF x < 0 THEN 0 ELSE IF x > Window THEN Window ELSE x
MinOf(a, b) == IF a < b THEN a ELSE b

\* Mutant: only negative values fall back to the default.
BaseInterval_ZeroKept(c) == IF c < 0 THEN defaultPollSeconds ELSE c
\* runLoop's setup of baseInterval and fastInterval from the config.
BaseInterval(c) == IF c <= 0 THEN defaultPollSeconds ELSE c
FastInterval(b) ==
    LET f == MinOf(b, defaultFastPollSeconds) IN IF f <= 0 THEN b ELSE f

Outcomes == {"none", "command", "error"}

VARIABLES
    base,        \* baseInterval
    fast,        \* fastInterval
    boostLeft,   \* seconds until boostUntil, 0 once passed
    slept,       \* interval slept by the last iteration (0 before the first)
    outcome,     \* what the last iteration's pollOnce returned
    activity,    \* iterations so far that saw a command or an error
    quiet,       \* history: seconds since the end of the last activity, clipped
    startQuiet   \* history: quiet at the top of the last iteration

vars == <<base, fast, boostLeft, slept, outcome, activity, quiet, startQuiet>>

TypeOK ==
    /\ base \in Nat \ {0} /\ fast \in Nat \ {0}
    /\ boostLeft \in 0..Window
    /\ slept \in {0, base, fast}
    /\ outcome \in Outcomes \cup {"start"}
    /\ activity \in 0..MaxActivity
    /\ quiet \in 0..Window /\ startQuiet \in 0..Window

\* The loop starts boosted: boostUntil = now + boostWindow.
Init ==
    /\ \E c \in ConfigIntervals :
         /\ base = BaseInterval(c)
         /\ fast = FastInterval(BaseInterval(c))
    /\ boostLeft = Window
    /\ slept = 0
    /\ outcome = "start"
    /\ activity = 0
    /\ quiet = 0 /\ startQuiet = 0

\* Mutant: boostUntil taken from time.Now() read before pollOnce.
Iteration_BoostFromStart ==
    LET interval == IF boostLeft > 0 THEN fast ELSE base IN
    \E out \in Outcomes, d \in Durations :
        /\ out # "none" => activity < MaxActivity
        /\ LET active == out \in {"command", "error"}
               deadline == IF active THEN Clip(Window - d) ELSE Clip(boostLeft - d)
           IN  /\ boostLeft' = Clip(deadline - interval)
               /\ quiet' = IF active THEN Clip(interval)
                           ELSE Clip(quiet + d + interval)
               /\ activity' = IF active THEN activity + 1 ELSE activity
        /\ slept' = interval
        /\ outcome' = out
        /\ startQuiet' = quiet
        /\ UNCHANGED <<base, fast>>

\* Mutant: every poll, idle ones included, restarts the boost window.
Iteration_IdleBoosts ==
    LET interval == IF boostLeft > 0 THEN fast ELSE base IN
    \E out \in Outcomes, d \in Durations :
        /\ out # "none" => activity < MaxActivity
        /\ LET active == out \in {"command", "error"}
           IN  /\ boostLeft' = Clip(Window - interval)
               /\ quiet' = IF active THEN Clip(interval)
                           ELSE Clip(quiet + d + interval)
               /\ activity' = IF active THEN activity + 1 ELSE activity
        /\ slept' = interval
        /\ outcome' = out
        /\ startQuiet' = quiet
        /\ UNCHANGED <<base, fast>>

\* One pass of the loop body.
Iteration ==
    LET interval == IF boostLeft > 0 THEN fast ELSE base IN
    \E out \in Outcomes, d \in Durations :
        /\ out # "none" => activity < MaxActivity
        /\ LET active == out \in {"command", "error"}
               deadline == IF active THEN Window ELSE Clip(boostLeft - d)
           IN  /\ boostLeft' = Clip(deadline - interval)
               /\ quiet' = IF active THEN Clip(interval)
                           ELSE Clip(quiet + d + interval)
               /\ activity' = IF active THEN activity + 1 ELSE activity
        /\ slept' = interval
        /\ outcome' = out
        /\ startQuiet' = quiet
        /\ UNCHANGED <<base, fast>>

Next == Iteration

\* runLoop iterates forever; nothing in it blocks except the bounded
\* sleep and the HTTP calls, which time out after defaultTimeout.
Spec == Init /\ [][Next]_vars /\ WF_vars(Iteration)

-----------------------------------------------------------------------------
\* spec.md 4.2: the boost window is rolling: an iteration sleeps the fast
\* interval exactly when it starts less than boostWindow seconds after the
\* end of the last cycle that received a command or an error (or after
\* startup), and the base interval otherwise.
BoostWindowHonoured ==
    outcome # "start" => slept = IF startQuiet < Window THEN fast ELSE base

\* Once commands and errors stop, the loop settles on the base interval.
ReturnsToBase == <>[](outcome # "start" => slept = base)

\* spec.md 8: immediately after a received command the agent polls at the
\* fast interval.  runLoop picks the interval before pollOnce.
FastAfterCommand == outcome = "command" => slept = fast

=============================================================================
