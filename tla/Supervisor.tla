----------------------------- MODULE Supervisor -----------------------------
(***************************************************************************)
(* What the daemon supervisor promises (spec.md 4.6), with no pid file and *)
(* no process table: at most one connector loop runs in the background;  *)
(* `run --daemon` starts it only when none runs and otherwise answers     *)
(* AlreadyRunning; `stop` answers NotRunning only when none runs and      *)
(* reports success only once it is gone; a stop may fail (the daemon did  *)
(* not exit in time).  Each invocation answers once.                      *)
(***************************************************************************)
EXTENDS Naturals

CONSTANTS
    Clis,     \* the command-line invocations
    Kind,     \* Clis -> {"start", "stop"}
    None      \* no answer yet

\* The answers of startDaemon / stopDaemon, by what they tell the user.
StartAnswers == {"started", "already_running", "write_failed"}
StopAnswers  == {"not_running", "invalid_pid", "stopped", "did_not_exit",
                 "kill_failed"}

VARIABLES
    loops,     \* connector loops running in the background
    spawned,   \* Clis -> BOOLEAN: this start launched a loop
    answer     \* Clis -> answer or None

vars == <<loops, spawned, answer>>

\* When an answer is consistent with the daemon's state.
Allowed(c, a) ==
    CASE a = "started"         -> spawned[c]
      [] a = "write_failed"    -> spawned[c]
      [] a = "already_running" -> loops = 1 /\ ~spawned[c]
      [] a \in {"not_running", "invalid_pid", "stopped"} -> loops = 0
      [] OTHER                 -> TRUE

Init ==
    /\ loops = 0
    /\ spawned = [c \in Clis |-> FALSE]
    /\ answer = [c \in Clis |-> None]

\* A start launches the daemon, only while none runs.
Spawn(c) ==
    /\ Kind[c] = "start" /\ answer[c] = None /\ ~spawned[c]
    /\ loops = 0
    /\ loops' = 1
    /\ spawned' = [spawned EXCEPT ![c] = TRUE]
    /\ UNCHANGED answer

\* The daemon ends: stopped by a signal, or on its own.
Exit ==
    /\ loops = 1
    /\ loops' = 0
    /\ UNCHANGED <<spawned, answer>>

Answer(c) ==
    /\ answer[c] = None
    /\ \E a \in IF Kind[c] = "start" THEN StartAnswers ELSE StopAnswers :
         /\ Allowed(c, a)
         /\ answer' = [answer EXCEPT ![c] = a]
    /\ UNCHANGED <<loops, spawned>>

Next == Exit \/ \E c \in Clis : Spawn(c) \/ Answer(c)

Spec == Init /\ [][Next]_vars

=============================================================================
