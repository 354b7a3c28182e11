------------------------------- MODULE Daemon -------------------------------
(***************************************************************************)
(* The daemon supervisor: startDaemon and stopDaemon of main.go, run by    *)
(* command-line invocations (`run --daemon`, `stop`) on one config         *)
(* directory, the daemon.pid file they coordinate through, and the        *)
(* operating system's process table, and `pair`, which writes the         *)
(* config.json a spawned loop needs to start.  Each file or process call is *)
(* one step, so that invocations, the loops they spawn and unrelated      *)
(* processes interleave between them.  The log file is left out.          *)
(***************************************************************************)
EXTENDS FiniteSets

CONSTANTS
    Pids,           \* process ids
    Clis,           \* command-line invocations
    Kind,           \* Clis -> {"start", "stop", "pair", "repair"}
    None,           \* no pid / no answer
    NoFile,         \* daemon.pid does not exist
    Empty,          \* daemon.pid exists and does not parse (truncated)
    Concurrent,     \* TRUE: invocations may overlap
    PidReuse,       \* TRUE: an exited pid may be taken by another process
    PidWriteFails   \* TRUE: os.WriteFile of daemon.pid may fail

ASSUME Kind \in [Clis -> {"start", "stop", "pair", "repair"}]
ASSUME {Concurrent, PidReuse, PidWriteFails} \subseteq BOOLEAN

\* A pid is free (never used), a connector loop still starting up or
\* running, another program, or gone (exited, and with PidReuse FALSE
\* never handed out again).
ProcStates == {"free", "starting", "loop", "other", "gone"}
Labels == {"ready", "remove", "spawn", "write", "fill",
           "probe", "rmstale", "kill", "wait", "rm",
           "request", "save", "done"}
Answers == {"started", "already_running", "write_failed", "not_running",
            "invalid_pid", "stopped", "did_not_exit", "kill_failed",
            "paired", "already_paired", "invalid_credentials",
            "network_error"}

VARIABLES
    proc,      \* Pids -> ProcStates
    term,      \* pids with a pending SIGTERM
    pidFile,   \* contents of daemon.pid: NoFile, Empty or a pid
    pc,        \* Clis -> Labels
    pidOf,     \* Clis -> the pid the invocation read or spawned
    answer,    \* Clis -> what it reported, or None
    paired     \* config.json exists with credentials

vars == <<proc, term, pidFile, pc, pidOf, answer, paired>>
cliVars == <<pc, pidOf, answer>>

TypeOK ==
    /\ proc \in [Pids -> ProcStates]
    /\ term \subseteq Pids
    /\ pidFile \in {NoFile, Empty} \cup Pids
    /\ pc \in [Clis -> Labels]
    /\ pidOf \in [Clis -> Pids \cup {None}]
    /\ answer \in [Clis -> Answers \cup {None}]
    /\ paired \in BOOLEAN

\* processAlive: kill(pid, 0) succeeds for any live process, ours or not.
Alive(p) == proc[p] \in {"starting", "loop", "other"}

\* A process this program spawned as the daemon.
Ours(p) == proc[p] \in {"starting", "loop"}

\* fileExists and parsePID on the contents of daemon.pid: an empty
\* (truncated) file is a parse error.
FileExists(f) == f # NoFile
ParsePID(f) == f \in Pids

\* What an exited pid becomes.
Exited == {"gone"} \cup (IF PidReuse THEN {"other"} ELSE {})

\* The config directory of an earlier run: no pid file, a truncated one,
\* or a stale pid whose process has exited (or was reused after a reboot);
\* paired or not yet.
Init ==
    /\ paired \in BOOLEAN
    /\ pidFile \in {NoFile, Empty} \cup Pids
    /\ \E s \in Exited :
         proc = [q \in Pids |-> IF q = pidFile THEN s ELSE "free"]
    /\ term = {}
    /\ pc = [c \in Clis |-> "ready"]
    /\ pidOf = [c \in Clis |-> None]
    /\ answer = [c \in Clis |-> None]

\* Invocation c moves from label `from` to `to`.
Goto(c, from, to) == pc[c] = from /\ pc' = [pc EXCEPT ![c] = to]
Finish(c, from, a) ==
    /\ Goto(c, from, "done")
    /\ answer' = [answer EXCEPT ![c] = a]

\* An invocation begins only when no other is under way, unless
\* invocations may overlap.
MayBegin(c) ==
    IF Concurrent THEN TRUE
    ELSE \A d \in Clis \ {c} : pc[d] \in {"ready", "done"}

-----------------------------------------------------------------------------
(***************************************************************************)
(* startDaemon                                                             *)
(***************************************************************************)

\* Mutant: any pid file is treated as stale.
StartCheck_IgnoreAlive(c) ==
    /\ Kind[c] = "start" /\ MayBegin(c)
    /\ Goto(c, "ready", IF pidFile = NoFile THEN "spawn" ELSE "remove")
    /\ UNCHANGED <<proc, term, pidFile, pidOf, answer>>

\* fileExists, ReadFile, parsePID, processAlive: a live pid refuses the
\* start, anything else in the file is removed.
StartCheck(c) ==
    /\ Kind[c] = "start" /\ MayBegin(c)
    /\ IF ParsePID(pidFile) /\ Alive(pidFile)
       THEN Finish(c, "ready", "already_running")
       ELSE /\ Goto(c, "ready", IF FileExists(pidFile) THEN "remove" ELSE "spawn")
            /\ UNCHANGED answer
    /\ UNCHANGED <<proc, term, pidFile, pidOf>>

\* os.Remove(pidPath): whatever the file holds now.
StartRemove(c) ==
    /\ Goto(c, "remove", "spawn")
    /\ pidFile' = NoFile
    /\ UNCHANGED <<proc, term, pidOf, answer>>

\* cmd.Start of `run --config` in a new session, then Release: the child
\* runs on its own and starts its loop (LoopStart) when it gets to it.
StartSpawn(c) ==
    /\ \E q \in Pids :
         /\ proc[q] = "free"
         /\ proc' = [proc EXCEPT ![q] = "starting"]
         /\ pidOf' = [pidOf EXCEPT ![c] = q]
    /\ Goto(c, "spawn", "write")
    /\ UNCHANGED <<term, pidFile, answer>>

\* os.WriteFile(pidPath): open with truncation (the file is then empty
\* until the write lands), or fail and return the error.  Either way the
\* spawned loop keeps running.
StartWrite(c) ==
    /\ \E ok \in {TRUE} \cup (IF PidWriteFails THEN {FALSE} ELSE {}) :
         IF ok
         THEN Goto(c, "write", "fill") /\ pidFile' = Empty /\ UNCHANGED answer
         ELSE Finish(c, "write", "write_failed") /\ UNCHANGED pidFile
    /\ UNCHANGED <<proc, term, pidOf>>

StartFill(c) ==
    /\ Finish(c, "fill", "started")
    /\ pidFile' = pidOf[c]
    /\ UNCHANGED <<proc, term, pidOf>>

-----------------------------------------------------------------------------
(***************************************************************************)
(* stopDaemon                                                              *)
(***************************************************************************)

\* Mutant: the parse error of a truncated pid file is ignored.
StopRead_IgnoreParse(c) ==
    /\ Kind[c] = "stop" /\ MayBegin(c)
    /\ IF pidFile = NoFile
       THEN Finish(c, "ready", "not_running") /\ UNCHANGED pidOf
       ELSE /\ Goto(c, "ready", "probe")
            /\ pidOf' = [pidOf EXCEPT ![c] = pidFile]
            /\ UNCHANGED answer
    /\ UNCHANGED <<proc, term, pidFile>>

\* fileExists, ReadFile, parsePID.
StopRead(c) ==
    /\ Kind[c] = "stop" /\ MayBegin(c)
    /\ CASE ~FileExists(pidFile) -> Finish(c, "ready", "not_running")
                                /\ UNCHANGED pidOf
         [] ~ParsePID(pidFile) -> Finish(c, "ready", "invalid_pid")
                                /\ UNCHANGED pidOf
         [] OTHER -> /\ Goto(c, "ready", "probe")
                     /\ pidOf' = [pidOf EXCEPT ![c] = pidFile]
                     /\ UNCHANGED answer
    /\ UNCHANGED <<proc, term, pidFile>>

\* processAlive(pid): a dead pid's file is removed as stale.
StopProbe(c) ==
    /\ Goto(c, "probe", IF Alive(pidOf[c]) THEN "kill" ELSE "rmstale")
    /\ UNCHANGED <<proc, term, pidFile, pidOf, answer>>

StopRemoveStale(c) ==
    /\ Finish(c, "rmstale", "not_running")
    /\ pidFile' = NoFile
    /\ UNCHANGED <<proc, term, pidOf>>

\* syscall.Kill(pid, SIGTERM): to whatever process holds the pid now.
StopKill(c) ==
    /\ pc[c] = "kill"
    /\ LET p == pidOf[c] IN
       IF Alive(p)
       THEN Goto(c, "kill", "wait") /\ term' = term \cup {p}
            /\ UNCHANGED answer
       ELSE Finish(c, "kill", "kill_failed") /\ UNCHANGED term
    /\ UNCHANGED <<proc, pidFile, pidOf>>

\* Mutant: the pid file is removed after the grace period even if the
\* process is still alive.
StopWait_RemoveAlways(c) ==
    /\ Goto(c, "wait", "rm")
    /\ UNCHANGED <<proc, term, pidFile, pidOf, answer>>

\* Sleep 200ms, then processAlive again.
StopWait(c) ==
    /\ pc[c] = "wait"
    /\ IF Alive(pidOf[c])
       THEN Finish(c, "wait", "did_not_exit")
       ELSE Goto(c, "wait", "rm") /\ UNCHANGED answer
    /\ UNCHANGED <<proc, term, pidFile, pidOf>>

StopRemove(c) ==
    /\ Finish(c, "rm", "stopped")
    /\ pidFile' = NoFile
    /\ UNCHANGED <<proc, term, pidOf>>

-----------------------------------------------------------------------------
(***************************************************************************)
(* runPair.  The control plane's answer is nondeterministic: credentials,  *)
(* a rejected token (non-2xx), or no usable answer (request error or      *)
(* undecodable body).  Every failure is a fail(): exit with nothing       *)
(* written.                                                                *)
(***************************************************************************)

\* fileExists(path) && !replace: an existing config is kept.
PairCheck(c) ==
    /\ Kind[c] \in {"pair", "repair"} /\ MayBegin(c)
    /\ IF paired /\ Kind[c] = "pair"
       THEN Finish(c, "ready", "already_paired")
       ELSE Goto(c, "ready", "request") /\ UNCHANGED answer
    /\ UNCHANGED <<proc, term, pidFile, pidOf, paired>>

\* POST /self-host/pair, the status check and the decode.
PairRequest(c) ==
    /\ \E r \in {"ok", "invalid_credentials", "network_error"} :
         IF r = "ok" THEN Goto(c, "request", "save") /\ UNCHANGED answer
         ELSE Finish(c, "request", r)
    /\ UNCHANGED <<proc, term, pidFile, pidOf, paired>>

\* saveJSON(path, cfg) with the new credentials.
PairSave(c) ==
    /\ Finish(c, "save", "paired")
    /\ paired' = TRUE
    /\ UNCHANGED <<proc, term, pidFile, pidOf>>

-----------------------------------------------------------------------------
(***************************************************************************)
(* The processes.                                                          *)
(***************************************************************************)

\* The spawned `run --config`: loadConfig (a missing or unreadable file
\* reads as empty), ensureMultipassAvailable, then runLoop, which fail()s
\* without base_url and connector_token.  A missing multipass is an exit
\* on its own (ProcExit).
LoopStart(q) ==
    /\ proc[q] = "starting"
    /\ IF paired THEN proc' = [proc EXCEPT ![q] = "loop"]
                 ELSE \E s \in Exited : proc' = [proc EXCEPT ![q] = s]
    /\ UNCHANGED <<term, pidFile, cliVars, paired>>

\* A process ends: on SIGTERM (Go's default action), or on its own (a
\* connector loop calls fail() when state.json cannot be written).
ProcExit(q) ==
    /\ Alive(q)
    /\ \E s \in Exited : proc' = [proc EXCEPT ![q] = s]
    /\ term' = term \ {q}
    /\ UNCHANGED <<pidFile, cliVars, paired>>

Cli(c) ==
    \/ /\ \/ StartCheck(c) \/ StartRemove(c) \/ StartSpawn(c)
          \/ StartWrite(c) \/ StartFill(c)
          \/ StopRead(c) \/ StopProbe(c) \/ StopRemoveStale(c)
          \/ StopKill(c) \/ StopWait(c) \/ StopRemove(c)
       /\ UNCHANGED paired
    \/ PairCheck(c) \/ PairRequest(c) \/ PairSave(c)

Next ==
    \/ \E c \in Clis : Cli(c)
    \/ \E q \in Pids : LoopStart(q) \/ ProcExit(q)

\* An invocation runs to completion (its only wait is the 200ms sleep); a
\* spawned child gets to its start-up checks; a signalled process exits.
\* Running loops may run forever.
Fairness ==
    /\ \A c \in Clis : WF_vars(Cli(c))
    /\ \A q \in Pids : WF_vars(LoopStart(q))
    /\ \A q \in Pids : WF_vars(q \in term /\ ProcExit(q))

Spec == Init /\ [][Next]_vars /\ Fairness

-----------------------------------------------------------------------------
(***************************************************************************)
(* Properties.                                                             *)
(***************************************************************************)

Spawned(c) == Kind[c] = "start" /\ pidOf[c] # None

\* The supervisor the spec describes, seen through the pid file protocol:
\* the number of spawned daemons, starting or running, is the abstract
\* daemon count; pair invocations are not the supervisor's.
SupClis == {c \in Clis : Kind[c] \in {"start", "stop"}}

Abstract == INSTANCE Supervisor WITH
    Clis <- SupClis,
    loops <- Cardinality({q \in Pids : Ours(q)}),
    spawned <- [c \in SupClis |-> Spawned(c)],
    answer <- [c \in SupClis |-> answer[c]]

\* spec.md 4.6: startDaemon / stopDaemon implement the supervisor: never
\* a second loop, AlreadyRunning only while the daemon runs, NotRunning and
\* success only when it does not.
SupervisorRefined == Abstract!Spec

\* Between invocations every spawned daemon, starting or running, is the
\* one daemon.pid names, so that `stop` can reach it (startDaemon writes
\* the pid only after the spawn; stopDaemon removes the file only once the
\* pid is dead).
OrphanFree ==
    (\A c \in Clis : pc[c] \in {"ready", "done"})
    => \A q \in Pids : Ours(q) => pidFile = q

=============================================================================
