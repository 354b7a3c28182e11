------------------------------ MODULE Agent ------------------------------
(***************************************************************************)
(* The connector's core: the poll / execute / acknowledge cycle of        *)
(* pollOnce, the dispatcher executeCommand and its six handlers, the       *)
(* in-memory State and its state.json file (loadState / saveState), and   *)
(* crashes of the agent process with a restart that reloads the file.     *)
(* The control plane (not in this repository) is modelled from spec.md    *)
(* section 6: GET /next hands out the oldest unacknowledged command, POST *)
(* /ack removes it; a lost acknowledgement means the command is handed    *)
(* out again.  Procs are agent processes sharing one config directory     *)
(* (the daemon, a foreground `run`, a `once`).                            *)
(***************************************************************************)
EXTENDS Resize, FiniteSets, Functions, TLC

CONSTANTS
    Hosts,          \* host ids
    Procs,          \* agent processes using the same state.json
    None,           \* an absent payload field
    Corrupt,        \* a state.json that does not parse
    Derived,        \* "cocalc-" + hostID, as a function Hosts -> Names
    Payloads,       \* the command payloads the control plane may issue
    Bodies,         \* the size fields a payload carries, by key (pl.size)
    MaxCmds,        \* bound: commands the control plane issues
    MaxCrashes,     \* bound: agent process crashes
    MaxAckLoss,     \* bound: lost acknowledgements
    MaxOutOfBand,   \* bound: instance changes made outside the connector
    TornWrites,     \* TRUE: a crash during os.WriteFile leaves a torn file
    FsCanFail       \* TRUE: the cloud-init scratch mkdir / write may fail

ASSUME Derived \in [Hosts -> Names] /\ IsInjective(Derived)
ASSUME None \notin Hosts \cup Names

Actions == {"create", "start", "stop", "delete", "status", "resize", "unknown"}
ASSUME \A pl \in Payloads :
         /\ pl.action \in Actions /\ pl.init \in BOOLEAN
         /\ pl.host \in Hosts \cup {None} /\ pl.name \in Names \cup {None}
         /\ pl.size \in DOMAIN Bodies
ASSUME \A b \in DOMAIN Bodies : IsSizeMap(Bodies[b])

\* What handleResize's coercions make of each size body.
Request == [b \in DOMAIN Bodies |-> ResizeRequest(Bodies[b])]
Command == [id: 1..MaxCmds, pl: Payloads]

\* InstanceState, abstracted to which fields are set.
Entry == [name: Names, image: BOOLEAN, createdAt: BOOLEAN, last: VmStates \cup {""}]
StateMap == UNION {[D -> Entry] : D \in SUBSET Hosts}

Result == [status: {"ok", "error"},
           state: VmStates \cup {"", "not_found", "deleted"}]
Error == [status |-> "error", state |-> ""]
Reply(s) == [status |-> "ok", state |-> s]
NoResult == [status |-> "ok", state |-> ""]

VARIABLES
    vm,          \* the multipass instance table
    file,        \* the content of state.json
    mem,         \* mem[p]: process p's in-memory State.Instances
    up,          \* up[p]: process p is running
    phase,       \* phase[p]: "idle" or "executed" (result not yet acked)
    cur,         \* cur[p]: id of the command p executed last
    res,         \* res[p]: the result p will acknowledge
    pending,     \* control plane: unacknowledged commands, oldest first
    nextId,      \* control plane: id of the next command to issue
    crashes,     \* crashes so far
    ackLoss,     \* acknowledgements lost so far
    outOfBand,   \* out-of-band instance changes so far
    scratch,     \* cloud-init scratch directories left on disk
    calls,       \* history: multipass invocations <<verb, name>> of this step
    seen,        \* history: names of instances that have existed
    launchedFor  \* history: launchedFor[n] = host whose create launched n

vars == <<vm, file, mem, up, phase, cur, res, pending, nextId, crashes,
          ackLoss, outOfBand, scratch, calls, seen, launchedFor>>
agentVars == <<file, mem, up, phase, cur, res, crashes, ackLoss, scratch>>

TypeOK ==
    /\ vm \in VmTable
    /\ file \in StateMap \cup {Corrupt}
    /\ mem \in [Procs -> StateMap]
    /\ up \in [Procs -> BOOLEAN]
    /\ phase \in [Procs -> {"idle", "executed"}]
    /\ cur \in [Procs -> 0..MaxCmds]
    /\ res \in [Procs -> Result]
    /\ pending \in Seq(Command)
    /\ nextId \in 1..MaxCmds + 1
    /\ crashes \in 0..MaxCrashes /\ ackLoss \in 0..MaxAckLoss
    /\ outOfBand \in 0..MaxOutOfBand
    /\ scratch \in Nat
    /\ calls \in Seq(Verbs \X Names)
    /\ seen \subseteq Names
    /\ launchedFor \in [Names -> Hosts \cup {None}]

\* loadState: a missing or malformed file reads as the empty State.
LoadState(f) == IF f = Corrupt THEN <<>> ELSE f

Track(m, h, e) == (h :> e) @@ m
\* Mutant: the entry is overwritten with a zero InstanceState instead of
\* being deleted from the map.
Untrack_ZeroEntry(m, h) ==
    [x \in DOMAIN m |-> IF x = h
                        THEN [name |-> None, image |-> FALSE,
                              createdAt |-> FALSE, last |-> ""]
                        ELSE m[x]]
Untrack(m, h) == Restrict(m, DOMAIN m \ {h})

Init ==
    /\ vm = [n \in Names |-> Absent]
    /\ file = <<>>
    /\ mem = [p \in Procs |-> LoadState(file)]
    /\ up = [p \in Procs |-> TRUE]
    /\ phase = [p \in Procs |-> "idle"]
    /\ cur = [p \in Procs |-> 0]
    /\ res = [p \in Procs |-> NoResult]
    /\ pending = <<>>
    /\ nextId = 1
    /\ crashes = 0 /\ ackLoss = 0 /\ outOfBand = 0 /\ scratch = 0
    /\ calls = <<>>
    /\ seen = {}
    /\ launchedFor = [n \in Names |-> None]

-----------------------------------------------------------------------------
(***************************************************************************)
(* State store and handler plumbing.                                       *)
(***************************************************************************)

\* saveState -> saveJSON: os.WriteFile truncates and rewrites state.json in
\* place.  The process can die while it runs (SIGTERM from `stop`, a kill,
\* a failed write that calls fail() -> os.Exit): the file is then either
\* untouched or, with TornWrites, left torn (a write that fails after the
\* O_TRUNC open, e.g. on a full disk, leaves it truncated).
SaveState(p, m) ==
    /\ mem' = [mem EXCEPT ![p] = m]
    /\ \/ /\ file' = m
          /\ UNCHANGED <<up, crashes>>
       \/ /\ crashes < MaxCrashes
          /\ crashes' = crashes + 1
          /\ up' = [up EXCEPT ![p] = FALSE]
          /\ file' \in {file} \cup (IF TornWrites THEN {Corrupt} ELSE {})

NoSave == UNCHANGED <<mem, file, up, crashes>>

Answer(p, r) == res' = [res EXCEPT ![p] = r]

\* A handler that fails before touching anything.
Reject(p) == Answer(p, Error) /\ NoSave /\ calls' = <<>>
             /\ UNCHANGED <<vm, scratch, launchedFor>>

\* The target name: the payload's name, else the host's tracked name.
ResolveName(p, pl) ==
    IF pl.name # None THEN pl.name
    ELSE IF pl.host # None /\ pl.host \in DOMAIN mem[p]
         THEN mem[p][pl.host].name
         ELSE None

-----------------------------------------------------------------------------
(***************************************************************************)
(* The handlers.                                                           *)
(***************************************************************************)

\* Mutant: the entry is recorded whatever launch's exit code.
Launch_SaveOnFailure(p, pl, n) ==
    \E o \in RunMultipass(vm, n, "launch") :
        /\ vm' = o.vm
        /\ calls' = <<<<"launch", n>>>>
        /\ scratch' = scratch
        /\ launchedFor' = IF o.vm[n] # vm[n]
                          THEN [launchedFor EXCEPT ![n] = pl.host]
                          ELSE launchedFor
        /\ \E i \in MultipassInfo(o.vm, n) :
              /\ SaveState(p, Track(mem[p], pl.host,
                   [name |-> n, image |-> TRUE, createdAt |-> TRUE,
                    last |-> i.state]))
              /\ Answer(p, IF o.ok THEN Reply(i.state) ELSE Error)

\* launch, then re-read info and record the new instance (handleCreate
\* after the cloud-init file, if any, is written).
Launch(p, pl, n) ==
    \E o \in RunMultipass(vm, n, "launch") :
        /\ vm' = o.vm
        /\ calls' = <<<<"launch", n>>>>
        /\ scratch' = IF pl.init /\ ~o.ok THEN scratch + 1 ELSE scratch
        /\ launchedFor' = IF o.vm[n] # vm[n]
                          THEN [launchedFor EXCEPT ![n] = pl.host]
                          ELSE launchedFor
        /\ IF o.ok
           THEN \E i \in MultipassInfo(o.vm, n) :
                  /\ SaveState(p, Track(mem[p], pl.host,
                       [name |-> n, image |-> TRUE, createdAt |-> TRUE,
                        last |-> i.state]))
                  /\ Answer(p, Reply(i.state))
           ELSE Answer(p, Error) /\ NoSave

\* Mutant: an existing instance is adopted in memory but not saved.
HandleCreate_AdoptNoSave(p, pl) ==
    IF pl.host = None THEN Reject(p)
    ELSE
    LET n == IF pl.name # None THEN pl.name ELSE Derived[pl.host]
    IN \E i \in MultipassInfo(vm, n) :
       IF i.exists
       THEN /\ mem' = [mem EXCEPT ![p] = Track(mem[p], pl.host,
                 [name |-> n, image |-> TRUE, createdAt |-> FALSE,
                  last |-> i.state])]
            /\ UNCHANGED <<file, up, crashes>>
            /\ Answer(p, Reply(i.state))
            /\ calls' = <<>>
            /\ UNCHANGED <<vm, scratch, launchedFor>>
       ELSE Launch(p, pl, n)

\* Mutant: no existence check; create always launches.
HandleCreate_NoInfo(p, pl) ==
    IF pl.host = None THEN Reject(p)
    ELSE Launch(p, pl, IF pl.name # None THEN pl.name ELSE Derived[pl.host])

HandleCreate(p, pl) ==
    IF pl.host = None THEN Reject(p)
    ELSE
    LET n == IF pl.name # None THEN pl.name ELSE Derived[pl.host]
    IN \E i \in MultipassInfo(vm, n) :
       IF i.exists
       THEN /\ SaveState(p, Track(mem[p], pl.host,
                 [name |-> n, image |-> TRUE, createdAt |-> FALSE,
                  last |-> i.state]))
            /\ Answer(p, Reply(i.state))
            /\ calls' = <<>>
            /\ UNCHANGED <<vm, scratch, launchedFor>>
       ELSE \/ Launch(p, pl, n)
            \* cloud-init mkdir fails: nothing is left behind
            \/ /\ pl.init /\ FsCanFail
               /\ Reject(p)
            \* cloud-init write fails: the scratch directory stays
            \/ /\ pl.init /\ FsCanFail
               /\ Answer(p, Error) /\ NoSave /\ calls' = <<>>
               /\ scratch' = scratch + 1
               /\ UNCHANGED <<vm, launchedFor>>

\* Mutant: start / stop without the info existence check.
HandleStartStop_NoInfo(p, pl, verb) ==
    LET n == ResolveName(p, pl) IN
    IF n = None THEN Reject(p)
    ELSE /\ NoSave
         /\ UNCHANGED <<scratch, launchedFor>>
         /\ \E o \in RunMultipass(vm, n, verb) :
               /\ vm' = o.vm
               /\ calls' = <<<<verb, n>>>>
               /\ IF o.ok
                  THEN \E r \in MultipassInfo(o.vm, n) : Answer(p, Reply(r.state))
                  ELSE Answer(p, Error)

\* handleStart and handleStop differ only in the verb.
HandleStartStop(p, pl, verb) ==
    LET n == ResolveName(p, pl) IN
    IF n = None THEN Reject(p)
    ELSE /\ NoSave
         /\ UNCHANGED <<scratch, launchedFor>>
         /\ \E i \in MultipassInfo(vm, n) :
            IF ~i.exists
            THEN Answer(p, Reply("not_found")) /\ calls' = <<>>
                 /\ UNCHANGED vm
            ELSE \E o \in RunMultipass(vm, n, verb) :
                   /\ vm' = o.vm
                   /\ calls' = <<<<verb, n>>>>
                   /\ IF o.ok
                      THEN \E r \in MultipassInfo(o.vm, n) : Answer(p, Reply(r.state))
                      ELSE Answer(p, Error)

\* handleDelete: delete and purge, exit codes ignored, then untrack the host.
HandleDelete(p, pl) ==
    LET n == ResolveName(p, pl) IN
    IF n = None THEN Reject(p)
    ELSE \E o1 \in RunMultipass(vm, n, "delete") :
         \E o2 \in RunMultipass(o1.vm, n, "purge") :
           /\ vm' = o2.vm
           /\ calls' = <<<<"delete", n>>, <<"purge", n>>>>
           /\ launchedFor' = [launchedFor EXCEPT ![n] = None]
           /\ UNCHANGED scratch
           /\ IF pl.host # None
              THEN SaveState(p, Untrack(mem[p], pl.host))
              ELSE NoSave
           /\ Answer(p, Reply("deleted"))

\* handleStatus: the entry is rewritten from info alone (no image, no
\* created_at).
HandleStatus(p, pl) ==
    LET n == ResolveName(p, pl) IN
    IF n = None THEN Reject(p)
    ELSE /\ calls' = <<>>
         /\ UNCHANGED <<vm, scratch, launchedFor>>
         /\ \E i \in MultipassInfo(vm, n) :
            IF ~i.exists
            THEN Answer(p, Reply("not_found")) /\ NoSave
            ELSE /\ IF pl.host # None
                    THEN SaveState(p, Track(mem[p], pl.host,
                           [name |-> n, image |-> FALSE, createdAt |-> FALSE,
                            last |-> i.state]))
                    ELSE NoSave
                 /\ Answer(p, Reply(i.state))

\* handleResize: the invocation sequence of module Resize; State untouched.
HandleResize(p, pl) ==
    LET n == ResolveName(p, pl) IN
    IF n = None THEN Reject(p)
    ELSE /\ NoSave
         /\ UNCHANGED <<scratch, launchedFor>>
         /\ \E i \in MultipassInfo(vm, n) :
            IF ~i.exists
            THEN Answer(p, Reply("not_found")) /\ calls' = <<>> /\ UNCHANGED vm
            ELSE
            LET rq == Request[pl.size] IN
            IF rq.req = {}
            THEN Answer(p, Reply(i.state)) /\ calls' = <<>> /\ UNCHANGED vm
            ELSE \E r \in ResizeOutcomes(vm, n, i.state = "Running", rq.req,
                                         rq.diskGB > 0) :
                   /\ vm' = r.vm
                   /\ calls' = [k \in DOMAIN r.issued |-> <<r.issued[k], n>>]
                   /\ IF r.ok
                      THEN \E f \in MultipassInfo(r.vm, n) : Answer(p, Reply(f.state))
                      ELSE Answer(p, Error)

ExecuteCommand(p, pl) ==
    CASE pl.action = "create" -> HandleCreate(p, pl)
      [] pl.action = "start"  -> HandleStartStop(p, pl, "start")
      [] pl.action = "stop"   -> HandleStartStop(p, pl, "stop")
      [] pl.action = "delete" -> HandleDelete(p, pl)
      [] pl.action = "status" -> HandleStatus(p, pl)
      [] pl.action = "resize" -> HandleResize(p, pl)
      [] OTHER                -> Reject(p)

-----------------------------------------------------------------------------
(***************************************************************************)
(* The cycle of pollOnce, crashes and restarts, and the control plane.    *)
(***************************************************************************)

\* GET /next returned a command: execute it (to completion, or until the
\* process dies inside saveState).
Dispatch(p) ==
    /\ up[p] /\ phase[p] = "idle" /\ pending # <<>>
    /\ ExecuteCommand(p, Head(pending).pl)
    /\ cur' = [cur EXCEPT ![p] = Head(pending).id]
    /\ phase' = [phase EXCEPT ![p] = IF up'[p] THEN "executed" ELSE "idle"]
    /\ seen' = seen \cup {n \in Names : vm'[n] # Absent}
    /\ UNCHANGED <<pending, nextId, ackLoss, outOfBand>>

\* POST /ack: the control plane drops the command, or the request is lost
\* (pollOnce only logs a failed ack) and the command stays pending.
Ack(p) ==
    /\ up[p] /\ phase[p] = "executed"
    /\ phase' = [phase EXCEPT ![p] = "idle"]
    /\ \/ /\ pending' = SelectSeq(pending, LAMBDA c : c.id # cur[p])
          /\ UNCHANGED ackLoss
       \/ /\ ackLoss < MaxAckLoss
          /\ ackLoss' = ackLoss + 1
          /\ UNCHANGED pending
    /\ calls' = <<>>
    /\ UNCHANGED <<vm, file, mem, up, cur, res, nextId, crashes, outOfBand,
                   scratch, seen, launchedFor>>

\* The process dies between two calls (before a fetch, or after executing
\* and before the ack).
Crash(p) ==
    /\ up[p] /\ crashes < MaxCrashes
    /\ crashes' = crashes + 1
    /\ up' = [up EXCEPT ![p] = FALSE]
    /\ phase' = [phase EXCEPT ![p] = "idle"]
    /\ calls' = <<>>
    /\ UNCHANGED <<vm, file, mem, cur, res, pending, nextId, ackLoss,
                   outOfBand, scratch, seen, launchedFor>>

\* `run` again: runLoop reloads state.json.
Restart(p) ==
    /\ ~up[p]
    /\ up' = [up EXCEPT ![p] = TRUE]
    /\ mem' = [mem EXCEPT ![p] = LoadState(file)]
    /\ calls' = <<>>
    /\ UNCHANGED <<vm, file, phase, cur, res, pending, nextId, crashes,
                   ackLoss, outOfBand, scratch, seen, launchedFor>>

\* The control plane queues a new command.
Issue ==
    /\ nextId <= MaxCmds
    /\ \E pl \in Payloads :
         pending' = Append(pending, [id |-> nextId, pl |-> pl])
    /\ nextId' = nextId + 1
    /\ calls' = <<>>
    /\ UNCHANGED <<vm, file, mem, up, phase, cur, res, crashes, ackLoss,
                   outOfBand, scratch, seen, launchedFor>>

\* GET /next answered 204: nothing to do until the next cycle.
IdlePoll(p) ==
    /\ up[p] /\ phase[p] = "idle" /\ pending = <<>>
    /\ calls' = <<>>
    /\ UNCHANGED <<vm, file, mem, up, phase, cur, res, pending, nextId,
                   crashes, ackLoss, outOfBand, scratch, seen, launchedFor>>

\* Someone else acts on an instance: the guest shuts down, or an operator
\* runs `multipass delete --purge` by hand.  State is not told.
OutOfBand ==
    /\ outOfBand < MaxOutOfBand
    /\ outOfBand' = outOfBand + 1
    /\ \E n \in Names, s \in {"Stopped", Absent} :
         /\ vm[n] \in {"Running", "Stopped"}
         /\ vm' = [vm EXCEPT ![n] = s]
    /\ calls' = <<>>
    /\ UNCHANGED <<agentVars, pending, nextId, seen, launchedFor>>

Next ==
    \/ Issue
    \/ OutOfBand
    \/ \E p \in Procs :
         Dispatch(p) \/ Ack(p) \/ IdlePoll(p) \/ Crash(p) \/ Restart(p)

\* No fairness: runMultipass runs exec.Command with no timeout, so a hung
\* multipass call blocks the handler, and with it pollOnce and the ack,
\* forever.  Only safety is claimed of this module.
Spec == Init /\ [][Next]_vars

-----------------------------------------------------------------------------
(***************************************************************************)
(* Properties.                                                             *)
(***************************************************************************)

\* p executes the command at the head of the queue in this step.
Executed(p) == phase[p] = "idle" /\ phase'[p] = "executed"
Exec(p, acts) == Executed(p) /\ Head(pending).pl.action \in acts
Target(p) == ResolveName(p, Head(pending).pl)

\* spec.md 3: a host id present in State (in memory or in state.json)
\* names an instance that was, at some point, launched or observed.
\* Written by handleCreate and handleStatus.
TrackedWasObserved ==
    /\ \A p \in Procs : \A h \in DOMAIN mem[p] : mem[p][h].name \in seen
    /\ file # Corrupt => \A h \in DOMAIN file : file[h].name \in seen

\* spec.md 8: start / stop / status / resize of an instance that does not
\* exist answer "not_found", not an error, whenever the target name is
\* known (from the payload or from State).  multipassInfo's failure path.
AbsentIsNotFound ==
    [][\A p \in Procs :
         /\ Exec(p, {"start", "stop", "status", "resize"})
         /\ Target(p) # None
         /\ vm[Target(p)] = Absent
         => res'[p] = Reply("not_found")]_vars

\* spec.md 4.3: a resize that answers ok leaves the instance running if it
\* was running and stopped if it was stopped, whatever it had to stop,
\* start and grow in between (handleResize's wasRunning / started logic).
ResizeKeepsRunState ==
    [][\A p \in Procs :
         /\ Exec(p, {"resize"})
         /\ Target(p) # None
         /\ res'[p].status = "ok"
         => vm'[Target(p)] = vm[Target(p)]]_vars

\* An instance a create launched for host h, while it exists and no delete
\* has targeted it, is tracked under h in state.json, or a create for it is
\* still pending so that its redelivery adopts it (handleCreate's info
\* check).  This is what survives a crash between launch and saveState,
\* a lost ack, and a restart that reloads state.json.
CreatePending(h, n) ==
    \E k \in 1..Len(pending) :
        LET pl == pending[k].pl IN
        /\ pl.action = "create" /\ pl.host = h
        /\ n = IF pl.name # None THEN pl.name ELSE Derived[h]

TrackedDurably(h, n) == file # Corrupt /\ h \in DOMAIN file /\ file[h].name = n

LaunchedInstancesRecoverable ==
    \A n \in Names :
        launchedFor[n] # None /\ vm[n] # Absent
        => TrackedDurably(launchedFor[n], n) \/ CreatePending(launchedFor[n], n)

\* spec.md 4.3: delete answers "deleted" only once the instance is gone.
\* handleDelete ignores the exit codes of delete and purge.
DeleteReportsGone ==
    [][\A p \in Procs :
         /\ Exec(p, {"delete"})
         /\ res'[p] = Reply("deleted")
         => vm'[Target(p)] = Absent]_vars

\* spec.md 8: a create for a host whose first create succeeded, while its
\* instance still exists, answers that instance's observed state and
\* issues no second launch (handleCreate's multipassInfo check).
CreateIdempotent ==
    [][\A p \in Procs :
         LET pl == Head(pending).pl
             n  == IF pl.name # None THEN pl.name ELSE Derived[pl.host]
         IN  /\ Exec(p, {"create"})
             /\ pl.host \in DOMAIN mem[p]
             /\ mem[p][pl.host].name = n
             /\ vm[n] # Absent
             => /\ res'[p] = Reply(vm[n])
                /\ \A k \in DOMAIN calls' : calls'[k][1] # "launch"]_vars

\* handleResize runs the in-guest filesystem grow only on a disk the same
\* resize has just set: every "grow" it issues comes after a "set_disk" of
\* that instance.  The handler decides the two from different helpers
\* (formatSize for the setting, parseSizeGB for the grow), so this holds
\* only while toString formats non-empty every JSON value toInt accepts.
GrowAfterDiskSet ==
    \A k \in DOMAIN calls :
        calls[k][1] = "grow" =>
            \E j \in 1..(k - 1) : calls[j] = <<"set_disk", calls[k][2]>>

\* spec.md 8 and 4.3: start / stop / status / resize of a host with no
\* matching live instance answer "not_found", never an error, and delete,
\* which tolerates already-absent instances, does not answer an error for
\* one either.  handle* resolve the name through State, which may not know
\* the host: a host never created, or one whose delete is redelivered
\* after its ack was lost (the first run untracked it).
UntrackedIsNotFound ==
    [][\A p \in Procs :
         /\ Exec(p, {"start", "stop", "status", "resize", "delete"})
         /\ Head(pending).pl.host # None
         /\ Head(pending).pl.name = None
         /\ vm[Derived[Head(pending).pl.host]] = Absent
         => IF Head(pending).pl.action = "delete"
            THEN res'[p] # Error
            ELSE res'[p] = Reply("not_found")]_vars

\* spec.md glossary and 3: the host id <-> instance name relationship is
\* one-to-one; no two hosts of State share an instance (handleCreate adopts
\* any existing instance of the requested name).
NoSharedInstance ==
    \A p \in Procs : \A h, g \in DOMAIN mem[p] :
        h # g => mem[p][h].name # mem[p][g].name

=============================================================================
