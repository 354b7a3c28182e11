------------------------------ MODULE Gateway ------------------------------
(***************************************************************************)
(* The Hypervisor Gateway: runMultipass and multipassInfo of main.go, and  *)
(* the part of the external multipass tool they drive.  The module has no *)
(* variables: every operator takes the instance table `vm` (instance name *)
(* -> lifecycle state) as an argument and returns the set of outcomes one *)
(* invocation can have, so that the handlers of the Agent can compose     *)
(* them.  Every invocation returns an exit code; stdout and stderr are    *)
(* abstracted to the outcome record, logging (formatCommand, shellEscape) *)
(* is left out.                                                           *)
(***************************************************************************)
EXTENDS Naturals, Sequences

CONSTANTS
    Names,          \* instance names the model may use
    CallsCanFail,   \* TRUE: any multipass invocation may exit non-zero
    InfoCanFail,    \* TRUE: `multipass info` may fail on an existing instance
    LaunchFailsLate \* TRUE: a launch that exits non-zero may still create it

ASSUME {CallsCanFail, InfoCanFail, LaunchFailsLate} \subseteq BOOLEAN

Absent == "Absent"
\* The lifecycle states multipass reports for an instance that exists.
VmStates == {"Running", "Stopped", "Deleted"}
VmTable == [Names -> VmStates \cup {Absent}]

\* The multipass subcommands the connector issues on one instance
\* ("purge" acts on all of them).  set_<key> is `multipass set
\* local.<name>.<key>=...`, grow is the in-guest `exec ... cocalc-grow-btrfs`.
Verbs == {"launch", "start", "stop", "delete", "purge",
          "set_cpus", "set_memory", "set_disk", "grow"}

Ok(t)   == [ok |-> TRUE,  vm |-> t]
Fail(t) == [ok |-> FALSE, vm |-> t]

(***************************************************************************)
(* The effect of a successful-or-rejected invocation, by multipass's own   *)
(* rules: launch needs a free name and boots the new instance; start and   *)
(* stop refuse a deleted instance; `set` needs a stopped instance; the    *)
(* in-guest exec needs a running one; delete only marks an instance       *)
(* Deleted and purge removes every Deleted instance.                      *)
(***************************************************************************)
Effect(t, n, verb) ==
    CASE verb = "launch" ->
            IF t[n] = Absent THEN Ok([t EXCEPT ![n] = "Running"]) ELSE Fail(t)
      [] verb = "start" ->
            IF t[n] \in {"Running", "Stopped"}
            THEN Ok([t EXCEPT ![n] = "Running"]) ELSE Fail(t)
      [] verb = "stop" ->
            IF t[n] \in {"Running", "Stopped"}
            THEN Ok([t EXCEPT ![n] = "Stopped"]) ELSE Fail(t)
      [] verb = "delete" ->
            IF t[n] \in {"Running", "Stopped"}
            THEN Ok([t EXCEPT ![n] = "Deleted"]) ELSE Fail(t)
      [] verb = "purge" ->
            Ok([m \in Names |-> IF t[m] = "Deleted" THEN Absent ELSE t[m]])
      [] verb \in {"set_cpus", "set_memory", "set_disk"} ->
            IF t[n] = "Stopped" THEN Ok(t) ELSE Fail(t)
      [] verb = "grow" ->
            IF t[n] = "Running" THEN Ok(t) ELSE Fail(t)

(***************************************************************************)
(* runMultipass: the outcomes of one invocation.  Besides the rule-based  *)
(* effect, a transient failure leaves everything unchanged, and a launch  *)
(* that fails (e.g. times out) may still have created the instance.      *)
(***************************************************************************)
RunMultipass(t, n, verb) ==
    {Effect(t, n, verb)}
    \cup (IF CallsCanFail THEN {Fail(t)} ELSE {})
    \cup (IF LaunchFailsLate /\ verb = "launch" /\ t[n] = Absent
          THEN {Fail([t EXCEPT ![n] = "Running"])} ELSE {})

(***************************************************************************)
(* multipassInfo: the normalised {exists, state}.  A non-zero exit, which *)
(* multipass gives for an unknown name, or output that does not parse,    *)
(* both read as "does not exist".  The ipv4 list is abstracted away.      *)
(***************************************************************************)
NotExists == [exists |-> FALSE, state |-> ""]

MultipassInfo(t, n) ==
    IF t[n] = Absent
    THEN {NotExists}
    ELSE {[exists |-> TRUE, state |-> t[n]]}
         \cup (IF InfoCanFail THEN {NotExists} ELSE {})

InfoResults == [exists: BOOLEAN, state: VmStates \cup {""}]

=============================================================================
