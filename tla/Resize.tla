------------------------------ MODULE Resize ------------------------------
(***************************************************************************)
(* handleResize of main.go, from the point where the instance is known to *)
(* exist and at least one of cpus / memory / disk was requested: the      *)
(* sequence of multipass invocations it issues and what running that      *)
(* sequence can do to the instance.  The sequence stops at the first      *)
(* non-zero exit (every step returns the error); nothing is rolled back.  *)
(***************************************************************************)
EXTENDS Gateway, Sizes

\* The resizable settings, in the order handleResize applies them.
SettingOrder == <<"cpus", "memory", "disk">>
Settings == {"cpus", "memory", "disk"}
SetVerb(k) == "set_" \o k

(***************************************************************************)
(* The invocations handleResize issues when all of them succeed.          *)
(* wasRunning is info.State lower-cased = "running"; req is the set of    *)
(* settings whose formatted value is non-empty; grow is diskGB > 0 (see  *)
(* ResizeRequest).                                                        *)
(***************************************************************************)
\* The payload fields handleResize reads.  payload[k] of a key the JSON
\* object does not have is nil.
SizeFields == {"cpus", "mem_gb", "memory_gb", "memory", "disk_gb", "disk"}
IsSizeMap(sz) ==
    DOMAIN sz \subseteq SizeFields /\ \A k \in DOMAIN sz : sz[k] \in SizeValue
Field(sz, k) == IF k \in DOMAIN sz THEN sz[k] ELSE Nil

\* handleResize's coercions: the settings whose value formats non-empty,
\* and the size in GB the in-guest grow is asked for (0: no grow).
ResizeRequest(sz) ==
    LET F(k) == Field(sz, k)
        val == [cpus   |-> ToNumberString(F("cpus")),
                memory |-> FormatSize(F("mem_gb"), F("memory_gb"), F("memory")),
                disk   |-> FormatSize(F("disk_gb"), F("disk"), Nil)]
    IN  [req |-> {k \in Settings : val[k] # EmptyStr},
         diskGB |-> ParseSizeGB(F("disk_gb"), F("disk"))]

\* Mutant: the instance is stopped after the grow even if it was running.
ResizeCalls_StopAfterGrow(wasRunning, req, grow) ==
    LET chosen == SelectSeq(SettingOrder, LAMBDA k : k \in req)
    IN  (IF wasRunning THEN <<"stop">> ELSE <<>>)
        \o [i \in 1..Len(chosen) |-> SetVerb(chosen[i])]
        \o (IF wasRunning \/ grow THEN <<"start">> ELSE <<>>)
        \o (IF grow THEN <<"grow", "stop">> ELSE <<>>)

ResizeCalls(wasRunning, req, grow) ==
    LET started == wasRunning \/ grow
        chosen  == SelectSeq(SettingOrder, LAMBDA k : k \in req)
    IN  (IF wasRunning THEN <<"stop">> ELSE <<>>)
        \o [i \in 1..Len(chosen) |-> SetVerb(chosen[i])]
        \o (IF started THEN <<"start">> ELSE <<>>)
        \o (IF grow /\ started THEN <<"grow">> ELSE <<>>)
        \o (IF ~wasRunning /\ started THEN <<"stop">> ELSE <<>>)

(***************************************************************************)
(* Run a sequence of invocations on instance n of table t, stopping at    *)
(* the first failure: the set of outcomes [ok, vm, issued], where issued  *)
(* is the prefix of calls actually invoked.                               *)
(***************************************************************************)
RECURSIVE RunCalls(_, _, _)
RunCalls(t, n, calls) ==
    IF calls = <<>>
    THEN {[ok |-> TRUE, vm |-> t, issued |-> <<>>]}
    ELSE UNION {
           IF o.ok
           THEN {[r EXCEPT !.issued = <<Head(calls)>> \o @] :
                   r \in RunCalls(o.vm, n, Tail(calls))}
           ELSE {[ok |-> FALSE, vm |-> o.vm, issued |-> <<Head(calls)>>]}
         : o \in RunMultipass(t, n, Head(calls))}

ResizeOutcomes(t, n, wasRunning, req, grow) ==
    RunCalls(t, n, ResizeCalls(wasRunning, req, grow))

=============================================================================
