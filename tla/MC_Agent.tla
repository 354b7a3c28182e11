------------------------------ MODULE MC_Agent ------------------------------
(***************************************************************************)
(* Instantiation of Agent for TLC: two hosts whose derived names are the  *)
(* two instance names, and the payload sets the runs choose from.         *)
(***************************************************************************)
EXTENDS Agent

CONSTANTS h1, h2, n1, n2, p1, p2


MCDerived == (h1 :> n1) @@ (h2 :> n2)

\* Size fields of the payloads: none; a cpu count (JSON 2); 2 cpus and
\* disk_gb 30 (a grow); memory "4G" and disk "20GiB" (a disk setting toInt
\* cannot read: no grow).
MCBodies ==
    [b \in {"none", "cpus", "grow", "nogrow"} |->
        CASE b = "cpus" -> ("cpus" :> Num(20))
          [] b = "grow" -> ("cpus" :> Num(20)) @@ ("disk_gb" :> Num(300))
          [] b = "nogrow" -> ("memory" :> Str(40, "G")) @@ ("disk" :> Str(200, "GiB"))
          [] OTHER -> <<>>]

P(a, h, n) == [action |-> a, host |-> h, name |-> n, init |-> FALSE,
               size |-> "none"]

\* The control plane addresses instances by host id, as it does for hosts
\* it created; create may carry cloud-init; resize carries one of the
\* size bodies of MCBodies.
HostPayloads ==
    {P(a, h, None) : a \in {"create", "start", "stop", "delete", "status"},
                     h \in {h1, h2}}
    \cup {[P("create", h1, None) EXCEPT !.init = TRUE]}
    \cup {[P("resize", h1, None) EXCEPT !.size = b] :
            b \in {"cpus", "grow", "nogrow"}}
    \cup {P("unknown", h1, None)}

\* Payloads naming an instance explicitly, including another host's.
NamedPayloads ==
    {P("create", h1, None), P("create", h2, n1), P("status", h2, n1),
     P("delete", h2, None), P("start", h1, None)}

\* Payloads addressing a host that may not be tracked yet.
UntrackedPayloads ==
    {P("start", h1, None), P("create", h1, None), P("delete", h1, None)}
=============================================================================
