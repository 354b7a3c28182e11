------------------------------ MODULE MC_Daemon ------------------------------
(***************************************************************************)
(* Instantiation of Daemon for TLC: four pids, two `run --daemon`, two    *)
(* `stop`, one `pair` and one `pair --replace` invocation in any order.   *)
(***************************************************************************)
EXTENDS Daemon, TLC

CONSTANTS c1, c2, c3, c4, c5, c6

MCKind == (c1 :> "start") @@ (c2 :> "start") @@ (c3 :> "stop")
          @@ (c4 :> "stop") @@ (c5 :> "pair") @@ (c6 :> "repair")
=============================================================================
