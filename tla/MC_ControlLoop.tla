--------------------------- MODULE MC_ControlLoop ---------------------------
(***************************************************************************)
(* Instantiation of ControlLoop for TLC.  poll_interval_seconds as the    *)
(* pairing may return it: negative, missing (0), below, at and above the  *)
(* default, plus the defaults-only configuration.                         *)
(***************************************************************************)
EXTENDS ControlLoop

MCIntervals == {-1, 0, 2, 10, 30}
=============================================================================
