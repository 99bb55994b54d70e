----------------------------- MODULE MCDemoApp -----------------------------
(* The demo with its own embedder, which never raises, and with one that may. *)
EXTENDS DemoApp

MCFaults == {FALSE, TRUE}
=============================================================================
