----------------------------- MODULE MCDocPipeline -----------------------------
(* A small instance of DocPipeline: the process and the system monitor.     *)
EXTENDS DocPipeline

CONSTANTS proc, sys

TwoMonitors == {proc, sys}

=============================================================================
