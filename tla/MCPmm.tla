------------------------------- MODULE MCPmm -------------------------------
(* A bitmap of six pages, of which the first two stand for the megabyte    *)
(* that pmm_init's second loop goes over; the machine has five of them.    *)
EXTENDS Pmm
=============================================================================
