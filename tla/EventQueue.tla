----------------------------- MODULE EventQueue -----------------------------
(***************************************************************************)
(* What the event buffers of the keyboard and the mouse promise: a FIFO of *)
(* at most Capacity events.  An event that arrives when it is full is      *)
(* dropped; every other event is returned once, unchanged, in the order of *)
(* arrival.  Nothing here knows about slots, head or tail.                 *)
(***************************************************************************)
EXTENDS Naturals, Sequences

CONSTANTS
  Events,    \* what a driver can push
  Capacity,  \* how many of them the buffer holds
  NO_EVENT   \* no event

VARIABLES
  queue,     \* the events accepted and not yet taken
  inflight,  \* the event a pop has taken and not yet returned, or NO_EVENT
  got        \* the event the last pop returned, or NO_EVENT

qvars == <<queue, inflight, got>>

QueueInit ==
  /\ queue = <<>>
  /\ inflight = NO_EVENT
  /\ got = NO_EVENT

Accept(e) ==
  /\ Len(queue) < Capacity
  /\ queue' = Append(queue, e)
  /\ UNCHANGED <<inflight, got>>

Take ==
  /\ inflight = NO_EVENT
  /\ queue # <<>>
  /\ inflight' = Head(queue)
  /\ queue' = Tail(queue)
  /\ UNCHANGED got

Return ==
  /\ inflight # NO_EVENT
  /\ got' = inflight
  /\ inflight' = NO_EVENT
  /\ UNCHANGED queue

QueueNext == (\E e \in Events : Accept(e)) \/ Take \/ Return

QueueSpec == QueueInit /\ [][QueueNext]_qvars
=============================================================================
