---------------------------- MODULE AddressSpace ----------------------------
(***************************************************************************)
(* What pages and page tables promise kernel code together: frames that    *)
(* are the caller's own, and a map that takes a page to one of them, and   *)
(* two pages to different ones, from the call that enters it to the call   *)
(* that takes it out.  Nothing here knows of a bitmap, of directories and  *)
(* their tables, or of what the processor remembers.                       *)
(***************************************************************************)
CONSTANTS
  Mappable,   \* the virtual pages that callers may use
  NOWHERE     \* where a page leads that is not mapped

VARIABLES
  mine,    \* the frames that callers own
  leads    \* [Mappable -> frames or NOWHERE]: where an access goes

space_vars == <<mine, leads>>

Mapped == {leads[v] : v \in Mappable} \ {NOWHERE}

SpaceInit == mine = {} /\ leads = [v \in Mappable |-> NOWHERE]

(* A frame that was nobody's becomes the caller's.                         *)
Obtain(f) == f \notin mine /\ mine' = mine \cup {f} /\ UNCHANGED leads

(* It goes back, once no access leads there.                               *)
Surrender(f) ==
  /\ f \in mine /\ f \notin Mapped
  /\ mine' = mine \ {f} /\ UNCHANGED leads

(* From now on an access to v goes to f, as no other does; ...             *)
Enter(v, f) ==
  /\ leads[v] = NOWHERE /\ f \in mine /\ f \notin Mapped
  /\ leads' = [leads EXCEPT ![v] = f] /\ UNCHANGED mine

(* ... and from now on to nothing.                                         *)
TakeOut(v) == leads' = [leads EXCEPT ![v] = NOWHERE] /\ UNCHANGED mine

SpaceNext ==
  \/ \E f \in mine' : Obtain(f)
  \/ \E f \in mine : Surrender(f)
  \/ \E v \in Mappable, f \in mine : Enter(v, f)
  \/ \E v \in Mappable : TakeOut(v)

SpaceSpec == SpaceInit /\ [][SpaceNext]_space_vars
=============================================================================
