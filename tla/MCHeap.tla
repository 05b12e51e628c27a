------------------------------- MODULE MCHeap -------------------------------
(* The heap under the window manager and other callers.  WRAP = 128 stands *)
(* for 2^32; an area of 128 is one whose product w * h * 4 is 0 in 32 bits.*)
EXTENDS WindowManager

const_Requests == {1, 13, 48}
const_Arrays   == {<<2, 6>>, <<0, 4>>}
const_Areas    == {12, 128}
=============================================================================
