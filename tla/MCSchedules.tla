----------------------------- MODULE MCSchedules -----------------------------
(***************************************************************************)
(* Three elementwise operations: the third, of three elements, reads the   *)
(* first; between them is one of a symbolic extent.  Fusing the first with *)
(* the third moves it over the second.                                     *)
(***************************************************************************)
EXTENDS Schedules

Elementwise(extents, uses, lanes) ==
    [extents |-> extents, reduction |-> FALSE, uses |-> uses, lanes |-> lanes]

MCNodes == <<Elementwise(<<3>>, {}, 2), Elementwise(<<0>>, {}, 1), Elementwise(<<3>>, {1}, 1)>>
MCLaunches == {<<1, 2>>}
MCWorkgroup == <<2, 2>>
=============================================================================
