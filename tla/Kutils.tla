------------------------------- MODULE Kutils -------------------------------
(***************************************************************************)
(* The alignment helpers of src/src/kutils.h.  The code passes a shift; a  *)
(* unit here is the power of two 1 << shift.  Sizes and addresses stay     *)
(* below the word limit, so no sum wraps.                                  *)
(***************************************************************************)
EXTENDS Integers

\* The largest multiple of unit that is at most x.
align_floor(x, unit) == x - (x % unit)

\* The smallest multiple of unit that is at least x.
align_ceil(x, unit) ==
  IF x % unit = 0 THEN x ELSE align_floor(x + unit, unit)
=============================================================================
