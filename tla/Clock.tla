------------------------------- MODULE Clock -------------------------------
(***************************************************************************)
(* The millisecond clock: a 32-bit counter that wraps, modelled modulo an  *)
(* even ClockMod, with the code's signed-difference comparisons.  (The     *)
(* `unsigned long' values of the runtime are taken as 32 bits wide, as on  *)
(* the ILP32 microcontrollers the library targets.)                        *)
(***************************************************************************)
EXTENDS Integers

CONSTANT ClockMod    \* 2^32 in the code: the range of the millisecond clock

ASSUME ClockAssumption == ClockMod \in Nat \ {0} /\ ClockMod % 2 = 0

Time == 0 .. ClockMod - 1
Half == ClockMod \div 2

Later(t, n) == (t + n) % ClockMod          \* t + n on the wrapping clock
Elapsed(t, now) == (now - t) % ClockMod    \* now - t, unsigned
After(a, b) == (a - b) % ClockMod \in 1 .. Half - 1      \* (int32_t)(a - b) > 0

NoTimer == ClockMod                        \* not a Time: the timer is not armed
Reached(t, now) == t # NoTimer /\ ~After(t, now)
=============================================================================
