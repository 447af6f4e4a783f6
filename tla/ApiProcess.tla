------------------------------ MODULE ApiProcess ------------------------------
(***************************************************************************)
(* What the components that keep their state in the memory or the files of *)
(* one API process have in common: the clock they read, and Nil, which     *)
(* stands for Python's None.                                               *)
(***************************************************************************)
EXTENDS Naturals

CONSTANTS
  Horizon,  \* bound on the clock
  Nil       \* None

ASSUME HorizonAssumption == Horizon \in Nat /\ Nil \notin Nat

VARIABLE clock  \* the clock of the host: datetime.now(UTC), time.monotonic()

ClockInit == clock = 0

Advance == clock < Horizon /\ clock' = clock + 1
=============================================================================
