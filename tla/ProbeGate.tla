----------------------------- MODULE ProbeGate ------------------------------
(***************************************************************************)
(* What a circuit breaker promises to the service behind it.  While the     *)
(* gate admits, calls are unlimited.  Once it has tripped it passes nothing *)
(* until Rest ticks have gone by without a failure; then it passes at most  *)
(* MaxProbes calls, and either recovers or rests again.  The text of        *)
(* ARCHITECTURE.md section 4.1 is this gate with MaxProbes = 1.             *)
(***************************************************************************)
EXTENDS Naturals

CONSTANTS
  MaxProbes,   \* the calls passed by one probing period
  Rest         \* ticks without a failure before a probing period

VARIABLES
  mode,        \* "admitting", "resting" or "probing"
  probes,      \* calls passed in the current probing period
  rested       \* ticks since the last failure, saturating at Rest

vars == <<mode, probes, rested>>

Init ==
  /\ mode = "admitting"
  /\ probes = 0
  /\ rested = Rest

\* Enough failures while admitting, or a failed probing period.
Trip ==
  /\ mode \in {"admitting", "probing"}
  /\ mode' = "resting"
  /\ probes' = 0
  /\ rested' = 0

\* A failure that does not trip the gate still restarts the rest.
Setback ==
  /\ mode \in {"admitting", "resting"}
  /\ rested' = 0
  /\ UNCHANGED <<mode, probes>>

FirstProbe ==
  /\ mode = "resting"
  /\ rested = Rest
  /\ mode' = "probing"
  /\ probes' = 1
  /\ UNCHANGED rested

NextProbe ==
  /\ mode = "probing"
  /\ probes < MaxProbes
  /\ probes' = probes + 1
  /\ UNCHANGED <<mode, rested>>

\* A probing period that succeeds, or an operator's reset.
Recover ==
  /\ mode' = "admitting"
  /\ probes' = 0
  /\ UNCHANGED rested

Pass ==
  /\ rested < Rest
  /\ rested' = rested + 1
  /\ UNCHANGED <<mode, probes>>

Next == Trip \/ Setback \/ FirstProbe \/ NextProbe \/ Recover \/ Pass

Spec == Init /\ [][Next]_vars
=============================================================================
