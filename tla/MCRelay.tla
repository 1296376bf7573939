------------------------------ MODULE MCRelay ------------------------------
(***************************************************************************)
(* Small instances of Relay.                                               *)
(***************************************************************************)
EXTENDS Relay

\* A running job with model calls, or faults in a session without.
MCLimits == { [beats |-> 1, calls |-> 1, faults |-> 0], [beats |-> 0, calls |-> 0, faults |-> 1] }
=============================================================================
