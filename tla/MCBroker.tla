------------------------------ MODULE MCBroker ------------------------------
(***************************************************************************)
(* One request the broker tries to lock, and one that it proves after the  *)
(* lock of another prover has expired.  The clock has three phases: a lock *)
(* holds, the lock has expired, the request has expired.                   *)
(***************************************************************************)
EXTENDS Broker

CONSTANTS a, b, r1, r2

MCRequestOf == [o \in Order |-> IF o = a THEN r1 ELSE r2]
MCLockExpiresAt == [q \in Request |-> 0]
MCExpiresAt == [q \in Request |-> 1]

=============================================================================
