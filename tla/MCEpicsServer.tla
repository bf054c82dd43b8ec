---------------------------- MODULE MCEpicsServer ----------------------------
(* The command server on small instances: one IOC or two, with nonces that *)
(* start at 1, or at 0 as those of software/tests/protocolTest.c do.       *)
EXTENDS EpicsServer

NoncesFromOne ==
  [c \in Clients |-> [n \in Commands |-> c * CommandCount + n]]
NoncesFromZero ==
  [c \in Clients |-> [n \in Commands |-> c * CommandCount + n - 1]]
=============================================================================
