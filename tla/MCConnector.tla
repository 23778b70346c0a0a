----------------------------- MODULE MCConnector -----------------------------
(***************************************************************************)
(* Two processes: the second one starts when the first one has ended or    *)
(* stands connected, with a fault; or any time, without.                   *)
(***************************************************************************)
EXTENDS Connector

AllIds == 1 .. NumProcs * Attempts
Plan(first, second, together, maxFaults) ==
    [cmd |-> <<first, second>>, together |-> together, maxFaults |-> maxFaults]
SomePlans ==
    {Plan("nowait", "connect", FALSE, 1), Plan("generate", "disconnect", FALSE, 1),
     Plan("nowait", "nowait", TRUE, 0)}
=============================================================================
