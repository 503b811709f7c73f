---------------------------- MODULE MCSandboxHost ----------------------------
EXTENDS SandboxHost

CONSTANTS p, q

Infinity == 2000000000
Hard(t, f, n, v, proc) == [t |-> t, f |-> f, n |-> n, v |-> v, proc |-> proc]
Roomy == Hard(Infinity, Infinity, Infinity, Infinity, Infinity)
MCHosts ==
  {[hard |-> Roomy, flags |-> Limits, busy |-> 20],
   [hard |-> Hard(100, 1000, 512, 1048576, 2000), flags |-> Limits, busy |-> 1500],
   [hard |-> Hard(Infinity, Infinity, 128, Infinity, Infinity), flags |-> Limits, busy |-> 20],
   [hard |-> Roomy, flags |-> Limits \ {"v"}, busy |-> 20]}

Asking(timeoutMs, longLived, maxProcesses, memoryMb, network, loopback, filter) ==
  [timeoutMs |-> timeoutMs, longLived |-> longLived, maxProcesses |-> maxProcesses,
   memoryMb |-> memoryMb, network |-> network, loopback |-> loopback, filter |-> filter]
MCRequests ==
  {Asking(0, FALSE, 0, 0, TRUE, FALSE, FALSE), Asking(1, FALSE, 1, 512, FALSE, FALSE, TRUE),
   Asking(1001, FALSE, 5, 512, FALSE, TRUE, FALSE), Asking(700000, FALSE, 1, 2048, TRUE, FALSE, FALSE),
   Asking(2000000000, FALSE, 1, 1500000, TRUE, TRUE, FALSE), Asking(0, TRUE, 1, 512, FALSE, FALSE, TRUE)}

\* q lies beneath p.
MCAbove == [x \in {p, q} |-> {p, x}]
MCRulesets == {[readOnly |-> r, readWrite |-> w] : r \in SUBSET {p, q}, w \in {{}, {p}, {q}}}

\* Landlock is looked at on its own, the rest on kernels without.
Focus ==
  IF abi = 0 THEN kind = [x \in Places |-> "missing"]
  ELSE works = {} /\ ~ binding /\ host.busy = 20 /\ host.hard = Roomy /\ host.flags = Limits
       /\ mode = "off" /\ faults = 0 /\ op \in {"idle", "harden"} /\ adapter = "none"
=============================================================================
