--------------------------- MODULE MCAgentRouter ----------------------------
\* Daemon a asks b to do t1, and b asks a to do t2.
EXTENDS AgentRouter

CONSTANTS a, b, t1, t2, r1

ProposerDef == (t1 :> a) @@ (t2 :> b)
ExecutorDef == (t1 :> b) @@ (t2 :> a)
=============================================================================
