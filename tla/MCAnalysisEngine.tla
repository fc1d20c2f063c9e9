-------------------------- MODULE MCAnalysisEngine --------------------------
(* Two analysis threads; the last request outranks the earlier ones.        *)
EXTENDS AnalysisEngine

CONSTANTS t1, t2

MCThreads == {t1, t2}
MCPriority == [r \in Requests |-> IF r = MaxRequests THEN 1 ELSE 0]
MCReporting == {1}
SomeLimited == Requests \ {1}
=============================================================================
