---------------------------- MODULE MCQronClient ----------------------------
EXTENDS QronClient

CONSTANTS k1, k2, s1, s2, x1, x2

\* Two processes fetch for one executor.
TwoClients == [s \in Sessions |-> IF s = s1 THEN k1 ELSE k2]
\* One process fetches twice.
OneClient  == [s \in Sessions |-> k1]

OneExecutor  == [s \in Sessions |-> x1]
TwoExecutors == [s \in Sessions |-> IF s = s1 THEN x1 ELSE x2]
=============================================================================
