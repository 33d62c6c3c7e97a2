------------------------------ MODULE MCAgent ------------------------------
\* The agent on a small device: v1 is deployed and works with every config.
EXTENDS Agent

CONSTANTS v1, v2, c1, c2

MCDeployed == <<v1, c1>>

\* v2 works with c2 only, and may come up for a moment with c1.
V2WithC2 == {p \in Versions \X Configs : p[1] = v1 \/ p[2] = c2}
V2FlapsC1 == {<<v2, c1>>}

\* v2 works with no config.
V1Only == {p \in Versions \X Configs : p[1] = v1}
NoPairs == {}

=============================================================================
