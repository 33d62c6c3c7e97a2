----------------------------- MODULE MCUpdater -----------------------------
\* The updater on a small device: v1 works with both configs, v2 with none,
\* v3 only with c2; c3 breaks every release.
EXTENDS Updater

CONSTANTS v1, v2, v3, c1, c2, c3

MCWorks == {<<v1, c1>>, <<v1, c2>>, <<v3, c2>>}
\* v3 may come up for a moment with c1.
V3FlapsC1 == {<<v3, c1>>}
MCDeployed == <<v1, c1>>

=============================================================================
