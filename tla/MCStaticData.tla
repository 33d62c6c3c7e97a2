---------------------------- MODULE MCStaticData ----------------------------
\* The static data of a device that may be configured for two sets of stops.
EXTENDS StaticData

CONSTANTS s1, s2

=============================================================================
