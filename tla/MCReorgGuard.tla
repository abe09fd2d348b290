---------------------------- MODULE MCReorgGuard ----------------------------
EXTENDS ReorgGuard, TLC

CONSTANTS g, a1, a2, b1, b2

\* g - a1 - a2 with the fork g - b1 - b2.
Fork == g :> None @@ a1 :> g @@ a2 :> a1 @@ b1 :> g @@ b2 :> b1
=============================================================================
