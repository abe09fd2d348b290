------------------------------ MODULE MCHASync ------------------------------
EXTENDS HASync, TLC

CONSTANTS g, a1, a2, a3, b1, b2, b3

\* g - a1 - a2 - a3 with the fork a1 - b2 - b3, two epochs deep.
ForkAtTwo == g :> None @@ a1 :> g @@ a2 :> a1 @@ a3 :> a2 @@ b2 :> a1 @@ b3 :> b2

\* g - a1 - a2 with the fork g - b1 - b2.
ForkAtOne == g :> None @@ a1 :> g @@ a2 :> a1 @@ b1 :> g @@ b2 :> b1
=============================================================================
