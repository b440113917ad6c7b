---------------------------- MODULE MCRateLimiter ----------------------------
EXTENDS RateLimiter, TLC

CONSTANTS p1, p2

\* requests overlap within one process and with another
MCSlots == (p1 :> {1, 2}) @@ (p2 :> {1})

==============================================================================
