--------------------------- MODULE MCTokenRefresh ---------------------------
\* Two tasks that send requests to the broker.
EXTENDS TokenRefresh

CONSTANTS c1, c2
=============================================================================
