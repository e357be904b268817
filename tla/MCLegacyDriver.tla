---------------------------- MODULE MCLegacyDriver ----------------------------
\* LegacyDriver with two requests, and driver names around the two limits.
EXTENDS LegacyDriver

CONSTANTS r1, r2

TwoRequests == {r1, r2}
=============================================================================
