--------------------------- MODULE MCAdministration ---------------------------
EXTENDS Administration, TLC

CONSTANTS c1, c2, m1, ann, bob

=============================================================================
