---------------------------- MODULE MCLifecycle ----------------------------
EXTENDS Lifecycle, TLC

CONSTANTS c1, c2, c3, p1, p2, h1, h2, h3

=============================================================================
