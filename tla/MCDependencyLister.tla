------------------------- MODULE MCDependencyLister -------------------------
EXTENDS DependencyLister

CONSTANTS a, b, n, m
=============================================================================
