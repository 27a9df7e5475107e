--------------------------- MODULE MCDeactivation ---------------------------
\* Persons as model values; the run needs no symmetry.
EXTENDS Deactivation, TLC

CONSTANTS pa, pb

=============================================================================
