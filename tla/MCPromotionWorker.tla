-------------------------- MODULE MCPromotionWorker --------------------------
\* A small instance of PromotionWorker; Worker.cfg gives the constants.  There is
\* no symmetry set, which would not be sound for the liveness properties.
EXTENDS PromotionWorker

=============================================================================
