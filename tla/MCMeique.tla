------------------------------ MODULE MCMeique ------------------------------
EXTENDS Meique
=============================================================================
