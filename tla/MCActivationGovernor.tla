------------------------ MODULE MCActivationGovernor ------------------------
EXTENDS ActivationGovernor
=============================================================================
