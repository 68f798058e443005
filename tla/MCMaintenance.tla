---------------------------- MODULE MCMaintenance ----------------------------
EXTENDS Maintenance

CONSTANTS ada, bea, repair, b1
=============================================================================
