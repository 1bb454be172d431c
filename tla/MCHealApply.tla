--------------------------- MODULE MCHealApply ---------------------------
EXTENDS HealApply, MCRules
==========================================================================
