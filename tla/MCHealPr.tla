---------------------------- MODULE MCHealPr -----------------------------
EXTENDS HealPr, MCRules
==========================================================================
