---------------------------- MODULE MCPowerCycle ----------------------------
EXTENDS PowerCycle
=============================================================================
