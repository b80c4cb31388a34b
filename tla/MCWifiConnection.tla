------------------------- MODULE MCWifiConnection -------------------------
EXTENDS WifiConnection
=============================================================================
