-------------------------- MODULE MCRemoteServers -------------------------
EXTENDS RemoteServers
=============================================================================
