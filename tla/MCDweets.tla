----------------------------- MODULE MCDweets -----------------------------
EXTENDS Dweets
=============================================================================
