--------------------------- MODULE MCMqttClient ---------------------------
EXTENDS MqttClient
=============================================================================
