---------------------------- MODULE MCMqttClient ----------------------------
(***************************************************************************)
(* The instance of MqttClient for TLC; its bounds are in MqttClient.cfg.   *)
(***************************************************************************)
EXTENDS MqttClient
=============================================================================
