---------------------------- MODULE MCMqttClient ----------------------------
(* Small instances of MqttClient for TLC.                                  *)
EXTENDS MqttClient, TLC

\* Nothing but the roles of the callers tells members of these sets apart.
Symmetry == Permutations(Topics) \cup Permutations(Handlers)
            \cup Permutations(Clients) \cup Permutations(Runs)
=============================================================================
