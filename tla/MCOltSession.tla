---------------------------- MODULE MCOltSession ----------------------------
(* Model constants for OltSession: one PON, the Enable and reboot bounds   *)
(* that let a reconnect and a reboot both happen, two statistics samples.  *)
EXTENDS OltSession

MCPons == {1}
====
