---------------------------- MODULE MCEventBroker ----------------------------
(* An instance of the event broker for TLC: the consumers c1 and c2 are two  *)
(* incarnations of one process, c3 is another process.                       *)
EXTENDS EventBroker, TLC

CONSTANTS c1, c2, c3, logistics, hud

ThreeConsumers == {c1, c2, c3}
ThreeNames == c1 :> logistics @@ c2 :> logistics @@ c3 :> hud
=============================================================================
