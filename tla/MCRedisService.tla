-------------------------- MODULE MCRedisService --------------------------
(* A small instance of RedisService for TLC.                               *)
EXTENDS RedisService, TLC

CONSTANTS boot, lazy, probe, down

\* The start of the application, a lazy reconnection, a probe, and the stop.
OneOfEach == {boot, lazy, probe, down}
Calls == (boot :> "start") @@ (lazy :> "ensure") @@ (probe :> "require")
         @@ (down :> "stop")
=============================================================================
