---------------------------- MODULE MCSignalBus ----------------------------
(* Two signals injected together and a live one; see README.                *)
EXTENDS SignalBus

CONSTANTS rps, cpu, latency

MCInjected == {rps, cpu}
MCLive     == {latency}
MCCadence  == [s \in MCInjected \cup MCLive |-> 2]
=============================================================================
