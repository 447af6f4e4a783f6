---------------------------- MODULE MCWindowsAgent ----------------------------
(* Values of WindowsAgent's constants for TLC. *)
EXTENDS WindowsAgent, TLC

CONSTANTS a1, a2, tk1, tk2, sn1, sn2, blank

MCTokenOf == a1 :> tk1 @@ a2 :> tk2

\* The machines report serial numbers of their own ...
MCSerialOf == a1 :> sn1 @@ a2 :> sn2

\* ... or were installed by install-windows-agent.ps1: SerialNumber = "".
MCBlankSerials == a1 :> blank @@ a2 :> blank

MCTokenOfOne == a1 :> tk1
MCSerialOfOne == a1 :> sn1
=============================================================================
