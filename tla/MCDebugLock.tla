---------------------------- MODULE MCDebugLock ----------------------------
(* Instances of DebugLock.tla for TLC. *)
EXTENDS DebugLock, TLC

CONSTANTS good, bad, gen

(* gen has a ReplaceSelf provider; its function binds nothing, or good.    *)
NoInner == gen :> None
InnerGood == gen :> good
=============================================================================
