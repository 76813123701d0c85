--------------------------- MODULE MCWorkerRuntime ---------------------------
(* Instances of WorkerRuntime for TLC.                                      *)
EXTENDS WorkerRuntime, TLC

CONSTANTS good, unhandled, unknown, malformed, badtenant, w1

AllKinds == (good :> "good") @@ (unhandled :> "unhandled") @@ (unknown :> "unknown")
            @@ (malformed :> "malformed") @@ (badtenant :> "badtenant")
AllEvents == {good, unhandled, unknown, malformed, badtenant}
=============================================================================
