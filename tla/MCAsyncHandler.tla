--------------------------- MODULE MCAsyncHandler ----------------------------
(* Model-checking instances of AsyncHandler.                                *)
EXTENDS AsyncHandler, TLC

CONSTANTS w1, w2, g1, g2, g3, t1, t2

\* Two objects of one watcher (pods, say), one of another (services).
MCStream3 == (g1 :> w1) @@ (g2 :> w1) @@ (g3 :> w2)
MCStream2 == (g1 :> w1) @@ (g2 :> w2)
=============================================================================
