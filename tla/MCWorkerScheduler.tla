------------------------- MODULE MCWorkerScheduler --------------------------
(* Model values, kinds and symmetry for checking WorkerScheduler with TLC.    *)
EXTENDS WorkerScheduler, TLC

CONSTANTS r1, r2, r3, r4

MCRequests3 == {r1, r2, r3}
MCRequests4 == {r1, r2, r3, r4}

\* For safety: translatorPrepare differs from mutation in the ready flag only.
MCSafetyKinds == Kinds \ {"translatorPrepare"}

\* For liveness: everything that waits for something else than its own body.
MCSettlesKinds == {"lookup", "translatorPrepare", "refresh", "purge", "status"}

\* Enough for suspension to meet an opening it does not know of.
MCSuspension == {"status", "suspend", "resume", "lookup"}

MCSymmetry == Permutations(Request)
=============================================================================
