------------------------ MODULE MCSGWaitConditionUse -------------------------
(* SGWaitConditionUse on a small instance.                                 *)
EXTENDS SGWaitConditionUse

CONSTANTS w1, w2, s1, s2

MCWaiters == {w1, w2}
MCSignallers == {s1, s2}
MCThreads == MCWaiters \cup MCSignallers
=============================================================================
