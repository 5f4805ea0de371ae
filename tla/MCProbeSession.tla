--------------------------- MODULE MCProbeSession ---------------------------
(* Small instances of ProbeSession for TLC.                                 *)
EXTENDS ProbeSession, TLC

CONSTANTS m, s1, s2, t1, c1, c2

(* Two groups: group 1 is driven by interrupts and its deregistration does not
   wait, group 2 stands for the utrace family, whose handlers run in task
   context, here below those of group 1, and already in STAP_SESSION_STARTING.
   The control timer competes with Main for the context of c1.              *)
MCSlots   == {s1, s2}
MCActors  == {m, s1, s2, t1}
MCGroupOf == (s1 :> 1) @@ (s2 :> 2)
MCCpuOf   == (m :> c1) @@ (s1 :> c2) @@ (s2 :> c2) @@ (t1 :> c1)
MCLevelOf == (m :> 0) @@ (s1 :> 2) @@ (s2 :> 0) @@ (t1 :> 1)

(* A second instance, also for liveness: group 1 stands for the families armed
   on the fly and fires on the cpu that Main does not run on; group 2 has no
   handler and may fail to register.                                        *)
MCSlots1   == {s1}
MCActors1  == {m, s1}
MCGroupOf1 == s1 :> 1
MCCpuOf1   == (m :> c1) @@ (s1 :> c2)
MCLevelOf1 == (m :> 0) @@ (s1 :> 1)
=============================================================================
