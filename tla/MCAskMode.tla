------------------------------ MODULE MCAskMode ------------------------------
(* AskMode for TLC: one or two sessions of a project, and their monitors. *)
EXTENDS AskMode, TLC

CONSTANTS s1, s2, m1, m2, h1

OneSession == {s1}
TwoSessions == {s1, s2}
OneMonitor == {m1}
TwoMonitors == {m1, m2}
NoMonitor == {}
EveryKey == Action \X BOOLEAN
NoKey == {}
OneHost == {h1}
NoneMortal == {}
MonitorMortal == {m1}
OneEach == s1 :> 1 @@ s2 :> 1
TwoAlone == s1 :> 2
OneAlone == s1 :> 1
RedialBoth == s1 :> 2 @@ m1 :> 1 @@ m2 :> 1
DialOnceEach == s1 :> 1 @@ m1 :> 1
SessionsDial == s1 :> 1 @@ s2 :> 1
=============================================================================
