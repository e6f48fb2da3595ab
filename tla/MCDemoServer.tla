----------------------------- MODULE MCDemoServer -----------------------------
(***************************************************************************)
(* Small instances of DemoServer.  Each scenario puts a few actors         *)
(* together.                                                               *)
(***************************************************************************)
EXTENDS DemoServer

CONSTANTS c1, c2, c3, s1, s2, s3

Scenario(pool, dashboard, bcast, conns, subs) ==
    [pool |-> pool, dashboard |-> dashboard, bcast |-> bcast, conns |-> conns, subs |-> subs]

(* The broadcaster with a pool, with two connections, with a subscriber    *)
(* and with more subscribers than the table holds; a log ring that wraps   *)
(* around; and the dashboard.                                              *)
SafetyScenarios == {
    Scenario(TRUE, FALSE, TRUE, {c1}, {}),
    Scenario(FALSE, FALSE, TRUE, {c1, c2}, {}),
    Scenario(FALSE, FALSE, TRUE, {c1}, {s1}),
    Scenario(FALSE, FALSE, TRUE, {}, {s1, s2, s3}),
    Scenario(TRUE, FALSE, FALSE, {c1, c2, c3}, {}),
    Scenario(TRUE, TRUE, FALSE, {c1}, {}) }

(* One admin client. *)
SilentScenarios == { Scenario(FALSE, FALSE, FALSE, {}, {s1}) }
=============================================================================
