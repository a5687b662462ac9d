------------------------------ MODULE MCTruth ------------------------------
(* Small instances of the truth plane for TLC. *)
EXTENDS TruthProperties

OnePlane == {"system.sealed"}

Sealed == "system.sealed"

(* A surface that lacks the approval it needs. *)
Waiting == SurfaceArgs(Sealed, {Named("demo")}, {}, {}, {}, 30, TRUE, FALSE, {}, FALSE)

CompareOut == DeltaArgs(SurfacePath(Sealed, 0), SurfacePath(Sealed, 1),
                        {Named("demo")}, {1}, {"delta"}, FALSE)

Freeze == IncidentArgs("incident.freeze", {Named("freeze")}, {}, {}, FALSE)

(* A tick with the evidence it requires. *)
Timer == TickArgs(Sealed, {}, {}, {"policy_decision"})

(* The documented smoke run, with --deterministic. *)
Smoke == SmokeArgs(<<{Named("ts0")}, {Named("ts1")}, {Named("ds")}>>, <<{0}, {1}, {1}>>)

(* The timer and an operator, who emits, compares and reports. *)
Crowd == [p \in {"op1", "timer"} |->
  CASE p = "timer" -> {Timer}
    [] p = "op1" -> {Waiting, CompareOut, Freeze, Smoke}]

CrowdRuns == [p \in {"op1", "timer"} |-> IF p = "timer" THEN 2 ELSE 1]

TimerOnly == [p \in {"timer"} |-> {Timer}]

TimerRuns == [p \in {"timer"} |-> 2]
=============================================================================
