------------------------------- MODULE MCCosa -------------------------------
(* Small instances of the build wrapper for TLC. *)
EXTENDS CosaProperties

BuildHost == [linux |-> TRUE, kvm |-> TRUE, cosa |-> TRUE]
NoKvm == [linux |-> TRUE, kvm |-> FALSE, cosa |-> TRUE]
AnyHost == {BuildHost, NoKvm}

Workstation == [header |-> TRUE, arch |-> "x86_64", formats |-> <<"ostree", "iso">>,
                repos |-> {"iso"}, manifest |-> "ws.yaml", flavor |-> "flavor.yaml",
                inside |-> TRUE]
Server == [Workstation EXCEPT !.formats = <<"raw">>, !.repos = {}]
Outside == [Workstation EXCEPT !.inside = FALSE]
Invalid == [Workstation EXCEPT !.repos = {"raw"}]

Build(target, w, emit, dry) ==
  [cmd |-> "build", target |-> target, workdir |-> w, emit |-> emit, dry |-> dry]
Validate(target) == [cmd |-> "validate", target |-> target]

(* Two processes in one work directory, one of them also in another; one   *)
(* provenance file for all.                                                *)
Shared == [b \in {"b1", "b2"} |->
  CASE b = "b1" -> {Build(Workstation, "w1", {"prov"}, FALSE), Validate(Invalid),
                    Build(Workstation, "w2", {"prov"}, FALSE)}
    [] b = "b2" -> {Build(Server, "w1", {"prov"}, FALSE), Build(Server, "w1", {"prov"}, TRUE),
                    Build(Outside, "w1", {}, TRUE)}]
=============================================================================
