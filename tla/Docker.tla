------------------------------- MODULE Docker -------------------------------
(***************************************************************************)
(* The Docker engine as runclave uses it, for one box name.  Every run of  *)
(* `runclave .` in a directory with the same base name works on the same   *)
(* three objects: the internal network, the egress gateway container and   *)
(* the box container (box.BuildPlan derives their names from the box       *)
(* name).  The engine is external: what a command does is taken from how   *)
(* internal/box uses it and what its comments say of it (DestroySteps:     *)
(* "network rm fails with has active endpoints").                          *)
(*                                                                         *)
(* Each object remembers which run created it, because "is it still there" *)
(* and "is it mine" are different questions once two runs share the name.  *)
(***************************************************************************)

CONSTANTS Runs,    \* the invocations of `runclave .` that share the name
          Nobody   \* the owner of an object that does not exist

ASSUME NobodyIsNoRun == Nobody \notin Runs

Owner == Runs \cup {Nobody}

\* `linked` is the gateway's second leg, `docker network connect bridge gw`.
DockerState == [net : Owner, gw : Owner, linked : BOOLEAN, box : Owner]

Empty == [net |-> Nobody, gw |-> Nobody, linked |-> FALSE, box |-> Nobody]

Whole(r) == [net |-> r, gw |-> r, linked |-> TRUE, box |-> r]

Creating == {"createNet", "runGateway", "connectGateway", "runBox"}
InBox    == {"seedBox", "execAgent"}
Removing == {"rmBox", "rmGateway", "rmNet"}
Command  == Creating \cup InBox \cup Removing

\* What the engine requires before it carries the command out.  `rm -f` of a
\* container asks for nothing.
Accepts(cmd, d) ==
  /\ cmd = "createNet"      => d.net = Nobody
  /\ cmd = "runGateway"     => d.net # Nobody /\ d.gw = Nobody
  /\ cmd = "connectGateway" => d.gw # Nobody /\ ~d.linked
  /\ cmd = "runBox"         => d.net # Nobody /\ d.box = Nobody
  /\ cmd \in InBox           => d.box # Nobody
  /\ cmd = "rmNet"          => d.net # Nobody /\ d.gw = Nobody /\ d.box = Nobody

\* What the command does to the three objects when run r issues it.
Effect(cmd, r, d) ==
  CASE cmd = "createNet"      -> [d EXCEPT !.net = r]
    [] cmd = "runGateway"     -> [d EXCEPT !.gw = r, !.linked = FALSE]
    [] cmd = "connectGateway" -> [d EXCEPT !.linked = TRUE]
    [] cmd = "runBox"         -> [d EXCEPT !.box = r]
    [] cmd \in InBox           -> d
    [] cmd = "rmBox"          -> [d EXCEPT !.box = Nobody]
    [] cmd = "rmGateway"      -> [d EXCEPT !.gw = Nobody, !.linked = FALSE]
    [] cmd = "rmNet"          -> [d EXCEPT !.net = Nobody]

\* The three ways a command can end.  A refused command changes nothing; a
\* faulty one (daemon error, client killed, image missing) reports an error
\* and may or may not have taken effect.
Succeeds(cmd, r, d, e) == Accepts(cmd, d) /\ e = Effect(cmd, r, d)
Refused(cmd, d, e)     == ~Accepts(cmd, d) /\ e = d
Faults(cmd, r, d, e)   == Accepts(cmd, d) /\ e \in {d, Effect(cmd, r, d)}
=============================================================================
