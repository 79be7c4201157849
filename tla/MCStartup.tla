------------------------------- MODULE MCStartup ------------------------------
(***************************************************************************)
(* Instance for TLC: one sound manifest of each kind and the ways to spoil  *)
(* one, ambient blocks with repeated and hidden names, and every argument   *)
(* of at most three characters.                                             *)
(***************************************************************************)
EXTENDS Startup

Provenance ==
  [digest |-> TRUE, registry |-> "https", metadata |-> "https", artifact |-> "https"]

Constraint(package, requirement) == [package |-> package, requirement |-> requirement]

Sound ==
  [contract |-> TRUE, text |-> "valid", app_type |-> "single",
   runtime |-> [layout |-> TRUE, version |-> "none", source |-> "explicit", provenance |-> {}],
   launcher |-> [contract |-> TRUE, network_token_enforced |-> TRUE, token_in_url |-> FALSE],
   dependencies |-> [installed |-> TRUE, constraints_verified |-> TRUE,
                     packages |-> <<"shiny">>,
                     constraints |-> <<Constraint("shiny", "at_least")>>]]

Registered ==
  [Sound EXCEPT !.app_type = "split",
                !.dependencies.constraints =
                  <<Constraint("shiny", "at_least"), Constraint("shiny", "below")>>,
                !.runtime = [@ EXCEPT !.version = "valid", !.source = "registry",
                                      !.provenance = {Provenance}]]

MCManifests ==
  {Sound, Registered,
   [Sound EXCEPT !.contract = FALSE],
   [Sound EXCEPT !.text = "malformed"],
   [Sound EXCEPT !.app_type = "other"],
   [Sound EXCEPT !.runtime.version = "malformed"],
   [Sound EXCEPT !.runtime.source = "registry"],
   [Sound EXCEPT !.runtime.provenance = {Provenance}],
   [Registered EXCEPT !.runtime.version = "none"],
   [Registered EXCEPT !.runtime.provenance = {[Provenance EXCEPT !.artifact = "file"]}],
   [Registered EXCEPT !.runtime.provenance = {[Provenance EXCEPT !.metadata = "bad_https"]}],
   [Sound EXCEPT !.launcher.token_in_url = TRUE],
   [Sound EXCEPT !.dependencies.packages = <<"shiny", "shiny">>],
   [Sound EXCEPT !.dependencies.packages = <<"shiny", "no name">>],
   [Sound EXCEPT !.dependencies.constraints = <<Constraint("no name", "below")>>],
   [Sound EXCEPT !.dependencies.constraints = <<Constraint("shiny", "malformed")>>],
   [Sound EXCEPT !.dependencies.constraints = @ \o @],
   [Registered EXCEPT !.dependencies.constraints = Append(@, Constraint("shiny", "malformed"))]}

MCWords == <<"OTHER", "PATH", "RPACKIT_LAUNCH_PROTOCOL", "R_HOME", "R_LIBS", "R_PROFILE">>

MCAmbientBlocks ==
  {<<>>,
   <<Variable("OTHER", "upper", <<"o1">>), Variable("PATH", "mixed", <<"p1">>),
     Variable("R_HOME", "mixed", <<"r1">>), Variable("OTHER", "mixed", <<"o2">>),
     Variable("R_PROFILE", "upper", <<"r2">>), Variable("R_LIBS", "mixed", <<"r3">>)>>,
   <<Variable(DriveName, "upper", <<"c">>), Variable("PATH", "upper", <<"p1">>)>>}

MCProgram == <<"a", "bs", "a", "sp", "a">>

Strings(n) == UNION {[1..k -> Char \ {Nul}] : k \in 0..n}

MCArgumentLists ==
  {<<s>> : s \in Strings(3)} \cup {<<s, t>> : s \in Strings(1), t \in Strings(1)}
    \cup {<<<<"a", Nul>>>>, <<[i \in 1..30 |-> "sp"]>>}

===============================================================================
