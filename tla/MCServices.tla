------------------------------ MODULE MCServices ------------------------------
(***************************************************************************)
(* Services.tla for TLC: the components share nothing but the clock, so it *)
(* looks at the behaviours of one of them at a time.  service is chosen    *)
(* initially and the others stay as they began.                            *)
(***************************************************************************)
EXTENDS Services, TLC

CONSTANTS d1, d2, o1, o2, u1, c1, c2, s1, v1, v2, on, off, upperOff, b1, b2

VARIABLE service  \* the component that takes steps

vars == <<service, servicesVars>>

MCOrgOf == d1 :> o1
MCDeployments == {<<>>, <<"proxy">>, <<"gateway", "proxy">>}
MCHeaders == {<<>>, <<c2>>, <<c1, c2>>}
MCFold == on :> on @@ off :> off @@ upperOff :> off
MCPolicies ==
  {[key |-> p[1], field |-> "bitlocker", expected |-> on, enabled |-> p[2], automatic |-> p[3]] :
     p \in {<<"disk", TRUE, TRUE>>, <<"disk", FALSE, TRUE>>, <<"disk audit", TRUE, FALSE>>}}

Init ==
  /\ ServicesInit
  /\ service \in {"jobs", "enrollment", "monitor", "limiter", "compliance", "folder",
                  "package", "access"}
  /\ service # "limiter" => proxies = <<>>
  /\ service # "package" => /\ package = CHOOSE p \in Package : ~ p.approved
                            /\ drive = <<>>
  /\ service # "access" => database

Next ==
  /\ UNCHANGED service
  /\ \/ service = "jobs" /\ JobsStep
     \/ service = "enrollment" /\ EnrollmentStep
     \/ service = "monitor" /\ MonitorStep
     \/ service = "limiter" /\ LimiterStep
     \/ service = "compliance" /\ ComplianceStep
     \/ service = "folder" /\ FolderStep
     \/ service = "package" /\ PackageStep
     \/ service = "access" /\ AccessStep

Spec == Init /\ [][Next]_vars
=============================================================================
