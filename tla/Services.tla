------------------------------- MODULE Services -------------------------------
(***************************************************************************)
(* The components that keep their state in the memory or the files of one  *)
(* process, with their calls interleaved in any order.  They share nothing *)
(* but the clock of the host.  apps/api/app/main.py starts the limiter and *)
(* the access checks; the others wait for handlers of theirs or stand in   *)
(* for the database in tests.                                              *)
(***************************************************************************)
EXTENDS MemoryJobs, MemoryEnrollment, SoftwareMonitor, RateLimiter, Compliance,
        ApprovedFolder, PackageDownload, Access

jobsOnly == <<store, order>>
enrollmentOnly == <<tokenOf, deviceOf, enrolling, beating>>
limiterOnly == <<proxies, window, answered>>
complianceOnly == <<evaluation, attempts, asked>>

servicesVars == <<clock, jobsOnly, enrollmentOnly, monitorVars, limiterOnly, complianceOnly,
                  folderVars, packageVars, accessVars>>

-----------------------------------------------------------------------------

ServicesInit ==
  /\ ClockInit
  /\ MemoryJobsInit
  /\ MemoryEnrollmentInit
  /\ MonitorInit
  /\ LimiterInit
  /\ ComplianceInit
  /\ FolderInit
  /\ PackageInit
  /\ AccessInit

\* A step of one component leaves the state of the others alone.
JobsStep ==
  /\ MemoryJobsNext
  /\ UNCHANGED <<enrollmentOnly, monitorVars, limiterOnly, complianceOnly, folderVars,
                 packageVars, accessVars>>

EnrollmentStep ==
  /\ MemoryEnrollmentNext
  /\ UNCHANGED <<jobsOnly, monitorVars, limiterOnly, complianceOnly, folderVars,
                 packageVars, accessVars>>

MonitorStep ==
  /\ MonitorNext
  /\ UNCHANGED <<jobsOnly, enrollmentOnly, limiterOnly, complianceOnly, folderVars,
                 packageVars, accessVars>>

LimiterStep ==
  /\ LimiterNext
  /\ UNCHANGED <<jobsOnly, enrollmentOnly, monitorVars, complianceOnly, folderVars,
                 packageVars, accessVars>>

ComplianceStep ==
  /\ ComplianceNext
  /\ UNCHANGED <<jobsOnly, enrollmentOnly, monitorVars, limiterOnly, folderVars,
                 packageVars, accessVars>>

FolderStep ==
  /\ FolderNext
  /\ UNCHANGED <<jobsOnly, enrollmentOnly, monitorVars, limiterOnly, complianceOnly,
                 packageVars, accessVars>>

PackageStep ==
  /\ PackageNext
  /\ UNCHANGED <<jobsOnly, enrollmentOnly, monitorVars, limiterOnly, complianceOnly,
                 folderVars, accessVars>>

AccessStep ==
  /\ AccessNext
  /\ UNCHANGED <<jobsOnly, enrollmentOnly, monitorVars, limiterOnly, complianceOnly,
                 folderVars, packageVars>>

ServicesNext ==
  \/ JobsStep
  \/ EnrollmentStep
  \/ MonitorStep
  \/ LimiterStep
  \/ ComplianceStep
  \/ FolderStep
  \/ PackageStep
  \/ AccessStep

ServicesSpec == ServicesInit /\ [][ServicesNext]_servicesVars

-----------------------------------------------------------------------------

\* The state of every component keeps its type, whatever the others do.
ServicesTypeOK ==
  /\ clock \in Nat
  /\ MemoryJobsTypeOK /\ MemoryEnrollmentTypeOK /\ MonitorTypeOK /\ LimiterTypeOK
  /\ ComplianceTypeOK /\ FolderTypeOK /\ PackageTypeOK /\ AccessTypeOK
=============================================================================
