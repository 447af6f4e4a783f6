---------------------------- MODULE SoftwareMonitor ----------------------------
(***************************************************************************)
(* SoftwareMonitor (apps/api/app/software_monitor.py): scans that compare  *)
(* a snapshot of a device with the previous one and publish notifications, *)
(* running in several threads.  A step is what happens between two points  *)
(* where another thread can interfere.  Changes of one scan are notified   *)
(* in any order.                                                           *)
(***************************************************************************)
EXTENDS ApiProcess

CONSTANTS
  Scanned,   \* devices
  Threads,   \* threads that call scan
  Titles,    \* software keys
  Versions   \* versions

ASSUME ScannedAssumption == Nil \notin Scanned

VARIABLES
  latest,    \* InMemorySoftwareMonitorStore.latest
  scanning,  \* the device each thread holds the lock of, and what it is doing
  notified,  \* _notification_keys, with the channel
  replayed,  \* history: the first snapshot with the reported changes applied
  reported,  \* history: the changes between successive snapshots, with their device
  unsent     \* history: whether a provider failed

monitorVars == <<latest, scanning, notified, replayed, reported, unsent>>

-----------------------------------------------------------------------------

\* What is installed: the version of each title, Nil where it is not.
Software == [Titles -> Versions \cup {Nil}]
Channels == {"dashboard", "email"}

NoScan == [step |-> "idle", device |-> Nil, current |-> Nil, previous |-> Nil, left |-> {}]

ChangeType(old, new) ==
  IF old = Nil THEN "added" ELSE IF new = Nil THEN "removed" ELSE "version_changed"

\* software_changes
Changes(before, after) ==
  {[title |-> s, type |-> ChangeType(before[s], after[s]),
    previous |-> before[s], current |-> after[s]] :
     s \in {s \in Titles : before[s] # after[s]}}

\* The key of a notification: device, title, type and the version it is about.
NotificationKey(d, change) ==
  <<d, change.title, change.type,
    IF change.current # Nil THEN change.current ELSE change.previous>>

MonitorInit ==
  /\ latest = [d \in Scanned |-> Nil]
  /\ scanning = [p \in Threads |-> NoScan]
  /\ notified = {}
  /\ replayed = [d \in Scanned |-> Nil]
  /\ reported = {}
  /\ unsent = FALSE

\* A slip: the locks are created anew and never found held.
NeverLocked(d) == FALSE

DeviceLocked(d) == \E p \in Threads : scanning[p].device = d

\* scan: a thread that finds the lock of its device held returns no changes.
BeginScan(p, d, current) ==
  /\ scanning[p].step = "idle"
  /\ ~ DeviceLocked(d)
  /\ scanning' = [scanning EXCEPT ![p] =
       [NoScan EXCEPT !.step = "read", !.device = d, !.current = current]]
  /\ UNCHANGED <<latest, notified, replayed, reported, unsent, clock>>

ReadPrevious(p) ==
  /\ scanning[p].step = "read"
  /\ scanning' = [scanning EXCEPT ![p].step = "save",
                                  ![p].previous = latest[scanning[p].device]]
  /\ UNCHANGED <<latest, notified, replayed, reported, unsent, clock>>

\* A slip: the first scan reports everything that is installed.
FoundFromNothing(s) ==
  Changes(IF s.previous = Nil THEN [t \in Titles |-> Nil] ELSE s.previous, s.current)

\* The first scan of a device establishes a baseline.
Found(s) == IF s.previous = Nil THEN {} ELSE Changes(s.previous, s.current)

SaveSnapshot(p) ==
  LET s == scanning[p]
      changes == Found(s)
      before == latest[s.device]
      between == IF before = Nil THEN {} ELSE Changes(before, s.current)
  IN /\ s.step = "save"
     /\ latest' = [latest EXCEPT ![s.device] = s.current]
     /\ scanning' = [scanning EXCEPT ![p].step = "notify", ![p].left = changes \X Channels]
     /\ reported' = reported \cup {[device |-> s.device, change |-> c] : c \in between}
     /\ replayed' = [replayed EXCEPT ![s.device] =
          IF @ = Nil THEN s.current
          ELSE [t \in Titles |->
                  IF \E c \in changes : c.title = t
                  THEN (CHOOSE c \in changes : c.title = t).current ELSE @[t]]]
     /\ UNCHANGED <<notified, unsent, clock>>

\* _notify: the dashboard comes before the email; a key that is known is skipped.
Notify(p, change, channel) ==
  LET s == scanning[p]
      key == <<channel, NotificationKey(s.device, change)>>
  IN /\ <<change, channel>> \in s.left
     /\ channel = "email" => <<change, "dashboard">> \notin s.left
     /\ notified' = notified \cup {key}
     /\ \/ /\ scanning' = [scanning EXCEPT ![p].left = @ \ {<<change, channel>>}]
           /\ UNCHANGED unsent
        \* publish raises: the key stays, the rest is dropped, the lock released
        \/ /\ key \notin notified
           /\ scanning' = [scanning EXCEPT ![p] = NoScan]
           /\ unsent' = TRUE
     /\ UNCHANGED <<latest, replayed, reported, clock>>

\* A slip: the lock is not released.
EndScanLocked(p) ==
  /\ scanning[p].step = "notify"
  /\ scanning[p].left = {}
  /\ scanning' = [scanning EXCEPT ![p].step = "idle"]
  /\ UNCHANGED <<latest, notified, replayed, reported, unsent, clock>>

EndScan(p) ==
  /\ scanning[p].step = "notify"
  /\ scanning[p].left = {}
  /\ scanning' = [scanning EXCEPT ![p] = NoScan]
  /\ UNCHANGED <<latest, notified, replayed, reported, unsent, clock>>

MonitorNext ==
  \/ \E p \in Threads, d \in Scanned, current \in Software : BeginScan(p, d, current)
  \/ \E p \in Threads : ReadPrevious(p) \/ SaveSnapshot(p) \/ EndScan(p)
  \/ \E p \in Threads : \E c \in scanning[p].left : Notify(p, c[1], c[2])

MonitorSpec == MonitorInit /\ ClockInit /\ [][MonitorNext]_monitorVars

-----------------------------------------------------------------------------

MonitorTypeOK ==
  /\ latest \in [Scanned -> Software \cup {Nil}]
  /\ \A p \in Threads :
       /\ scanning[p].step \in {"idle", "read", "save", "notify"}
       /\ scanning[p].device = Nil <=> scanning[p].step = "idle"
  /\ unsent \in BOOLEAN

\* No two scans of a device overlap ("per-device non-overlap protection",
\* docs/phase-5-report.md), so the changes reported for a device, applied to its
\* first snapshot, always give its latest one: none is missing or reported twice.
ChangesCompose == \A d \in Scanned : replayed[d] = latest[d]

\* What was notified on a channel are the changes between successive snapshots,
\* never what was installed at the first scan, and none is missing between scans
\* unless a provider failed; after a failure it is not made up for.  A change
\* that happens again has the key it had before and is not notified again.
NotificationsMatchChanges ==
  LET keys(channel) == {k[2] : k \in {n \in notified : n[1] = channel}}
      found == {NotificationKey(r.device, r.change) : r \in reported}
  IN \A channel \in Channels :
       /\ keys(channel) \subseteq found
       /\ unsent \/ found \subseteq keys(channel) \/ \E p \in Threads : scanning[p].left # {}
=============================================================================
