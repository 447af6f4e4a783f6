---------------------------- MODULE AuditChainProofs ----------------------------
(***************************************************************************)
(* Proofs of AuditChain's invariants for every number of sessions,         *)
(* organizations and events, lock keys that collide included.              *)
(***************************************************************************)
EXTENDS AuditChain, TLAPS

Holding(s) == pc[s] \in {"read", "insert"}

\* An advisory lock has one holder.
LockInv ==
  \A s, r \in Sessions :
    Holding(s) /\ Holding(r) /\ LockKey[entry[s].org] = LockKey[entry[r].org] => s = r

\* The ids of events being appended are new and all different.
IdInv ==
  \A s \in Sessions :
    Active(s) => /\ id[s] \in Events
                 /\ id[s] \notin rows
                 /\ \A r \in Sessions : Active(r) /\ id[r] = id[s] => r = s

\* What a session has read is still so when it inserts: an event of its
\* organization, or Genesis and there is none.
ReadInv ==
  \A s \in Sessions :
    pc[s] = "insert" =>
      IF entry[s].prev = Genesis THEN OfOrganization(entry[s].org) = {}
                                 ELSE entry[s].prev \in OfOrganization(entry[s].org)

IInv ==
  /\ TypeOK
  /\ LockInv
  /\ IdInv
  /\ ReadInv
  /\ OneGenesis
  /\ ChainedWithinOrganization
  /\ ChainLeadsToGenesis

LEMMA NoEntryType == NoEntry \in Entry
BY ConstantsAssumption DEF NoEntry, Entry

LEMMA InitInv == Init => IInv
BY NoEntryType
   DEF Init, IInv, TypeOK, LockInv, IdInv, ReadInv, OneGenesis,
       ChainedWithinOrganization, ChainLeadsToGenesis, Holding, Active

LEMMA StampStep ==
  ASSUME IInv, NEW s \in Sessions, NEW o \in Orgs, NEW e \in Events, Stamp(s, o, e)
  PROVE  IInv'
<1>1. [org |-> o, at |-> now, prev |-> Genesis] \in Entry
  BY DEF IInv, TypeOK, Entry
<1>2. TypeOK'
  BY <1>1 DEF Stamp, Goto, IInv, TypeOK
<1>3. \A r \in Sessions : Holding(r)' => r # s /\ Holding(r) /\ entry'[r] = entry[r]
  BY DEF Stamp, Goto, IInv, TypeOK, Holding
<1>4. LockInv'
  BY <1>3 DEF IInv, LockInv
<1>5. IdInv'
  BY DEF Stamp, Goto, IInv, TypeOK, IdInv, Active
<1>6. \A p \in Orgs : OfOrganization(p)' = OfOrganization(p)
  BY DEF Stamp, OfOrganization
<1>7. ReadInv'
  BY <1>3, <1>6 DEF Stamp, Goto, IInv, TypeOK, ReadInv, Entry, Holding
<1>8. OneGenesis' /\ ChainedWithinOrganization' /\ ChainLeadsToGenesis'
  BY DEF Stamp, IInv, OneGenesis, ChainedWithinOrganization, ChainLeadsToGenesis,
         OfOrganization
<1> QED
  BY <1>2, <1>4, <1>5, <1>7, <1>8 DEF IInv

LEMMA LockStep ==
  ASSUME IInv, NEW s \in Sessions, Lock(s)
  PROVE  IInv'
<1>1. TypeOK'
  BY DEF Lock, Goto, IInv, TypeOK
<1>2. LockInv'
  BY DEF Lock, LockFree, Goto, IInv, TypeOK, LockInv, Holding
<1>3. IdInv'
  BY DEF Lock, Goto, IInv, TypeOK, IdInv, Active
<1>4. ReadInv'
  BY DEF Lock, Goto, IInv, TypeOK, ReadInv, OfOrganization
<1>5. OneGenesis' /\ ChainedWithinOrganization' /\ ChainLeadsToGenesis'
  BY DEF Lock, IInv, OneGenesis, ChainedWithinOrganization, ChainLeadsToGenesis,
         OfOrganization
<1> QED
  BY <1>1, <1>2, <1>3, <1>4, <1>5 DEF IInv

LEMMA ReadStep ==
  ASSUME IInv, NEW s \in Sessions, Read(s)
  PROVE  IInv'
<1>1. PICK p \in Newest(entry[s].org) : entry' = [entry EXCEPT ![s].prev = p]
  BY DEF Read
<1>2. /\ p = Genesis => OfOrganization(entry[s].org) = {}
      /\ p # Genesis => p \in OfOrganization(entry[s].org)
      /\ p \in Events \cup {Genesis}
  BY ConstantsAssumption DEF IInv, TypeOK, Newest, OfOrganization
<1>3. entry[s] \in Entry /\ pc[s] = "read"
  BY DEF Read, IInv, TypeOK
<1>4. /\ entry'[s] \in Entry
      /\ entry'[s].org = entry[s].org
      /\ entry'[s].prev = p
  BY <1>1, <1>2, <1>3 DEF IInv, TypeOK, Entry
<1>5. \A r \in Sessions : entry'[r].org = entry[r].org
  BY <1>1, <1>4 DEF IInv, TypeOK
<1>6. TypeOK'
  BY <1>1, <1>4 DEF Read, Goto, IInv, TypeOK
<1>7. LockInv'
  BY <1>3, <1>5 DEF Read, Goto, IInv, TypeOK, LockInv, Holding
<1>8. IdInv'
  BY <1>3 DEF Read, Goto, IInv, TypeOK, IdInv, Active
<1>9. ReadInv'
  <2> SUFFICES ASSUME NEW r \in Sessions, pc'[r] = "insert"
               PROVE  IF entry'[r].prev = Genesis
                      THEN \A f \in rows : log[f].org # entry[r].org
                      ELSE /\ entry'[r].prev \in rows
                           /\ log[entry'[r].prev].org = entry[r].org
    BY <1>5 DEF Read, ReadInv, OfOrganization
  <2>1. CASE r = s
    BY <1>2, <1>4, <2>1 DEF OfOrganization
  <2>2. CASE r # s
    BY <1>1, <2>2 DEF Read, Goto, IInv, TypeOK, ReadInv, OfOrganization
  <2> QED
    BY <2>1, <2>2
<1>10. OneGenesis' /\ ChainedWithinOrganization' /\ ChainLeadsToGenesis'
  BY DEF Read, IInv, OneGenesis, ChainedWithinOrganization, ChainLeadsToGenesis,
         OfOrganization
<1> QED
  BY <1>6, <1>7, <1>8, <1>9, <1>10 DEF IInv

\* The session forgets its event: what others hold and what is committed stays.
LEMMA RollBackStep ==
  ASSUME IInv, NEW s \in Sessions, RollBack(s)
  PROVE  IInv'
<1>1. TypeOK'
  BY NoEntryType DEF RollBack, Goto, IInv, TypeOK
<1>2. \A r \in Sessions :
        Active(r)' => r # s /\ pc'[r] = pc[r] /\ entry'[r] = entry[r] /\ id'[r] = id[r]
  BY DEF RollBack, Goto, IInv, TypeOK, Active
<1>3. LockInv'
  BY <1>2 DEF IInv, LockInv, Holding, Active
<1>4. IdInv'
  BY <1>2 DEF RollBack, IInv, IdInv, Active
<1>5. ReadInv'
  BY <1>2 DEF RollBack, IInv, ReadInv, OfOrganization, Active
<1>6. OneGenesis' /\ ChainedWithinOrganization' /\ ChainLeadsToGenesis'
  BY DEF RollBack, IInv, OneGenesis, ChainedWithinOrganization, ChainLeadsToGenesis,
         OfOrganization
<1> QED
  BY <1>1, <1>3, <1>4, <1>5, <1>6 DEF IInv

LEMMA CommitStep ==
  ASSUME IInv, NEW s \in Sessions, Commit(s)
  PROVE  IInv'
<1> DEFINE e == id[s]
           o == entry[s].org
<1>1. /\ e \in Events /\ e \notin rows
      /\ entry[s] \in Entry /\ o \in Orgs
      /\ rows' = rows \cup {e}
      /\ log'[e] = entry[s]
      /\ \A f \in rows : log'[f] = log[f]
  BY DEF Commit, IInv, TypeOK, IdInv, Active, Entry
<1>2. \A r \in Sessions : entry[r].org \in Orgs
  BY DEF IInv, TypeOK, Entry
<1>3. \A r \in Sessions :
        Active(r)' => r # s /\ pc'[r] = pc[r] /\ entry'[r] = entry[r] /\ id'[r] = id[r]
  BY DEF Commit, Goto, IInv, TypeOK, Active
<1>4. TypeOK'
  BY <1>1, NoEntryType DEF Commit, Goto, IInv, TypeOK
<1>5. LockInv'
  BY <1>3 DEF IInv, LockInv, Holding, Active
<1>6. IdInv'
  BY <1>1, <1>3 DEF Commit, IInv, IdInv, Active
<1>7. ReadInv'
  <2> SUFFICES ASSUME NEW r \in Sessions, pc'[r] = "insert"
               PROVE  IF entry'[r].prev = Genesis
                      THEN \A f \in rows' : log'[f].org # entry[r].org
                      ELSE /\ entry'[r].prev \in rows'
                           /\ log'[entry'[r].prev].org = entry[r].org
    BY <1>3 DEF ReadInv, OfOrganization, Active
  <2>1. r # s /\ pc[r] = "insert" /\ entry'[r] = entry[r]
    BY <1>3 DEF Active
  <2>2. entry[r].org # o
    BY <1>2, <2>1 DEF Commit, IInv, LockInv, Holding
  <2> QED
    BY <1>1, <2>1, <2>2 DEF IInv, ReadInv, OfOrganization
<1>8. IF entry[s].prev = Genesis THEN OfOrganization(o) = {}
                                 ELSE entry[s].prev \in OfOrganization(o)
  BY DEF Commit, IInv, ReadInv
<1>9. OneGenesis'
  BY <1>1, <1>8 DEF IInv, OneGenesis, OfOrganization
<1>10. ChainedWithinOrganization'
  <2> SUFFICES ASSUME NEW f \in rows'
               PROVE  \/ log'[f].prev = Genesis
                      \/ /\ log'[f].prev \in rows'
                         /\ log'[log'[f].prev].org = log'[f].org
    BY DEF ChainedWithinOrganization, OfOrganization
  <2>1. CASE f = e
    BY <1>1, <1>8, <2>1 DEF OfOrganization
  <2>2. CASE f \in rows
    BY <1>1, <2>2 DEF IInv, ChainedWithinOrganization, OfOrganization
  <2> QED
    BY <1>1, <2>1, <2>2
<1>11. ChainLeadsToGenesis'
  <2> SUFFICES ASSUME NEW S \in SUBSET rows', S # {}
               PROVE  \E f \in S : log'[f].prev \notin S
    BY DEF ChainLeadsToGenesis
  <2>1. entry[s].prev # e
    BY <1>1, <1>8, ConstantsAssumption DEF OfOrganization
  <2>2. CASE S \ {e} = {}
    BY <1>1, <2>1, <2>2
  <2>3. CASE S \ {e} # {}
    <3>1. PICK f \in S \ {e} : log[f].prev \notin S \ {e}
      BY <1>1, <2>3 DEF IInv, ChainLeadsToGenesis
    <3>2. f \in rows /\ log'[f] = log[f]
      BY <1>1, <3>1
    <3>3. log[f].prev # e
      BY <1>1, <3>2, ConstantsAssumption DEF IInv, ChainedWithinOrganization, OfOrganization
    <3> QED
      BY <3>1, <3>2, <3>3
  <2> QED
    BY <2>2, <2>3
<1> QED
  BY <1>4, <1>5, <1>6, <1>7, <1>9, <1>10, <1>11 DEF IInv

LEMMA NextInv == IInv /\ [Next]_vars => IInv'
<1> SUFFICES ASSUME IInv, [Next]_vars PROVE IInv'
  OBVIOUS
<1>1. ASSUME NEW s \in Sessions, NEW o \in Orgs, NEW e \in Events, Stamp(s, o, e)
      PROVE  IInv'
  BY <1>1, StampStep
<1>2. ASSUME NEW s \in Sessions, Lock(s) \/ Read(s) \/ Commit(s) \/ RollBack(s)
      PROVE  IInv'
  BY <1>2, LockStep, ReadStep, CommitStep, RollBackStep
<1>3. CASE Tick
  BY <1>3 DEF Tick, IInv, TypeOK, LockInv, IdInv, ReadInv, OneGenesis, Holding, Active,
              ChainedWithinOrganization, ChainLeadsToGenesis, OfOrganization
<1>4. CASE UNCHANGED vars
  BY <1>4 DEF vars, IInv, TypeOK, LockInv, IdInv, ReadInv, OneGenesis, Holding, Active,
              ChainedWithinOrganization, ChainLeadsToGenesis, OfOrganization
<1> QED
  BY <1>1, <1>2, <1>3, <1>4 DEF Next

LEMMA InvariantHolds == Spec => []IInv
BY InitInv, NextInv, PTL DEF Spec

\* The columns of the trail and of the events being appended keep their types.
THEOREM TypeCorrect == Spec => []TypeOK
<1>1. IInv => TypeOK
  BY DEF IInv
<1> QED
  BY <1>1, InvariantHolds, PTL

\* However many writers race to append an organization's first event, one chain
\* is started.
THEOREM OneChainPerOrganization == Spec => []OneGenesis
<1>1. IInv => OneGenesis
  BY DEF IInv
<1> QED
  BY <1>1, InvariantHolds, PTL

\* No event is chained to another organization's or to one that was rolled back.
THEOREM ChainsStayApart == Spec => []ChainedWithinOrganization
<1>1. IInv => ChainedWithinOrganization
  BY DEF IInv
<1> QED
  BY <1>1, InvariantHolds, PTL

\* Following previous_hash from any event ends at Genesis, forks or not.
THEOREM EveryEventIsAnchored == Spec => []ChainLeadsToGenesis
<1>1. IInv => ChainLeadsToGenesis
  BY DEF IInv
<1> QED
  BY <1>1, InvariantHolds, PTL
=============================================================================
