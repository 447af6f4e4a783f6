-------------------------- MODULE DeviceRegistryProofs --------------------------
(***************************************************************************)
(* Proofs about DeviceRegistry for every set of tokens, device ids, serial *)
(* numbers and hashes: its types, the one-to-one relation of tokens and    *)
(* devices, the uniqueness of serial numbers, the finality of a revocation *)
(* and the permanence of inventory.                                        *)
(***************************************************************************)
EXTENDS DeviceRegistry, TLAPS

\* Only Enroll enrolls devices and only it consumes tokens, so the other steps
\* keep what OneDevicePerToken and SerialsUnique relate.
SameEnrollments ==
  /\ \A tk \in Tokens : tokens'[tk].usedBy = tokens[tk].usedBy
  /\ \A d \in DeviceIds : /\ devices'[d].enrolled = devices[d].enrolled
                          /\ devices'[d].serial = devices[d].serial

IInv == TypeOK /\ OneDevicePerToken /\ SerialsUnique

-----------------------------------------------------------------------------

LEMMA InitTypeOK == Init => TypeOK
BY ConstantsAssumption DEF Init, TypeOK, Token, Device, NoDevice, Snapshot

LEMMA NextTypeOK == TypeOK /\ [Next]_vars => TypeOK'
<1> SUFFICES ASSUME TypeOK, [Next]_vars PROVE TypeOK'
    OBVIOUS
<1> USE ConstantsAssumption DEF TypeOK
<1>1. ASSUME NEW tk \in Tokens, NEW ttl \in TTLs, IssueToken(tk, ttl) PROVE TypeOK'
    <2>1. now + ttl \in Nat
        OBVIOUS
    <2>2. tokens' \in [Tokens -> Token]
        BY <1>1, <2>1 DEF IssueToken, Token
    <2> QED BY <1>1, <2>2 DEF IssueToken
<1>2. ASSUME NEW tk \in Tokens, NEW serial \in Serials \cup {None}, NEW t \in 0 .. now,
             NEW d \in DeviceIds, Enroll(tk, serial, t, d)
      PROVE TypeOK'
    <2>1. NewDevice(serial, t) \in Device
        BY DEF NewDevice, Device
    <2>2. devices' \in [DeviceIds -> Device]
        BY <1>2, <2>1 DEF Enroll
    <2>3. tokens' \in [Tokens -> Token]
        BY <1>2 DEF Enroll, Token
    <2> QED BY <1>2, <2>2, <2>3 DEF Enroll
<1>3. ASSUME NEW d \in DeviceIds, NEW observed \in 0 .. now + Skew, Heartbeat(d, observed)
      PROVE TypeOK'
    <2>1. observed \in Nat
        OBVIOUS
    <2>2. devices' \in [DeviceIds -> Device]
        BY <1>3, <2>1 DEF Heartbeat, Device
    <2> QED BY <1>3, <2>2 DEF Heartbeat
<1>4. ASSUME NEW d \in DeviceIds, NEW hash \in Hashes, NEW t \in 0 .. now,
             Submit(d, hash, t)
      PROVE TypeOK'
    <2>1. snapshots' \subseteq Snapshot
        BY <1>4 DEF Submit, Of, Snapshot
    <2> QED BY <1>4, <2>1 DEF Submit
<1>5. ASSUME NEW d \in DeviceIds, Revoke(d) PROVE TypeOK'
    <2>1. devices' \in [DeviceIds -> Device]
        BY <1>5 DEF Revoke, Device
    <2> QED BY <1>5, <2>1 DEF Revoke
<1>6. CASE Tick
    BY <1>6 DEF Tick
<1>7. CASE UNCHANGED vars
    BY <1>7 DEF vars
<1> QED BY <1>1, <1>2, <1>3, <1>4, <1>5, <1>6, <1>7 DEF Next

\* Types are right in every reachable state.
THEOREM TypeCorrect == Spec => []TypeOK
<1> QED BY InitTypeOK, NextTypeOK, PTL DEF Spec

-----------------------------------------------------------------------------

LEMMA SameEnrollmentsSuffice ==
  ASSUME OneDevicePerToken, SerialsUnique, SameEnrollments
  PROVE  OneDevicePerToken' /\ SerialsUnique'
BY DEF OneDevicePerToken, SerialsUnique, SameEnrollments

LEMMA OthersKeepEnrollments ==
  ASSUME TypeOK, [Next]_vars,
         ~ \E tk \in Tokens, serial \in Serials \cup {None}, t \in 0 .. now,
              d \in DeviceIds : Enroll(tk, serial, t, d)
  PROVE  SameEnrollments
<1> USE DEF SameEnrollments
<1>1. ASSUME NEW tk \in Tokens, NEW ttl \in TTLs, IssueToken(tk, ttl)
      PROVE SameEnrollments
    BY <1>1 DEF IssueToken, TypeOK, Token
<1>2. ASSUME NEW d \in DeviceIds, NEW observed \in 0 .. now + Skew, Heartbeat(d, observed)
      PROVE SameEnrollments
    BY <1>2 DEF Heartbeat, TypeOK, Device
<1>3. ASSUME NEW d \in DeviceIds, Revoke(d) PROVE SameEnrollments
    BY <1>3 DEF Revoke, TypeOK, Device
<1>4. ASSUME NEW d \in DeviceIds, NEW hash \in Hashes, NEW t \in 0 .. now,
             Submit(d, hash, t)
      PROVE SameEnrollments
    BY <1>4 DEF Submit
<1>5. CASE Tick
    BY <1>5 DEF Tick
<1>6. CASE UNCHANGED vars
    BY <1>6 DEF vars
<1> QED BY <1>1, <1>2, <1>3, <1>4, <1>5, <1>6 DEF Next

\* An enrollment uses a token nobody used for a device nobody enrolled.
LEMMA EnrollKeepsOneDevicePerToken ==
  ASSUME TypeOK, OneDevicePerToken,
         NEW tk \in Tokens, NEW serial \in Serials \cup {None}, NEW t \in 0 .. now,
         NEW d \in DeviceIds, Enroll(tk, serial, t, d)
  PROVE  OneDevicePerToken'
<1> USE ConstantsAssumption DEF TypeOK
<1>1. /\ tokens[tk].usedBy = None
      /\ ~ devices[d].enrolled
    BY DEF Enroll, ValidToken
<1>2. \A other \in Tokens : tokens[other].usedBy # d
    BY <1>1 DEF OneDevicePerToken
<1>3. /\ tokens'[tk].usedBy = d
      /\ \A other \in Tokens \ {tk} : tokens'[other] = tokens[other]
    BY DEF Enroll, Token
<1>4. /\ devices'[d].enrolled
      /\ \A e \in DeviceIds \ {d} : devices'[e] = devices[e]
    BY DEF Enroll, NewDevice
<1> SUFFICES ASSUME NEW e \in DeviceIds
             PROVE IF devices'[e].enrolled
                   THEN \E one \in Tokens : \A other \in Tokens :
                          tokens'[other].usedBy = e <=> other = one
                   ELSE \A one \in Tokens : tokens'[one].usedBy # e
    BY DEF OneDevicePerToken
<1>5. CASE e = d
    <2>1. \A other \in Tokens : tokens'[other].usedBy = d <=> other = tk
        BY <1>2, <1>3
    <2> QED BY <1>4, <1>5, <2>1
<1>6. CASE e # d
    <2>1. \A other \in Tokens : tokens'[other].usedBy = e <=> tokens[other].usedBy = e
        BY <1>1, <1>3, <1>6
    <2>2. devices'[e] = devices[e]
        BY <1>4, <1>6
    <2>3. IF devices[e].enrolled
          THEN \E one \in Tokens : \A other \in Tokens : tokens[other].usedBy = e <=> other = one
          ELSE \A one \in Tokens : tokens[one].usedBy # e
        BY DEF OneDevicePerToken
    <2> QED BY <2>1, <2>2, <2>3
<1> QED BY <1>5, <1>6

LEMMA EnrollKeepsSerialsUnique ==
  ASSUME TypeOK, SerialsUnique,
         NEW tk \in Tokens, NEW serial \in Serials \cup {None}, NEW t \in 0 .. now,
         NEW d \in DeviceIds, Enroll(tk, serial, t, d)
  PROVE  SerialsUnique'
<1>1. ~ SerialTaken(serial)
    BY DEF Enroll
<1>2. /\ devices'[d].enrolled
      /\ devices'[d].serial = serial
      /\ \A e \in DeviceIds \ {d} : devices'[e] = devices[e]
    BY DEF Enroll, NewDevice, TypeOK
<1> SUFFICES ASSUME NEW e \in DeviceIds, NEW f \in DeviceIds,
                    devices'[e].enrolled, devices'[f].enrolled,
                    devices'[e].serial = devices'[f].serial, devices'[e].serial # None
             PROVE e = f
    BY DEF SerialsUnique
<1>3. CASE e # d /\ f # d
    BY <1>2, <1>3 DEF SerialsUnique
<1>4. CASE e = d \/ f = d
    BY <1>1, <1>2, <1>4 DEF SerialTaken
<1> QED BY <1>3, <1>4

LEMMA InvariantHolds == Spec => []IInv
<1>1. Init => IInv
    <2> SUFFICES ASSUME Init PROVE OneDevicePerToken /\ SerialsUnique
        BY InitTypeOK DEF IInv
    <2>1. \A d \in DeviceIds : ~ devices[d].enrolled
        BY DEF Init, NoDevice
    <2>2. \A tk \in Tokens : tokens[tk].usedBy = None
        BY DEF Init
    <2> QED BY <2>1, <2>2, ConstantsAssumption DEF OneDevicePerToken, SerialsUnique
<1>2. IInv /\ [Next]_vars => IInv'
    <2> SUFFICES ASSUME IInv, [Next]_vars PROVE OneDevicePerToken' /\ SerialsUnique'
        BY NextTypeOK DEF IInv
    <2> USE DEF IInv
    <2>1. ASSUME NEW tk \in Tokens, NEW serial \in Serials \cup {None}, NEW t \in 0 .. now,
                 NEW d \in DeviceIds, Enroll(tk, serial, t, d)
          PROVE OneDevicePerToken' /\ SerialsUnique'
        BY <2>1, EnrollKeepsOneDevicePerToken, EnrollKeepsSerialsUnique
    <2>2. CASE ~ \E tk \in Tokens, serial \in Serials \cup {None}, t \in 0 .. now,
                    d \in DeviceIds : Enroll(tk, serial, t, d)
        BY <2>2, OthersKeepEnrollments, SameEnrollmentsSuffice
    <2> QED BY <2>1, <2>2
<1> QED BY <1>1, <1>2, PTL DEF Spec

\* Every enrolled device was paid for by exactly one token and no token names a
\* device that does not exist.
THEOREM TokensBuyOneDevice == Spec => []OneDevicePerToken
<1>1. IInv => OneDevicePerToken
    BY DEF IInv
<1> QED BY <1>1, InvariantHolds, PTL

\* No two devices have the same serial number.
THEOREM SerialsStayUnique == Spec => []SerialsUnique
<1>1. IInv => SerialsUnique
    BY DEF IInv
<1> QED BY <1>1, InvariantHolds, PTL

-----------------------------------------------------------------------------

\* No step changes the row of a device whose revocation is committed.  That no
\* enrollment does needs TokensBuyOneDevice's companion: a revoked device is
\* enrolled.
RevokedIsEnrolled == \A d \in DeviceIds : devices[d].revoked # None => devices[d].enrolled

LEMMA RevokedStaysEnrolled == Spec => []RevokedIsEnrolled
<1>1. Init => RevokedIsEnrolled
    BY DEF Init, NoDevice, RevokedIsEnrolled
<1>2. TypeOK /\ RevokedIsEnrolled /\ [Next]_vars => RevokedIsEnrolled'
    <2> SUFFICES ASSUME TypeOK, RevokedIsEnrolled, [Next]_vars PROVE RevokedIsEnrolled'
        OBVIOUS
    <2> USE DEF RevokedIsEnrolled, TypeOK, Device
    <2>1. ASSUME NEW tk \in Tokens, NEW serial \in Serials \cup {None}, NEW t \in 0 .. now,
                 NEW d \in DeviceIds, Enroll(tk, serial, t, d)
          PROVE RevokedIsEnrolled'
        BY <2>1 DEF Enroll, NewDevice
    <2>2. ASSUME NEW d \in DeviceIds, NEW observed \in 0 .. now + Skew, Heartbeat(d, observed)
          PROVE RevokedIsEnrolled'
        BY <2>2 DEF Heartbeat
    <2>3. ASSUME NEW d \in DeviceIds, Revoke(d) PROVE RevokedIsEnrolled'
        BY <2>3 DEF Revoke
    <2>4. CASE UNCHANGED devices
        BY <2>4
    <2> QED BY <2>1, <2>2, <2>3, <2>4 DEF Next, vars, IssueToken, Submit, Tick
<1> QED BY <1>1, <1>2, TypeCorrect, PTL DEF Spec

\* A revocation is final: no later step changes the device's row.
THEOREM RevocationStays == Spec => RevocationIsFinal
<1>1. TypeOK /\ RevokedIsEnrolled /\ [Next]_vars
        => [\A d \in DeviceIds : devices[d].revoked # None => devices'[d] = devices[d]]_vars
    <2> SUFFICES ASSUME TypeOK, RevokedIsEnrolled, Next,
                        NEW d \in DeviceIds, devices[d].revoked # None
                 PROVE devices'[d] = devices[d]
        OBVIOUS
    <2> USE DEF TypeOK
    <2>1. devices[d].enrolled
        BY DEF RevokedIsEnrolled
    <2>2. ASSUME NEW tk \in Tokens, NEW serial \in Serials \cup {None}, NEW t \in 0 .. now,
                 NEW e \in DeviceIds, Enroll(tk, serial, t, e)
          PROVE devices'[d] = devices[d]
        BY <2>1, <2>2 DEF Enroll
    <2>3. ASSUME NEW e \in DeviceIds, NEW observed \in 0 .. now + Skew, Heartbeat(e, observed)
          PROVE devices'[d] = devices[d]
        BY <2>3 DEF Heartbeat
    <2>4. ASSUME NEW e \in DeviceIds, Revoke(e) PROVE devices'[d] = devices[d]
        BY <2>4 DEF Revoke
    <2>5. CASE UNCHANGED devices
        BY <2>5
    <2> QED BY <2>2, <2>3, <2>4, <2>5 DEF Next, IssueToken, Submit, Tick
<1> QED BY <1>1, TypeCorrect, RevokedStaysEnrolled, PTL DEF Spec, RevocationIsFinal

\* A device that has a snapshot always has one.
THEOREM InventoryStays == Spec => InventoryIsKept
<1>1. [Next]_vars => [\A d \in DeviceIds : Of(d) # {} => Of(d)' # {}]_vars
    <2> SUFFICES ASSUME Next, NEW d \in DeviceIds, Of(d) # {} PROVE Of(d)' # {}
        OBVIOUS
    <2>1. ASSUME NEW e \in DeviceIds, NEW hash \in Hashes, NEW t \in 0 .. now,
                 Submit(e, hash, t)
          PROVE Of(d)' # {}
        <3>1. CASE e = d
            <4>1. [dev |-> d, hash |-> hash] \in snapshots'
                BY <2>1, <3>1 DEF Submit
            <4> QED BY <4>1 DEF Of
        <3>2. CASE e # d
            <4>1. PICK s \in snapshots : s.dev = d
                BY DEF Of
            <4>2. s \in snapshots'
                BY <2>1, <3>2, <4>1 DEF Submit, Of
            <4> QED BY <4>1, <4>2 DEF Of
        <3> QED BY <3>1, <3>2
    <2>2. CASE UNCHANGED snapshots
        BY <2>2 DEF Of
    <2> QED BY <2>1, <2>2 DEF Next, IssueToken, Enroll, Heartbeat, Revoke, Tick
<1> QED BY <1>1, PTL DEF Spec, InventoryIsKept
=============================================================================
