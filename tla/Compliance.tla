------------------------------- MODULE Compliance -------------------------------
(***************************************************************************)
(* evaluate_compliance and RemediationGuard (apps/api/app/compliance.py):  *)
(* the posture a device reports is compared with the policies, and the     *)
(* guard decides which of the failures a remediation is submitted for.     *)
(* The score of an evaluation, which decides nothing, is left out.         *)
(***************************************************************************)
EXTENDS ApiProcess, Sequences

CONSTANTS
  Assessed,   \* devices
  Policies,   \* versions of the policies: records of Policy
  Fields,     \* the fields of a posture that policies are about
  Values,     \* values of a field, as they are spelt
  Fold,       \* the value without its case, str.casefold
  Cooldown,   \* cooldown of the guard
  MaxAsked    \* bound on the questions to the guard; nothing happens after them

Policy == [key : STRING, field : Fields, expected : Values,
           enabled : BOOLEAN, automatic : BOOLEAN]

ASSUME ComplianceAssumption == Cooldown \in Nat /\ Policies \subseteq Policy

VARIABLES
  evaluation,  \* the last evaluation: its device and results
  attempts,    \* RemediationGuard.attempts: evidence to time, Nil where unknown
  asked        \* history: the answers of the guard, in order

complianceVars == <<evaluation, attempts, asked, clock>>

-----------------------------------------------------------------------------

\* FieldRule.evaluate: the evidence holds the values as they are spelt.
Passes(policy, observed) == Fold[observed] = Fold[policy.expected]

Result(policy, posture) ==
  [policy |-> policy, passed |-> Passes(policy, posture[policy.field]),
   observed |-> posture[policy.field]]

\* The key of the guard: device, policy and evidence.
Evidence(d, r) == <<d, r.policy.key, r.policy.field, r.observed, r.policy.expected>>

EvidenceKeys ==
  {<<d, p.key, p.field, v, p.expected>> : d \in Assessed, p \in Policies, v \in Values}

ComplianceInit ==
  /\ evaluation = [device |-> Nil, results |-> {}]
  /\ attempts = [k \in EvidenceKeys |-> Nil]
  /\ asked = <<>>

\* A slip: policies that are switched off are evaluated too.
AllOf(policies) == policies

Enabled(policies) == {p \in policies : p.enabled}

\* evaluate_compliance, with the policies as they are at this time: at most one
\* version of each.
Evaluate(d, policies, posture) ==
  LET results == {Result(p, posture) : p \in Enabled(policies)}
  IN /\ Len(asked) < MaxAsked
     /\ \A p, q \in policies : p.key = q.key => p = q
     /\ evaluation' = [device |-> d, results |-> results]
     /\ UNCHANGED <<attempts, asked, clock>>

\* A slip: the guard knows only the device and the policy of an attempt.
KeyOfPolicy(d, r) ==
  CHOOSE k \in EvidenceKeys : k[1] = d /\ k[2] = r.policy.key

\* The key the guard looks up.
GuardKey(d, r) == Evidence(d, r)

\* should_submit, for a result of the last evaluation.
AskGuard(r) ==
  LET key == GuardKey(evaluation.device, r)
      eligible == r.policy.automatic /\ ~ r.passed
      cooling == attempts[key] # Nil /\ clock - attempts[key] < Cooldown
      submit == eligible /\ ~ cooling
  IN /\ r \in evaluation.results
     /\ Len(asked) < MaxAsked
     /\ attempts' = IF submit THEN [attempts EXCEPT ![key] = clock] ELSE attempts
     /\ asked' = Append(asked, [evidence |-> Evidence(evaluation.device, r),
                                policy |-> r.policy, at |-> clock, submit |-> submit])
     /\ UNCHANGED <<evaluation, clock>>

ComplianceNext ==
  \/ \E d \in Assessed, policies \in SUBSET Policies, posture \in [Fields -> Values] :
       Evaluate(d, policies, posture)
  \/ \E r \in evaluation.results : AskGuard(r)
  \/ Advance /\ UNCHANGED <<evaluation, attempts, asked>>

ComplianceSpec == ComplianceInit /\ ClockInit /\ [][ComplianceNext]_complianceVars

-----------------------------------------------------------------------------

ComplianceTypeOK ==
  /\ attempts \in [EvidenceKeys -> Nat \cup {Nil}]
  /\ evaluation.device \in Assessed \cup {Nil}

\* The submissions before the i-th question that were for the same evidence and
\* within the cooldown.
CoolingAt(i) ==
  {j \in 1 .. i - 1 : /\ asked[j].submit
                      /\ asked[j].evidence = asked[i].evidence
                      /\ asked[i].at - asked[j].at < Cooldown}

\* A remediation is submitted exactly for a failure of an enabled policy with
\* automatic remediation whose evidence had none within the cooldown: no loop
\* of remediations, and none held back by another device, policy or evidence.
RemediationsAreSpaced ==
  \A i \in DOMAIN asked :
    asked[i].submit <=> /\ asked[i].policy.enabled
                        /\ asked[i].policy.automatic
                        /\ Fold[asked[i].evidence[4]] # Fold[asked[i].policy.expected]
                        /\ CoolingAt(i) = {}
=============================================================================
