--------------------------------- MODULE Access ---------------------------------
(***************************************************************************)
(* Who may give commands (apps/api/app/auth.py, membership.py, main.py): a *)
(* request is authenticated by its token, its role and organization are    *)
(* taken from the oldest membership of the user, and the handlers of       *)
(* enrollment tokens and jobs check the role.  Memberships change between  *)
(* these steps.  Without a database there are no repositories and the      *)
(* claims of the token count.                                              *)
(***************************************************************************)
EXTENDS ApiProcess, Sequences

CONSTANTS
  Users,          \* users
  Organizations,  \* organizations
  Calls           \* requests, each handled once

VARIABLES
  database,  \* whether DATABASE_URL is set
  members,   \* organization_memberships of each user, oldest first
  call,      \* the requests
  held       \* history: the organizations whose owner or administrator the user
             \* of a call was at some time while it was handled

accessVars == <<database, members, call, held>>

-----------------------------------------------------------------------------

AppRole == {"owner", "administrator", "viewer"}
Membership == [org : Organizations, role : AppRole]

\* What a token claims; a role or organization it does not name is None.
Claims == [user : Users, org : Organizations \cup {Nil}, role : AppRole \cup {Nil}]

\* The body of a job: what the model JobRequest looks at.  A payload that does
\* not fit its action is refused like a body that was not confirmed.
Body == [confirmed : BOOLEAN, sensitive : BOOLEAN, reason : BOOLEAN]

NoCall == [step |-> "new", user |-> Nil, org |-> Nil, role |-> Nil, body |-> Nil]

AccessInit ==
  /\ database \in BOOLEAN
  /\ members = [u \in Users |-> <<>>]
  /\ call = [c \in Calls |-> NoCall]
  /\ held = [c \in Calls |-> {}]

\* The organizations that a list of memberships lets its user give commands in.
CommandedBy(s) == {s[i].org : i \in {i \in DOMAIN s : s[i].role # "viewer"}}

\* bearer_token and JwtVerifier.verify; body is Nil for an enrollment token.
Verify(c, claims, body) ==
  /\ call[c].step = "new"
  /\ call' = [call EXCEPT ![c] = [step |-> "verified", user |-> claims.user,
                                  org |-> claims.org, role |-> claims.role, body |-> body]]
  /\ held' = [held EXCEPT ![c] = CommandedBy(members[claims.user])]
  /\ UNCHANGED <<database, members, clock>>

\* No token, an expired one, a wrong signature or algorithm: 401.  No key: 503.
Reject(c) ==
  /\ call[c].step = "new"
  /\ call' = [call EXCEPT ![c].step = "refused"]
  /\ UNCHANGED <<database, members, held, clock>>

Refused(c) == [call EXCEPT ![c].step = "refused"]

\* A slip: a user without membership keeps the claims of the token.
ResolvedOrClaimed(c) ==
  LET user == call[c].user
  IN IF members[user] = <<>> THEN [call EXCEPT ![c].step = "resolved"]
     ELSE [call EXCEPT ![c].step = "resolved", ![c].org = members[user][1].org,
                       ![c].role = members[user][1].role]

\* The oldest membership replaces the claims; without one the answer is 403.
Resolved(c) ==
  LET user == call[c].user
  IN IF members[user] = <<>> THEN Refused(c)
     ELSE [call EXCEPT ![c].step = "resolved", ![c].org = members[user][1].org,
                       ![c].role = members[user][1].role]

\* current_user: a lookup that fails is answered 503.
CurrentUser(c) ==
  /\ call[c].step = "verified"
  /\ IF database THEN call' = Resolved(c) \/ call' = Refused(c)
     ELSE call' = [call EXCEPT ![c].step = "resolved"]
  /\ UNCHANGED <<database, members, held, clock>>

\* The model JobRequest, for jobs.
Valid(body) ==
  body # Nil => body.confirmed /\ (body.sensitive => body.reason)

\* The handler: 503 without a repository, 403 without the role, 422 for a body.
Permitted(c) ==
  /\ database
  /\ call[c].org # Nil
  /\ call[c].role \in {"owner", "administrator"}
  /\ Valid(call[c].body)

Handle(c) ==
  /\ call[c].step = "resolved"
  /\ call' = IF Permitted(c) THEN [call EXCEPT ![c].step = "accepted"] ELSE Refused(c)
  /\ UNCHANGED <<database, members, held, clock>>

\* Somebody adds, changes or removes a membership.
ChangeMembers(u, s) ==
  /\ members' = [members EXCEPT ![u] = s]
  /\ held' = [c \in Calls |->
                IF call[c].user = u /\ call[c].step # "accepted"
                THEN held[c] \cup CommandedBy(s) ELSE held[c]]
  /\ UNCHANGED <<database, call, clock>>

\* A user has one membership of an organization; one is added at the end,
\* removed, or gets another role.
Added(s) == {Append(s, m) : m \in {m \in Membership : \A i \in DOMAIN s : s[i].org # m.org}}
Removed(s) == {SubSeq(s, 1, i - 1) \o SubSeq(s, i + 1, Len(s)) : i \in DOMAIN s}
Changed(s) == {[s EXCEPT ![i].role = r] : i \in DOMAIN s, r \in AppRole}

Altered(s) == Added(s) \cup Removed(s) \cup Changed(s)

AccessNext ==
  \/ \E c \in Calls, claims \in Claims, body \in Body \cup {Nil} : Verify(c, claims, body)
  \/ \E c \in Calls : Reject(c) \/ CurrentUser(c) \/ Handle(c)
  \/ \E u \in Users : \E s \in Altered(members[u]) : ChangeMembers(u, s)

AccessSpec == AccessInit /\ ClockInit /\ [][AccessNext]_accessVars

-----------------------------------------------------------------------------

AccessTypeOK ==
  /\ database \in BOOLEAN
  /\ members \in [Users -> Seq(Membership)]
  /\ \A c \in Calls : call[c].step \in {"new", "verified", "resolved", "accepted", "refused"}

\* A command that was accepted was given by somebody who was an owner or
\* administrator of the organization it is executed for at some time during the
\* request, whatever the token claims and however memberships changed; and a
\* job was confirmed, a sensitive one with a reason.
CommandsNeedMembership ==
  \A c \in Calls :
    call[c].step = "accepted" =>
      /\ call[c].org \in held[c]
      /\ call[c].body # Nil =>
           call[c].body.confirmed /\ (call[c].body.sensitive => call[c].body.reason)
=============================================================================
