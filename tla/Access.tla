------------------------------- MODULE Access -------------------------------
(***************************************************************************)
(* Who a user is in one organisation: WorkOS owns the membership, tokens   *)
(* carry the role of the time they were made, requests bind the role of    *)
(* their token, and the mirror follows the events.  The role bindings      *)
(* never read the mirror: what they share is WorkOS.                       *)
(***************************************************************************)
EXTENDS Membership

CONSTANTS
  DefaultOrganization, (* is the organisation the configured default?      *)
  RoleAdmin            (* the role of every request in it                  *)

ASSUME AccessAssumption == DefaultOrganization \in BOOLEAN /\ RoleAdmin \in Roles

VARIABLE tokens (* role claims of tokens that have not expired             *)

accessVars == <<roleVars, memVars, tokens>>

AccessInit == RoleInit /\ MemInit /\ tokens = {}

(* A login or a refresh makes a token with the role WorkOS has now.        *)
IssueToken ==
  /\ Workos # NotMember
  /\ tokens' = tokens \cup {Workos}
  /\ UNCHANGED <<roleVars, memVars>>

ExpireToken ==
  /\ \E slug \in tokens : tokens' = tokens \ {slug}
  /\ UNCHANGED <<roleVars, memVars>>

(* The role a request is given: in the default organisation, that of an    *)
(* administrator, whatever its token says.                                 *)
GrantedRole(slug) == IF DefaultOrganization THEN RoleAdmin ELSE slug

(* The middleware verifies a token and resolves its organisation, which    *)
(* must be mirrored, before it binds the role.                             *)
Authenticate(q, slug, a) ==
  /\ slug \in tokens /\ organization
  /\ Receive(q, GrantedRole(slug), a)
  /\ UNCHANGED <<memVars, tokens>>

AccessNext ==
  \/ \E q \in Requests, slug \in Slugs, a \in {"read", "write"} :
       Authenticate(q, slug, a)
  \/ /\ (\E q \in Requests : RoleStep(q)) \/ Restart
     /\ UNCHANGED <<memVars, tokens>>
  \/ MemNext /\ UNCHANGED <<roleVars, tokens>>
  \/ IssueToken \/ ExpireToken

AccessSpec == AccessInit /\ [][AccessNext]_accessVars
=============================================================================
