----------------------------- MODULE Membership -----------------------------
(***************************************************************************)
(* The mirror of one user's membership of one organisation, fed by WorkOS  *)
(* webhooks and by logins.                                                 *)
(*                                                                         *)
(* WorkOS delivers an event until it is accepted, in any order and more    *)
(* than once if an answer was lost.  The handler refuses what it cannot    *)
(* store yet: rows of the organisation and of the user must come first     *)
(* (neither is ever deleted, so a look-up and the write after it are one   *)
(* step).  A login, or saved preferences, seed a missing row as member.    *)
(***************************************************************************)
EXTENDS RoleBinding, Sequences

CONSTANTS
  NotMember,  (* no membership                                             *)
  MaxChanges, (* changes of the membership in WorkOS (bound)               *)
  MaxLogins   (* logins and saved preferences (bound)                      *)

ASSUME MembershipAssumption ==
  /\ NotMember \notin Roles \cup Slugs
  /\ MaxChanges \in Nat /\ MaxLogins \in Nat

VARIABLES
  organization, (* the organisation's row is there                         *)
  user,         (* the user's row is there                                 *)
  membership,   (* the role of the row, or NotMember                       *)
  changes,      (* what WorkOS has: changes[n] is the n-th state           *)
  pending,      (* membership events not accepted yet, by their number     *)
  logins,       (* logins and saved preferences so far                     *)
  newest,       (* history: the highest number stored so far               *)
  reordered     (* history: an older event was stored after a newer one,   *)
                (* or a row was seeded for somebody who is no member       *)

memVars == <<organization, user, membership, changes, pending, logins, newest,
             reordered>>

-----------------------------------------------------------------------------

MemInit ==
  /\ organization = FALSE /\ user = FALSE /\ membership = NotMember
  /\ changes = <<>> /\ pending = {} /\ logins = 0
  /\ newest = 0 /\ reordered = FALSE

Workos == IF changes = <<>> THEN NotMember ELSE changes[Len(changes)]

(* An administrator changes the membership in WorkOS: created, updated or  *)
(* deleted, and an event of it is under way.                               *)
ChangeMembership(slug) ==
  /\ Len(changes) < MaxChanges /\ slug # Workos
  /\ changes' = Append(changes, slug)
  /\ pending' = pending \cup {Len(changes) + 1}
  /\ UNCHANGED <<organization, user, membership, logins, newest, reordered>>

UpsertOrg == organization' = TRUE

UpsertUser == user' = TRUE

(* The row as event n says: upserted with the role its slug stands for, or *)
(* deleted.                                                                *)
StoreMembership(n) ==
  membership' = IF changes[n] = NotMember THEN NotMember
                ELSE NormalizeRole(changes[n])

(* organization.* and user.* events: upserts that may come at any time.    *)
HandleOrg ==
  /\ UpsertOrg
  /\ UNCHANGED <<user, membership, changes, pending, logins, newest, reordered>>

HandleUser ==
  /\ UpsertUser
  /\ UNCHANGED <<organization, membership, changes, pending, logins, newest,
                 reordered>>

(* Mutant: an event of a user who is not mirrored yet is accepted.         *)
DropUnknownUser(n) ==
  /\ n \in pending
  /\ IF organization /\ user
     THEN /\ StoreMembership(n)
          /\ newest' = IF n > newest THEN n ELSE newest
          /\ reordered' = (reordered \/ n < newest)
     ELSE UNCHANGED <<membership, newest, reordered>>
  /\ pending' = pending \ {n}
  /\ UNCHANGED <<organization, user, changes, logins>>

(* A membership event.  Without the organisation, or without the user      *)
(* (which a deletion does not need), it is refused and stays pending, as   *)
(* it does when the store fails or the answer is lost.                     *)
HandleMembership(n) ==
  /\ n \in pending
  /\ organization /\ (changes[n] # NotMember => user)
  /\ StoreMembership(n)
  /\ pending' \in {pending, pending \ {n}}
  /\ newest' = IF n > newest THEN n ELSE newest
  /\ reordered' = (reordered \/ n < newest)
  /\ UNCHANGED <<organization, user, changes, logins>>

(* A membership without a role is seeded as member; one that has a role    *)
(* keeps it.                                                               *)
Seed == membership' = IF membership = NotMember THEN RoleMember ELSE membership

(* syncIdentity at a login, of a session that names the organisation or    *)
(* gets the default one: the rows of organisation and user, then the       *)
(* membership.  It may fail after each.                                    *)
Login ==
  /\ logins < MaxLogins
  /\ logins' = logins + 1
  /\ \/ UpsertOrg /\ UNCHANGED <<user, membership, reordered>>
     \/ UpsertUser /\ organization' \in {organization, TRUE}
        /\ UNCHANGED <<membership, reordered>>
     \/ /\ UpsertOrg /\ UpsertUser
        /\ Seed
        /\ reordered' = (reordered \/ (membership = NotMember /\ newest > 0))
  /\ UNCHANGED <<changes, pending, newest>>

(* Saved preferences insert the row as well; both other rows must be there *)
(* (the organisation for the token, the user for the foreign key).         *)
UpdatePreferences ==
  /\ logins < MaxLogins
  /\ organization /\ user
  /\ logins' = logins + 1
  /\ Seed
  /\ reordered' = (reordered \/ (membership = NotMember /\ newest > 0))
  /\ UNCHANGED <<organization, user, changes, pending, newest>>

MemNext ==
  \/ \E slug \in Slugs \cup {NotMember} : ChangeMembership(slug)
  \/ HandleOrg \/ HandleUser
  \/ \E n \in pending : HandleMembership(n)
  \/ Login \/ UpdatePreferences

MemSpec == MemInit /\ [][MemNext]_memVars

-----------------------------------------------------------------------------
(* Every variable stays in its type.                                       *)
MemTypeOK ==
  /\ organization \in BOOLEAN /\ user \in BOOLEAN
  /\ membership \in Roles \cup {NotMember}
  /\ changes \in Seq(Slugs \cup {NotMember}) /\ Len(changes) <= MaxChanges
  /\ pending \subseteq 1 .. Len(changes)
  /\ logins \in 0 .. MaxLogins /\ newest \in 0 .. Len(changes)
  /\ reordered \in BOOLEAN

(* Once every event is accepted the mirror has the role WorkOS has, unless *)
(* an older event was stored after a newer one or a row was seeded late:   *)
(* an event that came before its organisation or its user is not lost, and *)
(* no login takes a role away.                                             *)
MirrorFollows ==
  pending = {} /\ changes # <<>> /\ ~reordered =>
    membership = IF Workos = NotMember THEN NotMember ELSE NormalizeRole(Workos)
=============================================================================
