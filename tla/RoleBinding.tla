---------------------------- MODULE RoleBinding ----------------------------
(***************************************************************************)
(* The roles of one user in one organisation as Casbin rules: the          *)
(* middleware materialises the role of a token (RoleBinder.Ensure), the    *)
(* interceptor asks the enforcer.                                          *)
(*                                                                         *)
(* Each call of the enforcer is atomic (it is synchronised, and saves a    *)
(* rule before it takes it into its model); Ensure is a sequence of them,  *)
(* so the requests of a user whose role is just changing run into each     *)
(* other.  The memo of what is bound lives in the process, the rules in    *)
(* the table outlive it.  Only the rules about every procedure are kept:   *)
(* those about the booking engine grant nothing more.                      *)
(***************************************************************************)
EXTENDS Naturals, FiniteSets

CONSTANTS
  Requests,       (* requests of the user (bound: one procedure each)      *)
  Roles,          (* the keys of rolePermissions                           *)
  RoleMember,     (* the role an unknown slug degrades to                  *)
  Slugs,          (* role claims a token may carry                         *)
  rolePermissions (* rolePermissions[r]: the actions role r is granted     *)

ASSUME RoleAssumption ==
  /\ RoleMember \in Roles /\ Roles \cap {"none"} = {}
  /\ rolePermissions \in [Roles -> SUBSET {"read", "write"}]

VARIABLES
  policy,   (* p rules of the organisation: pairs of role and action       *)
  bound,    (* g rules of the user: the roles it has                       *)
  memo,     (* roles this process remembers as bound                       *)
  request,  (* request[q]: the request q                                   *)
  lone,     (* history: requests no binding of another role came across    *)
  tangled   (* history: bindings of two roles overlapped, and no lone one  *)
            (* has put it right since                                      *)

roleVars == <<policy, bound, memo, request, lone, tangled>>

-----------------------------------------------------------------------------
NormalizeRole(slug) == IF slug \in Roles THEN slug ELSE RoleMember

(* todo: actions to grant.  others: roles still to unbind.  other: the one *)
(* unbound but not forgotten, or "none".                                   *)
RequestState ==
  [pc : {"idle", "grant", "unbind", "forget", "store", "enforce", "done"},
   role : Roles, todo : SUBSET {"read", "write"}, others : SUBSET Roles,
   other : Roles \cup {"none"}, action : {"read", "write"},
   answer : {"", "allowed", "denied", "error"}]

RoleInit ==
  /\ policy = {} /\ bound = {} /\ memo = {}
  /\ request = [q \in Requests |->
       [pc |-> "idle", role |-> RoleMember, todo |-> {}, others |-> {},
        other |-> "none", action |-> "read", answer |-> ""]]
  /\ lone = {} /\ tangled = FALSE

Binding(q) == request[q].pc \in {"grant", "unbind", "forget", "store"}

(* Requests that are binding another role than r.                          *)
Across(q, r) == {x \in Requests \ {q} : Binding(x) /\ request[x].role # r}

-----------------------------------------------------------------------------
(* Mutant: the role is remembered before its rules are made.               *)
RememberAtOnce(q, slug, a) ==
  LET r == NormalizeRole(slug) IN
  /\ request[q].pc = "idle"
  /\ request' = [request EXCEPT ![q] = [@ EXCEPT !.role = r, !.action = a,
       !.pc = IF r \in memo THEN "enforce" ELSE "grant",
       !.todo = IF r \in memo THEN {} ELSE rolePermissions[r],
       !.others = IF r \in memo THEN {} ELSE Roles \ {r}]]
  /\ lone' = (IF r \in memo THEN lone ELSE {x \in lone : request[x].role = r})
               \cup (IF Across(q, r) # {} \/ (r \in memo /\ tangled) THEN {} ELSE {q})
  /\ tangled' = (tangled \/ (r \notin memo /\ Across(q, r) # {}))
  /\ memo' = memo \cup {r}
  /\ UNCHANGED <<policy, bound>>

(* Ensure up to the memo: a role remembered as bound needs nothing.        *)
Receive(q, slug, a) ==
  LET r == NormalizeRole(slug) IN
  /\ request[q].pc = "idle"
  /\ request' = [request EXCEPT ![q] = [@ EXCEPT !.role = r, !.action = a,
       !.pc = IF r \in memo THEN "enforce" ELSE "grant",
       !.todo = IF r \in memo THEN {} ELSE rolePermissions[r],
       !.others = IF r \in memo THEN {} ELSE Roles \ {r}]]
  /\ lone' = (IF r \in memo THEN lone ELSE {x \in lone : request[x].role = r})
               \cup (IF Across(q, r) # {} \/ (r \in memo /\ tangled) THEN {} ELSE {q})
  /\ tangled' = (tangled \/ (r \notin memo /\ Across(q, r) # {}))
  /\ UNCHANGED <<policy, bound, memo>>

(* A call of the enforcer fails: the request ends with it.                 *)
FailBinding(q) ==
  /\ Binding(q) /\ request[q].pc # "forget"
  /\ request' = [request EXCEPT ![q] = [@ EXCEPT !.pc = "done", !.answer = "error"]]
  /\ UNCHANGED <<policy, bound, memo, lone, tangled>>

(* AddPolicy of one permission of the role.                                *)
AddPolicy(q, a) ==
  /\ request[q].pc = "grant" /\ a \in request[q].todo
  /\ policy' = policy \cup {<<request[q].role, a>>}
  /\ request' = [request EXCEPT ![q].todo = @ \ {a}]
  /\ UNCHANGED <<bound, memo, lone, tangled>>

(* Role o is unbound, and still has to be forgotten.                       *)
Unbinding(s, o) ==
  [s EXCEPT !.pc = "forget", !.other = o, !.others = @ \ {o}]

(* Mutant: the other roles stay bound.                                     *)
KeepOtherRoles(q, o) ==
  /\ request[q].pc \in {"grant", "unbind"} /\ request[q].todo = {}
  /\ o \in request[q].others
  /\ request' = [request EXCEPT ![q] = Unbinding(request[q], o)]
  /\ UNCHANGED <<policy, bound, memo, lone, tangled>>

(* RemoveGroupingPolicy of another role, in the order of a Go map.         *)
RemoveGroupingPolicy(q, o) ==
  /\ request[q].pc \in {"grant", "unbind"} /\ request[q].todo = {}
  /\ o \in request[q].others
  /\ bound' = bound \ {o}
  /\ request' = [request EXCEPT ![q] = Unbinding(request[q], o)]
  /\ UNCHANGED <<policy, memo, lone, tangled>>

(* The memo of the role just unbound goes too.                             *)
Forget(q) ==
  /\ request[q].pc = "forget"
  /\ memo' = memo \ {request[q].other}
  /\ request' = [request EXCEPT ![q] = [@ EXCEPT !.pc = "unbind", !.other = "none"]]
  /\ UNCHANGED <<policy, bound, lone, tangled>>

(* AddGroupingPolicy of the role itself.                                   *)
AddGroupingPolicy(q) ==
  /\ request[q].pc \in {"grant", "unbind"}
  /\ request[q].todo = {} /\ request[q].others = {}
  /\ bound' = bound \cup {request[q].role}
  /\ request' = [request EXCEPT ![q].pc = "store"]
  /\ UNCHANGED <<policy, memo, lone, tangled>>

(* The end of Ensure.  A binding nothing came across leaves one role.      *)
Store(q) ==
  /\ request[q].pc = "store"
  /\ memo' = memo \cup {request[q].role}
  /\ request' = [request EXCEPT ![q].pc = "enforce"]
  /\ tangled' = (tangled /\ q \notin lone)
  /\ UNCHANGED <<policy, bound, lone>>

(* The interceptor asks whether a role of the user grants the action.      *)
Enforce(q) ==
  /\ request[q].pc = "enforce"
  /\ request' = [request EXCEPT ![q] = [@ EXCEPT !.pc = "done",
       !.answer = IF \E r \in bound : <<r, request[q].action>> \in policy
                  THEN "allowed" ELSE "denied"]]
  /\ UNCHANGED <<policy, bound, memo, lone, tangled>>

(* The process stops and starts: the rules are loaded from the table, the  *)
(* memo is empty.                                                          *)
Restart ==
  /\ \E q \in Requests : request[q].pc \notin {"idle", "done"}
  /\ memo' = {}
  /\ request' = [q \in Requests |->
       IF request[q].pc \in {"idle", "done"} THEN request[q]
       ELSE [request[q] EXCEPT !.pc = "done", !.answer = "error"]]
  /\ UNCHANGED <<policy, bound, lone, tangled>>

RoleStep(q) ==
  \/ \E a \in {"read", "write"} : AddPolicy(q, a)
  \/ \E o \in Roles : RemoveGroupingPolicy(q, o)
  \/ Forget(q) \/ AddGroupingPolicy(q) \/ Store(q) \/ FailBinding(q)
  \/ Enforce(q)

RoleNext ==
  \/ \E q \in Requests :
       RoleStep(q) \/ \E slug \in Slugs, a \in {"read", "write"} : Receive(q, slug, a)
  \/ Restart

RoleSpec == RoleInit /\ [][RoleNext]_roleVars

-----------------------------------------------------------------------------
(* Every variable stays in its type.                                       *)
RoleTypeOK ==
  /\ policy \subseteq Roles \X {"read", "write"}
  /\ bound \subseteq Roles /\ memo \subseteq Roles
  /\ request \in [Requests -> RequestState]
  /\ lone \subseteq Requests /\ tangled \in BOOLEAN

(* Unless bindings of two roles overlapped, what the process remembers is  *)
(* bound, and once no binding is under way the user has at most one role:  *)
(* a demotion has taken effect, and a role taken up again is bound again.  *)
OneRoleBound ==
  ~tangled /\ (\A q \in Requests : ~Binding(q)) =>
    memo \subseteq bound /\ Cardinality(bound) <= 1

(* A request that no binding of another role came across is answered by    *)
(* the permissions of its role: no more, and never denied for a rule that  *)
(* was not made yet.                                                       *)
AnswersMatchRole ==
  \A q \in lone :
    request[q].answer \in {"allowed", "denied"} =>
      (request[q].answer = "allowed" <=>
         request[q].action \in rolePermissions[request[q].role])
=============================================================================
