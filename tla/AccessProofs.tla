----------------------------- MODULE AccessProofs -----------------------------
(***************************************************************************)
(* Proofs about Access for any number of requests, roles, tokens, changes  *)
(* of the membership and logins.                                           *)
(***************************************************************************)
EXTENDS Access, FiniteSetTheorems, TLAPS

(* All that role r grants is in the table.                                 *)
Granted(r) == \A a \in rolePermissions[r] : <<r, a>> \in policy

(* The shape of a request at each step of Ensure.                          *)
Shape(q) ==
  LET s == request[q] IN
  /\ s.pc = "idle" => q \notin lone
  /\ s.pc # "done" => s.answer = ""
  /\ Binding(q) => s.role \notin s.others
  /\ s.pc = "forget" => s.other \in Roles \ {s.role}
  /\ s.pc \notin {"forget", "done"} => s.other = "none"
  /\ s.pc = "store" => s.others = {}
  /\ s.pc = "grant" =>
       /\ s.todo \subseteq rolePermissions[s.role]
       /\ \A a \in rolePermissions[s.role] \ s.todo : <<s.role, a>> \in policy
  /\ s.pc \in {"unbind", "forget", "store", "enforce"} => Granted(s.role)

(* A binding on which no binding of another role has any effect.           *)
Sure(q) == ~tangled \/ q \in lone

(* What a binding has unbound and forgotten stays so.                      *)
Clears(q) ==
  LET s == request[q] IN
  Binding(q) /\ Sure(q) =>
    /\ bound \subseteq {s.role} \cup s.others
    /\ memo \subseteq {s.role} \cup s.others \cup {s.other}
    /\ s.pc = "store" => s.role \in bound

(* Bindings do not overlap, unless tangled, nor come across a lone request.*)
SameRole ==
  \A q, x \in Requests :
    (/\ Binding(x)
     /\ \/ ~tangled /\ Binding(q)
        \/ q \in lone /\ request[q].pc \notin {"idle", "done"})
    => request[q].role = request[x].role

(* A lone request asks when its own role is the one that is bound.         *)
Enforced(q) ==
  q \in lone /\ request[q].pc = "enforce" => bound = {request[q].role}

MemoSound ==
  /\ \A r \in memo : Granted(r)
  /\ \A p \in policy : p[2] \in rolePermissions[p[1]]
  /\ ~tangled =>
       /\ \A r \in memo : \/ r \in bound
                          \/ \E q \in Requests : /\ request[q].pc = "forget"
                                                 /\ request[q].other = r
       /\ \A x, y \in bound : x = y

RoleInv ==
  /\ RoleTypeOK
  /\ \A q \in Requests : Shape(q) /\ Clears(q) /\ Enforced(q)
  /\ SameRole
  /\ MemoSound
  /\ AnswersMatchRole

(* An event that is not pending was stored, or a newer one was; and the    *)
(* row is what the newest one said, unless something came out of order.    *)
MemInv ==
  /\ MemTypeOK
  /\ \A n \in 1 .. Len(changes) : n \in pending \/ n <= newest
  /\ ~reordered /\ newest > 0 =>
       membership = IF changes[newest] = NotMember THEN NotMember
                    ELSE NormalizeRole(changes[newest])

-----------------------------------------------------------------------------
(* The bindings.                                                           *)

LEMMA RoleInitSound == RoleInit => RoleInv
<1> SUFFICES ASSUME RoleInit PROVE RoleInv
  OBVIOUS
<1>1. RoleTypeOK
  BY RoleAssumption DEF RoleInit, RoleTypeOK, RequestState
<1>2. \A q \in Requests :
        /\ request[q].pc = "idle" /\ request[q].answer = ""
        /\ request[q].other = "none" /\ ~Binding(q)
  BY DEF RoleInit, Binding
<1>3. lone = {} /\ policy = {} /\ memo = {} /\ bound = {}
  BY DEF RoleInit
<1>4. \A q \in Requests : Shape(q) /\ Clears(q) /\ Enforced(q)
  BY <1>2, <1>3 DEF Shape, Clears, Enforced
<1>5. SameRole /\ MemoSound /\ AnswersMatchRole
  BY <1>2, <1>3 DEF SameRole, MemoSound, AnswersMatchRole
<1> QED
  BY <1>1, <1>4, <1>5 DEF RoleInv

(* A step of request q makes it s, and leaves the others as they are.      *)
LEMMA OneRequest ==
  ASSUME RoleTypeOK, NEW q \in Requests, NEW s \in RequestState,
         request' = [request EXCEPT ![q] = s]
  PROVE  /\ request' \in [Requests -> RequestState]
         /\ request'[q] = s
         /\ \A x \in Requests \ {q} : request'[x] = request[x]
BY DEF RoleTypeOK

(* A request goes on with its role, and no history changes.                *)
LEMMA Progress ==
  ASSUME RoleInv, NEW q \in Requests, NEW s \in RequestState,
         request' = [request EXCEPT ![q] = s], s.role = request[q].role,
         s.pc # "idle", request[q].pc \notin {"idle", "done"},
         s.pc \in {"grant", "unbind", "forget", "store"} => Binding(q),
         policy \subseteq policy', UNCHANGED <<lone, tangled>>
  PROVE  /\ SameRole'
         /\ \A x \in Requests \ {q} : Shape(x)'
<1>1. /\ request'[q] = s
      /\ \A x \in Requests \ {q} : request'[x] = request[x]
  BY OneRequest DEF RoleInv
<1>2. \A x \in Requests : /\ Binding(x)' => Binding(x)
                          /\ request'[x].role = request[x].role
                          /\ request'[x].pc \notin {"idle", "done"} =>
                               request[x].pc \notin {"idle", "done"}
  BY <1>1 DEF Binding
<1>3. SameRole'
  BY <1>2 DEF SameRole, RoleInv
<1>4. ASSUME NEW x \in Requests \ {q} PROVE Shape(x)'
  <2>1. request'[x] = request[x] /\ Shape(x)
    BY <1>1 DEF RoleInv
  <2>2. PICK r : r = request[x]
    OBVIOUS
  <2> QED
    BY <2>1, <2>2 DEF Shape, Granted, Binding
<1> QED
  BY <1>3, <1>4

LEMMA AddPolicyStep ==
  ASSUME RoleInv, NEW q \in Requests, NEW a \in {"read", "write"}, AddPolicy(q, a)
  PROVE  RoleInv'
<1>1. PICK s : s = [request[q] EXCEPT !.todo = request[q].todo \ {a}]
  OBVIOUS
<1>2. PICK r : r = request[q]
  OBVIOUS
<1>3. r \in RequestState /\ r.pc = "grant" /\ a \in r.todo
  BY <1>2 DEF AddPolicy, RoleInv, RoleTypeOK
<1>4. /\ s \in RequestState /\ s.pc = "grant" /\ s.role = r.role
      /\ s.todo = r.todo \ {a} /\ s.others = r.others /\ s.other = r.other
      /\ s.action = r.action /\ s.answer = r.answer
  BY <1>1, <1>2, <1>3 DEF RequestState
<1>5. request' = [request EXCEPT ![q] = s]
  BY <1>1 DEF AddPolicy
<1>6. /\ request' \in [Requests -> RequestState] /\ request'[q] = s
      /\ \A x \in Requests \ {q} : request'[x] = request[x]
  BY <1>4, <1>5, OneRequest DEF RoleInv
<1>7. /\ policy' = policy \cup {<<r.role, a>>}
      /\ UNCHANGED <<bound, memo, lone, tangled>>
  BY <1>2 DEF AddPolicy
<1>8. SameRole' /\ \A x \in Requests \ {q} : Shape(x)'
  BY <1>2, <1>3, <1>4, <1>5, <1>7, Progress DEF Binding
<1>9. Shape(q) /\ r.role \in Roles /\ a \in rolePermissions[r.role]
  BY <1>2, <1>3 DEF Shape, RoleInv, RequestState
<1>10. RoleTypeOK'
  BY <1>6, <1>7, <1>9 DEF RoleInv, RoleTypeOK
<1>11. Shape(q)'
  BY <1>2, <1>3, <1>4, <1>6, <1>7, <1>9 DEF Shape, Binding
<1>12. \A x \in Requests : /\ Binding(x)' = Binding(x)
                           /\ request'[x].role = request[x].role
                           /\ request'[x].others = request[x].others
                           /\ request'[x].other = request[x].other
                           /\ request'[x].pc = request[x].pc
                           /\ request'[x].action = request[x].action
                           /\ request'[x].answer = request[x].answer
  BY <1>2, <1>3, <1>4, <1>6 DEF Binding
<1>13. \A x \in Requests : Clears(x)' /\ Enforced(x)'
  BY <1>7, <1>12 DEF RoleInv, Clears, Enforced, Sure
<1>14. MemoSound'
  BY <1>7, <1>9, <1>12 DEF RoleInv, MemoSound, Granted
<1>15. AnswersMatchRole'
  BY <1>7, <1>12 DEF RoleInv, RoleTypeOK, AnswersMatchRole
<1> QED
  BY <1>8, <1>10, <1>11, <1>13, <1>14, <1>15 DEF RoleInv

LEMMA UnbindStep ==
  ASSUME RoleInv, NEW q \in Requests, NEW o \in Roles, RemoveGroupingPolicy(q, o)
  PROVE  RoleInv'
<1>1. PICK r : r = request[q]
  OBVIOUS
<1>2. PICK s : s = [r EXCEPT !.pc = "forget", !.other = o,
                             !.others = r.others \ {o}]
  OBVIOUS
<1>3. /\ r \in RequestState /\ r.pc \in {"grant", "unbind"} /\ r.todo = {}
      /\ o \in r.others /\ Shape(q)
  BY <1>1 DEF RemoveGroupingPolicy, RoleInv, RoleTypeOK
<1>4. /\ s \in RequestState /\ s.pc = "forget" /\ s.role = r.role
      /\ s.others = r.others \ {o} /\ s.other = o
      /\ s.action = r.action /\ s.answer = r.answer
  BY <1>2, <1>3 DEF RequestState
<1>5. request' = [request EXCEPT ![q] = s]
  BY <1>1, <1>2, <1>3 DEF RemoveGroupingPolicy, Unbinding, RequestState
<1>6. /\ request' \in [Requests -> RequestState] /\ request'[q] = s
      /\ \A x \in Requests \ {q} : request'[x] = request[x]
  BY <1>4, <1>5, OneRequest DEF RoleInv
<1>7. bound' = bound \ {o} /\ UNCHANGED <<policy, memo, lone, tangled>>
  BY DEF RemoveGroupingPolicy
<1>8. SameRole' /\ \A x \in Requests \ {q} : Shape(x)'
  BY <1>1, <1>3, <1>4, <1>5, <1>7, Progress DEF Binding
<1>9. RoleTypeOK'
  BY <1>6, <1>7 DEF RoleInv, RoleTypeOK
<1>10. Binding(q) /\ o # r.role /\ Granted(r.role) /\ r.answer = ""
       /\ r.other = "none" /\ o # "none"
  BY <1>1, <1>3, RoleAssumption DEF Shape, Binding, Granted
<1>11. Shape(q)'
  BY <1>1, <1>3, <1>4, <1>6, <1>7, <1>10 DEF Shape, Binding, Granted
<1>12. ASSUME NEW x \in Requests PROVE Clears(x)' /\ Enforced(x)'
  <2>1. CASE x = q
    <3>1. Clears(q)'
      <4>1. Sure(q) => /\ bound \subseteq {r.role} \cup r.others
                       /\ memo \subseteq {r.role} \cup r.others
        BY <1>1, <1>10, RoleAssumption DEF RoleInv, RoleTypeOK, Clears
      <4> QED
        BY <1>4, <1>6, <1>7, <1>10, <4>1 DEF Clears, Sure
    <3> QED
      BY <2>1, <3>1, <1>4, <1>6 DEF Enforced
  <2>2. CASE x # q
    <3>1. PICK t : t = request[x] /\ request'[x] = t
      BY <1>6, <2>2
    <3>2. (Binding(x) /\ Sure(x)) => t.role = r.role
      BY <1>1, <1>10, <3>1 DEF RoleInv, SameRole, Sure, Binding
    <3>3. Clears(x)'
      BY <1>7, <1>10, <3>1, <3>2 DEF RoleInv, Clears, Sure, Binding
    <3>4. (x \in lone /\ t.pc = "enforce") => t.role = r.role
      BY <1>1, <1>10, <3>1 DEF RoleInv, SameRole
    <3>5. Enforced(x)'
      BY <1>7, <1>10, <3>1, <3>4 DEF RoleInv, Enforced
    <3> QED
      BY <3>3, <3>5
  <2> QED
    BY <2>1, <2>2
<1>13. MemoSound'
  <2>1. ASSUME ~tangled, NEW k \in memo
        PROVE  \/ k \in bound'
               \/ \E x \in Requests : /\ request'[x].pc = "forget"
                                      /\ request'[x].other = k
    <3>1. CASE k = o
      BY <1>4, <1>6, <3>1
    <3>2. CASE k # o
      BY <1>1, <1>3, <1>6, <1>7, <2>1, <3>2 DEF RoleInv, MemoSound
    <3> QED
      BY <3>1, <3>2
  <2> QED
    BY <1>7, <2>1 DEF RoleInv, MemoSound, Granted
<1>14. AnswersMatchRole'
  BY <1>4, <1>6, <1>7, <1>10 DEF RoleInv, RoleTypeOK, AnswersMatchRole
<1> QED
  BY <1>8, <1>9, <1>11, <1>12, <1>13, <1>14 DEF RoleInv

LEMMA ForgetStep ==
  ASSUME RoleInv, NEW q \in Requests, Forget(q)
  PROVE  RoleInv'
<1>1. PICK r : r = request[q]
  OBVIOUS
<1>2. PICK s : s = [r EXCEPT !.pc = "unbind", !.other = "none"]
  OBVIOUS
<1>3. /\ r \in RequestState /\ r.pc = "forget" /\ Shape(q)
  BY <1>1 DEF Forget, RoleInv, RoleTypeOK
<1>4. /\ s \in RequestState /\ s.pc = "unbind" /\ s.role = r.role
      /\ s.others = r.others /\ s.other = "none"
      /\ s.action = r.action /\ s.answer = r.answer
  BY <1>2, <1>3 DEF RequestState
<1>5. request' = [request EXCEPT ![q] = s]
  BY <1>1, <1>2 DEF Forget
<1>6. /\ request' \in [Requests -> RequestState] /\ request'[q] = s
      /\ \A x \in Requests \ {q} : request'[x] = request[x]
  BY <1>4, <1>5, OneRequest DEF RoleInv
<1>7. memo' = memo \ {r.other} /\ UNCHANGED <<policy, bound, lone, tangled>>
  BY <1>1 DEF Forget
<1>8. SameRole' /\ \A x \in Requests \ {q} : Shape(x)'
  BY <1>1, <1>3, <1>4, <1>5, <1>7, Progress DEF Binding
<1>9. RoleTypeOK'
  BY <1>6, <1>7 DEF RoleInv, RoleTypeOK
<1>10. Binding(q) /\ r.other # r.role /\ Granted(r.role) /\ r.answer = ""
       /\ r.role \notin r.others
  BY <1>1, <1>3 DEF Shape, Binding
<1>11. Shape(q)'
  BY <1>1, <1>3, <1>4, <1>6, <1>7, <1>10 DEF Shape, Binding, Granted
<1>12. ASSUME NEW x \in Requests PROVE Clears(x)' /\ Enforced(x)'
  <2>1. CASE x = q
    <3>1. Sure(q) => /\ bound \subseteq {r.role} \cup r.others
                     /\ memo \subseteq {r.role} \cup r.others \cup {r.other}
      BY <1>1, <1>10 DEF RoleInv, Clears
    <3>2. Clears(q)'
      BY <1>4, <1>6, <1>7, <3>1 DEF Clears, Sure
    <3> QED
      BY <2>1, <3>2, <1>4, <1>6 DEF Enforced
  <2>2. CASE x # q
    <3>1. PICK t : t = request[x] /\ request'[x] = t
      BY <1>6, <2>2
    <3> QED
      BY <1>7, <3>1 DEF RoleInv, Clears, Enforced, Sure, Binding
  <2> QED
    BY <2>1, <2>2
<1>13. MemoSound'
  <2>1. ASSUME ~tangled, NEW k \in memo \ {r.other}
        PROVE  \/ k \in bound
               \/ \E x \in Requests : /\ request'[x].pc = "forget"
                                      /\ request'[x].other = k
    BY <1>1, <1>6, <2>1 DEF RoleInv, MemoSound
  <2> QED
    BY <1>7, <2>1 DEF RoleInv, MemoSound, Granted
<1>14. AnswersMatchRole'
  BY <1>4, <1>6, <1>7, <1>10 DEF RoleInv, RoleTypeOK, AnswersMatchRole
<1> QED
  BY <1>8, <1>9, <1>11, <1>12, <1>13, <1>14 DEF RoleInv

LEMMA BindStep ==
  ASSUME RoleInv, NEW q \in Requests, AddGroupingPolicy(q)
  PROVE  RoleInv'
<1>1. PICK r : r = request[q]
  OBVIOUS
<1>2. PICK s : s = [r EXCEPT !.pc = "store"]
  OBVIOUS
<1>3. /\ r \in RequestState /\ r.pc \in {"grant", "unbind"} /\ Shape(q)
      /\ r.todo = {} /\ r.others = {} /\ r.role \in Roles
  BY <1>1 DEF AddGroupingPolicy, RoleInv, RoleTypeOK, RequestState
<1>4. /\ s \in RequestState /\ s.pc = "store" /\ s.role = r.role
      /\ s.others = r.others /\ s.other = r.other
      /\ s.action = r.action /\ s.answer = r.answer
  BY <1>2, <1>3 DEF RequestState
<1>5. request' = [request EXCEPT ![q] = s]
  BY <1>1, <1>2, <1>3 DEF AddGroupingPolicy, RequestState
<1>6. /\ request' \in [Requests -> RequestState] /\ request'[q] = s
      /\ \A x \in Requests \ {q} : request'[x] = request[x]
  BY <1>4, <1>5, OneRequest DEF RoleInv
<1>7. bound' = bound \cup {r.role} /\ UNCHANGED <<policy, memo, lone, tangled>>
  BY <1>1 DEF AddGroupingPolicy
<1>8. SameRole' /\ \A x \in Requests \ {q} : Shape(x)'
  BY <1>1, <1>3, <1>4, <1>5, <1>7, Progress DEF Binding
<1>9. RoleTypeOK'
  BY <1>3, <1>6, <1>7 DEF RoleInv, RoleTypeOK
<1>10. Binding(q) /\ Granted(r.role) /\ r.answer = "" /\ r.other = "none"
  BY <1>1, <1>3 DEF Shape, Binding, Granted
<1>11. Shape(q)'
  BY <1>1, <1>3, <1>4, <1>6, <1>7, <1>10 DEF Shape, Binding, Granted
<1>12. Sure(q) => bound \subseteq {r.role} /\ memo \subseteq {r.role}
  BY <1>1, <1>3, <1>10, RoleAssumption DEF RoleInv, RoleTypeOK, Clears
<1>13. ASSUME NEW x \in Requests PROVE Clears(x)' /\ Enforced(x)'
  <2>1. CASE x = q
    <3>1. Clears(q)'
      BY <1>3, <1>4, <1>6, <1>7, <1>12 DEF Clears, Sure
    <3> QED
      BY <2>1, <3>1, <1>4, <1>6 DEF Enforced
  <2>2. CASE x # q
    <3>1. PICK t : t = request[x] /\ request'[x] = t
      BY <1>6, <2>2
    <3>2. (Binding(x) /\ Sure(x)) => t.role = r.role
      BY <1>1, <1>10, <3>1 DEF RoleInv, SameRole, Sure, Binding
    <3>3. Clears(x)'
      BY <1>7, <3>1, <3>2 DEF RoleInv, Clears, Sure, Binding
    <3>4. (x \in lone /\ t.pc = "enforce") => t.role = r.role
      BY <1>1, <1>10, <3>1 DEF RoleInv, SameRole
    <3>5. Enforced(x)'
      BY <1>7, <3>1, <3>4 DEF RoleInv, Enforced
    <3> QED
      BY <3>3, <3>5
  <2> QED
    BY <2>1, <2>2
<1>14. MemoSound'
  <2>1. ASSUME ~tangled, NEW k \in memo
        PROVE  \/ k \in bound'
               \/ \E x \in Requests : /\ request'[x].pc = "forget"
                                      /\ request'[x].other = k
    BY <1>1, <1>3, <1>6, <1>7, <2>1 DEF RoleInv, MemoSound
  <2>2. ~tangled => \A x, y \in bound' : x = y
    BY <1>7, <1>12 DEF Sure
  <2> QED
    BY <1>7, <2>1, <2>2 DEF RoleInv, MemoSound, Granted
<1>15. AnswersMatchRole'
  BY <1>4, <1>6, <1>7, <1>10 DEF RoleInv, RoleTypeOK, AnswersMatchRole
<1> QED
  BY <1>8, <1>9, <1>11, <1>13, <1>14, <1>15 DEF RoleInv

LEMMA FailStep ==
  ASSUME RoleInv, NEW q \in Requests, FailBinding(q)
  PROVE  RoleInv'
<1>1. PICK r : r = request[q]
  OBVIOUS
<1>2. PICK s : s = [r EXCEPT !.pc = "done", !.answer = "error"]
  OBVIOUS
<1>3. r \in RequestState /\ Binding(q) /\ r.pc # "forget"
  BY <1>1 DEF FailBinding, RoleInv, RoleTypeOK
<1>4. /\ s \in RequestState /\ s.pc = "done" /\ s.role = r.role
      /\ s.answer = "error"
  BY <1>2, <1>3 DEF RequestState
<1>5. request' = [request EXCEPT ![q] = s]
  BY <1>1, <1>2 DEF FailBinding
<1>6. /\ request' \in [Requests -> RequestState] /\ request'[q] = s
      /\ \A x \in Requests \ {q} : request'[x] = request[x]
  BY <1>4, <1>5, OneRequest DEF RoleInv
<1>7. UNCHANGED <<policy, bound, memo, lone, tangled>>
  BY DEF FailBinding
<1>8. SameRole' /\ \A x \in Requests \ {q} : Shape(x)'
  BY <1>1, <1>3, <1>4, <1>5, <1>7, Progress DEF Binding
<1>9. RoleTypeOK'
  BY <1>6, <1>7 DEF RoleInv, RoleTypeOK
<1>10. Shape(q)' /\ Clears(q)' /\ Enforced(q)'
  BY <1>4, <1>6 DEF Shape, Clears, Enforced, Binding
<1>11. ASSUME NEW x \in Requests \ {q} PROVE Clears(x)' /\ Enforced(x)'
  <2>1. PICK t : t = request[x] /\ request'[x] = t
    BY <1>6
  <2> QED
    BY <1>7, <2>1 DEF RoleInv, Clears, Enforced, Sure, Binding
<1>12. MemoSound'
  <2>1. ASSUME NEW x \in Requests, request[x].pc = "forget"
        PROVE  request'[x] = request[x]
    BY <1>1, <1>3, <1>6, <2>1
  <2> QED
    BY <1>7, <2>1 DEF RoleInv, MemoSound, Granted
<1>13. AnswersMatchRole'
  BY <1>4, <1>6, <1>7 DEF RoleInv, RoleTypeOK, AnswersMatchRole
<1> QED
  BY <1>8, <1>9, <1>10, <1>11, <1>12, <1>13 DEF RoleInv

LEMMA StoreStep ==
  ASSUME RoleInv, NEW q \in Requests, Store(q)
  PROVE  RoleInv'
<1>1. PICK r : r = request[q]
  OBVIOUS
<1>2. PICK s : s = [r EXCEPT !.pc = "enforce"]
  OBVIOUS
<1>3. /\ r \in RequestState /\ r.pc = "store" /\ Shape(q)
      /\ r.role \in Roles
  BY <1>1 DEF Store, RoleInv, RoleTypeOK, RequestState
<1>4. /\ s \in RequestState /\ s.pc = "enforce" /\ s.role = r.role
      /\ s.other = r.other /\ s.answer = r.answer
  BY <1>2, <1>3 DEF RequestState
<1>5. request' = [request EXCEPT ![q] = s]
  BY <1>1, <1>2, <1>3 DEF Store, RequestState
<1>6. /\ request' \in [Requests -> RequestState] /\ request'[q] = s
      /\ \A x \in Requests \ {q} : request'[x] = request[x]
  BY <1>4, <1>5, OneRequest DEF RoleInv
<1>7. /\ memo' = memo \cup {r.role} /\ UNCHANGED <<policy, bound, lone>>
      /\ tangled' = (tangled /\ q \notin lone)
  BY <1>1 DEF Store
<1>8. RoleTypeOK'
  BY <1>3, <1>6, <1>7 DEF RoleInv, RoleTypeOK
<1>9. Binding(q) /\ Granted(r.role) /\ r.answer = "" /\ r.other = "none"
      /\ r.others = {}
  BY <1>1, <1>3 DEF Shape, Binding
<1>10. Sure(q) => bound = {r.role} /\ memo \subseteq {r.role}
  BY <1>1, <1>3, <1>9, RoleAssumption DEF RoleInv, RoleTypeOK, Clears
<1>11. ~tangled' <=> Sure(q)
  BY <1>7 DEF Sure, RoleInv, RoleTypeOK
<1>12. Sure(q) => \A x \in Requests : Binding(x) => request[x].role = r.role
  BY <1>1, <1>3, <1>9 DEF RoleInv, SameRole, Sure
<1>13. \A x \in Requests : /\ Binding(x)' => Binding(x)
                           /\ request'[x].role = request[x].role
                           /\ request'[x].pc \notin {"idle", "done"} =>
                                request[x].pc \notin {"idle", "done"}
  BY <1>1, <1>3, <1>4, <1>6 DEF Binding
<1>14. SameRole'
  <2> SUFFICES ASSUME NEW v \in Requests, NEW x \in Requests, Binding(x)',
                      \/ ~tangled' /\ Binding(v)'
                      \/ v \in lone /\ request'[v].pc \notin {"idle", "done"}
               PROVE  request'[v].role = request'[x].role
    BY <1>7 DEF SameRole
  <2>1. CASE ~tangled' /\ Binding(v)'
    BY <1>11, <1>12, <1>13, <2>1
  <2>2. CASE v \in lone /\ request'[v].pc \notin {"idle", "done"}
    BY <1>13, <2>2 DEF RoleInv, SameRole
  <2> QED
    BY <2>1, <2>2
<1>15. ASSUME NEW x \in Requests PROVE Shape(x)' /\ Clears(x)' /\ Enforced(x)'
  <2>1. CASE x = q
    <3>1. Shape(q)'
      BY <1>4, <1>6, <1>7, <1>9 DEF Shape, Binding, Granted
    <3>2. Clears(q)'
      BY <1>4, <1>6 DEF Clears, Binding
    <3>3. Enforced(q)'
      BY <1>4, <1>6, <1>7, <1>10 DEF Enforced, Sure
    <3> QED
      BY <2>1, <3>1, <3>2, <3>3
  <2>2. CASE x # q
    <3>1. PICK t : t = request[x] /\ request'[x] = t
      BY <1>6, <2>2
    <3>2. Shape(x)' /\ Enforced(x)'
      BY <1>7, <3>1 DEF RoleInv, Shape, Enforced, Binding, Granted
    <3>3. Clears(x)'
      <4> SUFFICES ASSUME Binding(x), Sure(x)'
                   PROVE  /\ bound \subseteq {t.role} \cup t.others
                          /\ memo' \subseteq {t.role} \cup t.others \cup {t.other}
                          /\ t.pc = "store" => t.role \in bound
        BY <1>7, <3>1 DEF Clears, Binding
      <4>1. CASE Sure(q)
        BY <1>7, <1>10, <1>12, <3>1, <4>1
      <4>2. CASE ~Sure(q)
        <5>1. Sure(x)
          BY <1>7, <1>11, <4>2 DEF Sure
        <5>2. x \in lone /\ t.pc \notin {"idle", "done"}
          BY <3>1, <4>2, <5>1 DEF Sure, Binding
        <5>3. t.role = r.role
          BY <1>1, <1>9, <3>1, <5>2 DEF RoleInv, SameRole
        <5> QED
          BY <1>7, <3>1, <5>1, <5>3 DEF RoleInv, Clears
      <4> QED
        BY <4>1, <4>2
    <3> QED
      BY <3>2, <3>3
  <2> QED
    BY <2>1, <2>2
<1>16. MemoSound'
  BY <1>7, <1>9, <1>10, <1>11 DEF RoleInv, MemoSound, Granted
<1>17. AnswersMatchRole'
  BY <1>4, <1>6, <1>7, <1>9 DEF RoleInv, RoleTypeOK, AnswersMatchRole
<1> QED
  BY <1>8, <1>14, <1>15, <1>16, <1>17 DEF RoleInv

LEMMA EnforceStep ==
  ASSUME RoleInv, NEW q \in Requests, Enforce(q)
  PROVE  RoleInv'
<1>1. PICK r : r = request[q]
  OBVIOUS
<1>2. PICK answer : answer = IF \E k \in bound : <<k, r.action>> \in policy
                             THEN "allowed" ELSE "denied"
  OBVIOUS
<1>3. PICK s : s = [r EXCEPT !.pc = "done", !.answer = answer]
  OBVIOUS
<1>4. /\ r \in RequestState /\ r.pc = "enforce" /\ Shape(q)
      /\ answer \in {"allowed", "denied"} /\ r.role \in Roles
  BY <1>1, <1>2 DEF Enforce, RoleInv, RoleTypeOK, RequestState
<1>5. /\ s \in RequestState /\ s.pc = "done" /\ s.role = r.role
      /\ s.action = r.action /\ s.answer = answer
  BY <1>3, <1>4 DEF RequestState
<1>6. request' = [request EXCEPT ![q] = s]
  BY <1>1, <1>2, <1>3, <1>4 DEF Enforce, RequestState
<1>7. /\ request' \in [Requests -> RequestState] /\ request'[q] = s
      /\ \A x \in Requests \ {q} : request'[x] = request[x]
  BY <1>5, <1>6, OneRequest DEF RoleInv
<1>8. UNCHANGED <<policy, bound, memo, lone, tangled>>
  BY DEF Enforce
<1>9. SameRole' /\ \A x \in Requests \ {q} : Shape(x)'
  BY <1>1, <1>4, <1>5, <1>6, <1>8, Progress
<1>10. RoleTypeOK'
  BY <1>7, <1>8 DEF RoleInv, RoleTypeOK
<1>11. Shape(q)' /\ Clears(q)' /\ Enforced(q)'
  BY <1>5, <1>7 DEF Shape, Clears, Enforced, Binding
<1>12. ASSUME NEW x \in Requests \ {q} PROVE Clears(x)' /\ Enforced(x)'
  <2>1. PICK t : t = request[x] /\ request'[x] = t
    BY <1>7
  <2> QED
    BY <1>8, <2>1 DEF RoleInv, Clears, Enforced, Sure, Binding
<1>13. MemoSound'
  <2>1. ASSUME NEW x \in Requests, request[x].pc = "forget"
        PROVE  request'[x] = request[x]
    BY <1>1, <1>4, <1>7, <2>1
  <2> QED
    BY <1>8, <2>1 DEF RoleInv, MemoSound, Granted
<1>14. q \in lone => (answer = "allowed" <=> r.action \in rolePermissions[r.role])
  <2> SUFFICES ASSUME q \in lone
               PROVE  answer = "allowed" <=> r.action \in rolePermissions[r.role]
    OBVIOUS
  <2>1. bound = {r.role}
    BY <1>1, <1>4 DEF RoleInv, Enforced
  <2>2. <<r.role, r.action>> \in policy => r.action \in rolePermissions[r.role]
    BY DEF RoleInv, MemoSound
  <2>3. r.action \in rolePermissions[r.role] => <<r.role, r.action>> \in policy
    BY <1>1, <1>4 DEF Shape, Granted
  <2> QED
    BY <1>2, <2>1, <2>2, <2>3
<1>15. AnswersMatchRole'
  BY <1>5, <1>7, <1>8, <1>14 DEF RoleInv, RoleTypeOK, AnswersMatchRole
<1> QED
  BY <1>9, <1>10, <1>11, <1>12, <1>13, <1>15 DEF RoleInv

LEMMA RestartStep ==
  ASSUME RoleInv, Restart
  PROVE  RoleInv'
<1>1. memo' = {} /\ UNCHANGED <<policy, bound, lone, tangled>>
  BY DEF Restart
<1>2. ASSUME NEW x \in Requests
      PROVE  /\ request'[x] \in RequestState
             /\ \/ request'[x] = request[x] /\ request[x].pc \in {"idle", "done"}
                \/ request'[x].pc = "done" /\ request'[x].answer = "error"
  <2>1. PICK r : r = request[x] /\ r \in RequestState
    BY DEF RoleInv, RoleTypeOK
  <2>2. CASE r.pc \in {"idle", "done"}
    BY <2>1, <2>2 DEF Restart
  <2>3. CASE r.pc \notin {"idle", "done"}
    <3>1. PICK s : s = [r EXCEPT !.pc = "done", !.answer = "error"]
      OBVIOUS
    <3>2. request'[x] = s
      BY <2>1, <2>3, <3>1 DEF Restart
    <3>3. s \in RequestState /\ s.pc = "done" /\ s.answer = "error"
      BY <2>1, <3>1 DEF RequestState
    <3> QED
      BY <3>2, <3>3
  <2> QED
    BY <2>2, <2>3
<1>3. RoleTypeOK'
  <2>1. request' = [x \in Requests |-> request'[x]]
    BY DEF Restart
  <2>2. request' \in [Requests -> RequestState]
    BY <1>2, <2>1
  <2> QED
    BY <1>1, <2>2 DEF RoleInv, RoleTypeOK
<1>4. \A x \in Requests : /\ ~Binding(x)' /\ request'[x].pc \in {"idle", "done"}
                          /\ Shape(x)'
  BY <1>1, <1>2 DEF RoleInv, Shape, Binding
<1>5. SameRole' /\ \A x \in Requests : Clears(x)' /\ Enforced(x)'
  BY <1>4 DEF SameRole, Clears, Enforced
<1>6. MemoSound'
  BY <1>1 DEF RoleInv, MemoSound
<1>7. AnswersMatchRole'
  BY <1>1, <1>2 DEF RoleInv, RoleTypeOK, AnswersMatchRole
<1> QED
  BY <1>3, <1>4, <1>5, <1>6, <1>7 DEF RoleInv

LEMMA ReceiveStep ==
  ASSUME RoleInv, NEW q \in Requests, NEW slug, NEW a \in {"read", "write"},
         Receive(q, slug, a)
  PROVE  RoleInv'
<1>1. PICK k : k = NormalizeRole(slug)
  OBVIOUS
<1>2. k \in Roles
  BY <1>1, RoleAssumption DEF NormalizeRole
<1>3. PICK r : r = request[q]
  OBVIOUS
<1>4. PICK s : s = [r EXCEPT !.role = k, !.action = a,
         !.pc = IF k \in memo THEN "enforce" ELSE "grant",
         !.todo = IF k \in memo THEN {} ELSE rolePermissions[k],
         !.others = IF k \in memo THEN {} ELSE Roles \ {k}]
  OBVIOUS
<1>5. /\ r \in RequestState /\ r.pc = "idle" /\ r.answer = ""
      /\ r.other = "none" /\ q \notin lone
  BY <1>3 DEF Receive, RoleInv, RoleTypeOK, Shape
<1>6. /\ s \in RequestState /\ s.role = k /\ s.answer = "" /\ s.other = "none"
      /\ s.pc = (IF k \in memo THEN "enforce" ELSE "grant")
      /\ s.todo = (IF k \in memo THEN {} ELSE rolePermissions[k])
      /\ s.others = (IF k \in memo THEN {} ELSE Roles \ {k})
  BY <1>2, <1>4, <1>5, RoleAssumption DEF RequestState
<1>7. /\ request' = [request EXCEPT ![q] = s]
      /\ lone' = (IF k \in memo THEN lone ELSE {x \in lone : request[x].role = k})
                    \cup (IF Across(q, k) # {} \/ (k \in memo /\ tangled)
                          THEN {} ELSE {q})
      /\ tangled' = (tangled \/ (k \notin memo /\ Across(q, k) # {}))
      /\ UNCHANGED <<policy, bound, memo>>
  BY <1>1, <1>3, <1>4 DEF Receive
<1>8. /\ request' \in [Requests -> RequestState] /\ request'[q] = s
      /\ \A x \in Requests \ {q} : request'[x] = request[x]
  BY <1>6, <1>7, OneRequest DEF RoleInv
<1>9. RoleTypeOK'
  BY <1>7, <1>8 DEF RoleInv, RoleTypeOK
<1>10. \A x \in Requests \ {q} : /\ Binding(x)' <=> Binding(x)
                                 /\ x \in lone' => x \in lone
  BY <1>7, <1>8 DEF Binding
<1>11. tangled \in BOOLEAN /\ (tangled => tangled')
  BY <1>7 DEF RoleInv, RoleTypeOK
<1>12. Across(q, k) = {} =>
         \A x \in Requests \ {q} : Binding(x) => request[x].role = k
  BY DEF Across
<1>13. SameRole'
  <2> SUFFICES ASSUME NEW v \in Requests, NEW x \in Requests, v # x, Binding(x)',
                      \/ ~tangled' /\ Binding(v)'
                      \/ v \in lone' /\ request'[v].pc \notin {"idle", "done"}
               PROVE  request'[v].role = request'[x].role
    BY DEF SameRole
  <2>1. CASE v # q /\ x # q
    BY <1>8, <1>10, <1>11, <2>1 DEF RoleInv, SameRole, Binding
  <2>2. CASE v = q
    <3>1. Binding(x) /\ request'[x] = request[x]
      BY <1>8, <1>10, <2>2
    <3>2. Across(q, k) = {}
      <4>1. CASE ~tangled' /\ Binding(q)'
        BY <1>6, <1>7, <1>8, <4>1 DEF Binding
      <4>2. CASE q \in lone'
        BY <1>5, <1>7, <4>2
      <4> QED
        BY <2>2, <4>1, <4>2
    <3> QED
      BY <1>6, <1>8, <1>12, <2>2, <3>1, <3>2
  <2>3. CASE x = q
    <3>1. k \notin memo
      BY <1>6, <1>8, <2>3 DEF Binding
    <3>2. CASE ~tangled' /\ Binding(v)'
      BY <1>6, <1>7, <1>8, <1>10, <1>12, <2>3, <3>1, <3>2
    <3>3. CASE v \in lone' /\ v # q
      BY <1>6, <1>7, <1>8, <2>3, <3>1, <3>3
    <3> QED
      BY <2>3, <3>2, <3>3
  <2> QED
    BY <2>1, <2>2, <2>3
<1>14. Shape(q)'
  <2>1. CASE k \in memo
    <3>1. Granted(k)
      BY <2>1 DEF RoleInv, MemoSound
    <3> QED
      BY <1>6, <1>7, <1>8, <2>1, <3>1 DEF Shape, Binding, Granted
  <2>2. CASE k \notin memo
    BY <1>6, <1>7, <1>8, <2>2 DEF Shape, Binding
  <2> QED
    BY <2>1, <2>2
<1>15. Clears(q)'
  <2>1. CASE k \in memo
    BY <1>6, <1>8, <2>1 DEF Clears, Binding
  <2>2. CASE k \notin memo
    BY <1>2, <1>6, <1>7, <1>8, <2>2 DEF Clears, RoleInv, RoleTypeOK
  <2> QED
    BY <2>1, <2>2
<1>16. Enforced(q)'
  <2> SUFFICES ASSUME q \in lone', k \in memo
               PROVE  bound = {k}
    BY <1>6, <1>7, <1>8 DEF Enforced
  <2>1. Across(q, k) = {} /\ ~tangled
    BY <1>5, <1>7
  <2>2. \A x \in Requests : request[x].pc = "forget" => request[x].other # k
    <3> SUFFICES ASSUME NEW x \in Requests, request[x].pc = "forget",
                        request[x].other = k
                 PROVE  FALSE
      OBVIOUS
    <3>1. Binding(x) /\ x # q
      BY <1>3, <1>5 DEF Binding
    <3>2. request[x].role = k
      BY <1>12, <2>1, <3>1
    <3>3. request[x].other # request[x].role
      BY DEF RoleInv, Shape
    <3> QED
      BY <3>2, <3>3
  <2>3. k \in bound
    BY <2>1, <2>2 DEF RoleInv, MemoSound
  <2> QED
    BY <2>1, <2>3 DEF RoleInv, MemoSound
<1>17. ASSUME NEW x \in Requests \ {q}
       PROVE  Shape(x)' /\ Clears(x)' /\ Enforced(x)'
  <2>1. PICK t : t = request[x] /\ request'[x] = t
    BY <1>8
  <2>2. Shape(x)'
    <3>1. Shape(x) /\ policy' = policy /\ (x \in lone' => x \in lone)
      BY <1>7, <1>10 DEF RoleInv
    <3> QED
      BY <2>1, <3>1 DEF Shape, Binding, Granted
  <2>3. Clears(x)' /\ Enforced(x)'
    BY <1>7, <1>10, <1>11, <2>1 DEF RoleInv, Clears, Enforced, Sure, Binding
  <2> QED
    BY <2>2, <2>3
<1>18. MemoSound'
  <2>1. ASSUME NEW x \in Requests, request[x].pc = "forget"
        PROVE  request'[x] = request[x]
    BY <1>3, <1>5, <1>8, <2>1
  <2> QED
    BY <1>7, <1>11, <2>1 DEF RoleInv, MemoSound, Granted
<1>19. AnswersMatchRole'
  <2>1. s.answer \notin {"allowed", "denied"}
    BY <1>6
  <2> QED
    BY <1>8, <1>9, <1>10, <2>1 DEF RoleInv, RoleTypeOK, AnswersMatchRole
<1> QED
  BY <1>9, <1>13, <1>14, <1>15, <1>16, <1>17, <1>18, <1>19 DEF RoleInv

-----------------------------------------------------------------------------
(* The mirror.                                                             *)

LEMMA MemInitSound == MemInit => MemInv
<1> SUFFICES ASSUME MemInit PROVE MemInv
  OBVIOUS
<1>1. changes = <<>> /\ pending = {} /\ newest = 0
  BY DEF MemInit
<1>2. changes \in Seq(Slugs \cup {NotMember}) /\ Len(changes) = 0
  BY <1>1
<1>3. 1 .. Len(changes) = {}
  BY <1>2
<1>4. /\ Len(changes) <= MaxChanges /\ pending \subseteq 1 .. Len(changes)
      /\ logins \in 0 .. MaxLogins /\ newest \in 0 .. Len(changes)
  BY <1>1, <1>2, MembershipAssumption DEF MemInit
<1>5. /\ organization \in BOOLEAN /\ user \in BOOLEAN /\ reordered \in BOOLEAN
      /\ membership \in Roles \cup {NotMember}
  BY DEF MemInit
<1> QED
  BY <1>1, <1>2, <1>3, <1>4, <1>5 DEF MemInv, MemTypeOK

(* What the invariant says of the numbers.                                 *)
LEMMA MemNumbers ==
  ASSUME MemInv
  PROVE  /\ Len(changes) \in Nat /\ newest \in Nat /\ newest <= Len(changes)
         /\ pending \subseteq 1 .. Len(changes)
         /\ \A n \in 1 .. Len(changes) : changes[n] \in Slugs \cup {NotMember}
         /\ reordered \in BOOLEAN
<1>1. changes \in Seq(Slugs \cup {NotMember})
  BY DEF MemInv, MemTypeOK
<1>2. Len(changes) \in Nat
  BY <1>1
<1>3. \A n \in 1 .. Len(changes) : changes[n] \in Slugs \cup {NotMember}
  BY <1>1
<1> QED
  BY <1>2, <1>3 DEF MemInv, MemTypeOK

(* The role an event stands for is one of the service.                     *)
LEMMA RoleOfSlug ==
  \A slug : NormalizeRole(slug) \in Roles
BY RoleAssumption DEF NormalizeRole

LEMMA ChangeStep ==
  ASSUME MemInv, NEW slug \in Slugs \cup {NotMember}, ChangeMembership(slug)
  PROVE  MemInv'
<1>1. changes \in Seq(Slugs \cup {NotMember})
  BY DEF MemInv, MemTypeOK
<1>2. /\ changes' = Append(changes, slug) /\ Len(changes) < MaxChanges
      /\ pending' = pending \cup {Len(changes) + 1}
      /\ UNCHANGED <<organization, user, membership, logins, newest, reordered>>
  BY DEF ChangeMembership
<1>3. /\ changes' \in Seq(Slugs \cup {NotMember})
      /\ Len(changes') = Len(changes) + 1
      /\ \A n \in 1 .. Len(changes) : changes'[n] = changes[n]
  BY <1>1, <1>2
<1>4. Len(changes') <= MaxChanges
  BY <1>2, <1>3, MemNumbers, MembershipAssumption
<1>5. pending' \subseteq 1 .. Len(changes') /\ newest' \in 0 .. Len(changes')
  BY <1>2, <1>3, MemNumbers
<1>6. MemTypeOK'
  BY <1>2, <1>3, <1>4, <1>5 DEF MemInv, MemTypeOK
<1>7. ASSUME NEW n \in 1 .. Len(changes')
      PROVE  n \in pending' \/ n <= newest'
  <2>1. n \in 1 .. Len(changes) \/ n = Len(changes) + 1
    BY <1>3, MemNumbers
  <2> QED
    BY <1>2, <2>1 DEF MemInv
<1>8. newest > 0 => changes'[newest] = changes[newest]
  BY <1>3, MemNumbers
<1> QED
  BY <1>2, <1>6, <1>7, <1>8 DEF MemInv, NormalizeRole

LEMMA HandleMembershipStep ==
  ASSUME MemInv, NEW n \in pending, HandleMembership(n)
  PROVE  MemInv'
<1>1. n \in 1 .. Len(changes) /\ n \in Nat
  BY MemNumbers
<1>2. /\ membership' = IF changes[n] = NotMember THEN NotMember
                       ELSE NormalizeRole(changes[n])
      /\ pending' \in {pending, pending \ {n}}
      /\ newest' = IF n > newest THEN n ELSE newest
      /\ reordered' = (reordered \/ n < newest)
      /\ UNCHANGED <<organization, user, changes, logins>>
  BY DEF HandleMembership, StoreMembership
<1>3. membership' \in Roles \cup {NotMember}
  BY <1>2, RoleOfSlug
<1>4. newest' \in 0 .. Len(changes) /\ newest <= newest' /\ n <= newest'
  BY <1>1, <1>2, MemNumbers
<1>5. pending' \subseteq 1 .. Len(changes) /\ reordered' \in BOOLEAN
  BY <1>2, MemNumbers
<1>6. MemTypeOK'
  BY <1>2, <1>3, <1>4, <1>5 DEF MemInv, MemTypeOK
<1>7. ASSUME NEW i \in 1 .. Len(changes')
      PROVE  i \in pending' \/ i <= newest'
  <2>1. i \in Nat /\ (i \in pending \/ i <= newest)
    BY <1>2, MemNumbers DEF MemInv
  <2> QED
    BY <1>2, <1>4, <2>1, MemNumbers
<1>8. ~reordered' => newest' = n
  <2>1. ~(n < newest) => newest' = n
    BY <1>1, <1>2, MemNumbers
  <2>2. ~reordered' => ~(n < newest)
    BY <1>2
  <2> QED
    BY <2>1, <2>2
<1> QED
  BY <1>2, <1>6, <1>7, <1>8 DEF MemInv, NormalizeRole

(* A row that is there keeps its role; a seeded one is out of order if     *)
(* events were stored before.                                              *)
LEMMA SeedStep ==
  ASSUME MemInv,
         UNCHANGED <<changes, pending, newest>>,
         organization' \in BOOLEAN, user' \in BOOLEAN,
         logins' = logins + 1, logins < MaxLogins,
         \/ UNCHANGED <<membership, reordered>>
         \/ /\ Seed
            /\ reordered' = (reordered \/ (membership = NotMember /\ newest > 0))
  PROVE  MemInv'
<1>1. logins' \in 0 .. MaxLogins
  BY MembershipAssumption DEF MemInv, MemTypeOK
<1>2. membership' \in Roles \cup {NotMember}
  BY RoleAssumption DEF MemInv, MemTypeOK, Seed
<1>3. reordered' \in BOOLEAN
  BY MemNumbers
<1>4. MemTypeOK'
  BY <1>1, <1>2, <1>3 DEF MemInv, MemTypeOK
<1>5. ~reordered' /\ newest > 0 => ~reordered /\ membership' = membership
  <2>1. CASE UNCHANGED <<membership, reordered>>
    BY <2>1
  <2>2. CASE /\ Seed
             /\ reordered' = (reordered \/ (membership = NotMember /\ newest > 0))
    BY <2>2 DEF Seed
  <2> QED
    BY <2>1, <2>2
<1> QED
  BY <1>4, <1>5 DEF MemInv, NormalizeRole

LEMMA MemStep ==
  ASSUME MemInv, MemNext
  PROVE  MemInv'
<1>1. CASE \E slug \in Slugs \cup {NotMember} : ChangeMembership(slug)
  BY <1>1, ChangeStep
<1>2. CASE HandleOrg \/ HandleUser
  BY <1>2 DEF MemInv, MemTypeOK, NormalizeRole, HandleOrg, HandleUser,
              UpsertOrg, UpsertUser
<1>3. CASE \E n \in pending : HandleMembership(n)
  BY <1>3, HandleMembershipStep
<1>4. CASE Login
  <2>1. organization \in BOOLEAN /\ user \in BOOLEAN
    BY DEF MemInv, MemTypeOK
  <2>2. /\ UNCHANGED <<changes, pending, newest>>
        /\ logins' = logins + 1 /\ logins < MaxLogins
        /\ organization' \in BOOLEAN /\ user' \in BOOLEAN
        /\ \/ UNCHANGED <<membership, reordered>>
           \/ /\ Seed
              /\ reordered' = (reordered \/ (membership = NotMember /\ newest > 0))
    BY <1>4, <2>1 DEF Login, UpsertOrg, UpsertUser
  <2> QED
    BY <2>2, SeedStep
<1>5. CASE UpdatePreferences
  <2>1. organization \in BOOLEAN /\ user \in BOOLEAN
    BY DEF MemInv, MemTypeOK
  <2> QED
    BY <1>5, <2>1, SeedStep DEF UpdatePreferences
<1> QED
  BY <1>1, <1>2, <1>3, <1>4, <1>5 DEF MemNext

LEMMA MirrorSound == MemInv => MirrorFollows
<1> SUFFICES ASSUME MemInv, pending = {}, changes # <<>>, ~reordered
             PROVE  membership = IF Workos = NotMember THEN NotMember
                                 ELSE NormalizeRole(Workos)
  BY DEF MirrorFollows
<1>1. Len(changes) \in Nat /\ Len(changes) > 0
  BY DEF MemInv, MemTypeOK
<1>2. Len(changes) <= newest /\ newest \in 0 .. Len(changes)
  BY <1>1 DEF MemInv, MemTypeOK
<1>3. newest = Len(changes) /\ newest > 0
  BY <1>1, <1>2
<1> QED
  BY <1>3 DEF MemInv, Workos

-----------------------------------------------------------------------------
(* Both together.                                                          *)

LEMMA RoleStutter ==
  ASSUME RoleInv, UNCHANGED roleVars
  PROVE  RoleInv'
<1>1. RoleTypeOK'
  BY DEF RoleInv, roleVars, RoleTypeOK
<1>2. ASSUME NEW q \in Requests
      PROVE  Shape(q)' /\ Clears(q)' /\ Enforced(q)'
  <2>1. Shape(q)'
    BY DEF RoleInv, roleVars, Shape, Binding, Granted
  <2>2. Clears(q)'
    BY DEF RoleInv, roleVars, Clears, Sure, Binding
  <2>3. Enforced(q)'
    BY DEF RoleInv, roleVars, Enforced
  <2> QED
    BY <2>1, <2>2, <2>3
<1>3. SameRole'
  BY DEF RoleInv, roleVars, SameRole, Binding
<1>4. MemoSound'
  BY DEF RoleInv, roleVars, MemoSound, Granted
<1>5. AnswersMatchRole'
  BY DEF RoleInv, roleVars, AnswersMatchRole
<1> QED
  BY <1>1, <1>2, <1>3, <1>4, <1>5 DEF RoleInv

LEMMA MemStutter ==
  ASSUME MemInv, UNCHANGED memVars
  PROVE  MemInv'
BY DEF MemInv, memVars, MemTypeOK, NormalizeRole

LEMMA RoleStepSound ==
  ASSUME RoleInv, NEW q \in Requests, RoleStep(q)
  PROVE  RoleInv'
<1>1. CASE \E a \in {"read", "write"} : AddPolicy(q, a)
  BY <1>1, AddPolicyStep
<1>2. CASE \E o \in Roles : RemoveGroupingPolicy(q, o)
  BY <1>2, UnbindStep
<1>3. CASE Forget(q)
  BY <1>3, ForgetStep
<1>4. CASE AddGroupingPolicy(q)
  BY <1>4, BindStep
<1>5. CASE Store(q)
  BY <1>5, StoreStep
<1>6. CASE FailBinding(q)
  BY <1>6, FailStep
<1>7. CASE Enforce(q)
  BY <1>7, EnforceStep
<1> QED
  BY <1>1, <1>2, <1>3, <1>4, <1>5, <1>6, <1>7 DEF RoleStep

LEMMA AccessInductive == AccessSpec => [](RoleInv /\ MemInv)
<1>1. AccessInit => RoleInv /\ MemInv
  BY RoleInitSound, MemInitSound DEF AccessInit
<1>2. RoleInv /\ MemInv /\ [AccessNext]_accessVars => (RoleInv /\ MemInv)'
  <2> SUFFICES ASSUME RoleInv, MemInv, [AccessNext]_accessVars
               PROVE  RoleInv' /\ MemInv'
    OBVIOUS
  <2>1. ASSUME NEW q \in Requests, NEW slug \in Slugs,
               NEW a \in {"read", "write"}, Authenticate(q, slug, a)
        PROVE  RoleInv' /\ MemInv'
    BY <2>1, ReceiveStep, MemStutter DEF Authenticate
  <2>2. CASE /\ (\E q \in Requests : RoleStep(q)) \/ Restart
             /\ UNCHANGED <<memVars, tokens>>
    BY <2>2, RoleStepSound, RestartStep, MemStutter
  <2>3. CASE MemNext /\ UNCHANGED <<roleVars, tokens>>
    BY <2>3, MemStep, RoleStutter
  <2>4. CASE IssueToken \/ ExpireToken
    BY <2>4, RoleStutter, MemStutter DEF IssueToken, ExpireToken
  <2>5. CASE UNCHANGED accessVars
    BY <2>5, RoleStutter, MemStutter DEF accessVars
  <2> QED
    BY <2>1, <2>2, <2>3, <2>4, <2>5 DEF AccessNext
<1> QED
  BY <1>1, <1>2, PTL DEF AccessSpec

(* Every variable of both parts stays in its type.                         *)
THEOREM AccessTypeCorrect == AccessSpec => [](RoleTypeOK /\ MemTypeOK)
<1>1. RoleInv /\ MemInv => RoleTypeOK /\ MemTypeOK
  BY DEF RoleInv, MemInv
<1> QED
  BY <1>1, AccessInductive, PTL

(* Unless bindings of two roles overlapped, what the process remembers is  *)
(* bound, and with no binding under way the user has at most one role.     *)
THEOREM OneRole == AccessSpec => []OneRoleBound
<1>1. RoleInv => OneRoleBound
  <2> SUFFICES ASSUME RoleInv, ~tangled, \A q \in Requests : ~Binding(q)
               PROVE  memo \subseteq bound /\ Cardinality(bound) <= 1
    BY DEF OneRoleBound
  <2>1. memo \subseteq bound
    <3>1. \A x \in Requests : request[x].pc # "forget"
      BY DEF Binding
    <3> QED
      BY <3>1 DEF RoleInv, MemoSound
  <2>2. \A x, y \in bound : x = y
    BY DEF RoleInv, MemoSound
  <2>3. CASE bound = {}
    BY <2>1, <2>3, FS_EmptySet
  <2>4. CASE bound # {}
    <3>1. PICK r : r \in bound
      BY <2>4
    <3>2. bound = {r}
      BY <2>2, <3>1
    <3>3. Cardinality({r}) = 1
      BY FS_Singleton
    <3> QED
      BY <2>1, <3>2, <3>3
  <2> QED
    BY <2>3, <2>4
<1> QED
  BY <1>1, AccessInductive, PTL

(* A request no binding of another role came across is answered by the     *)
(* permissions of its role, however many others run, fail or are cut off.  *)
THEOREM RoleAnswers == AccessSpec => []AnswersMatchRole
<1>1. RoleInv => AnswersMatchRole
  BY DEF RoleInv
<1> QED
  BY <1>1, AccessInductive, PTL

(* Once every event is accepted, and none came out of order, the mirror    *)
(* has the role WorkOS has.                                                *)
THEOREM MirrorIsWorkos == AccessSpec => []MirrorFollows
<1>1. MemInv => MirrorFollows
  BY MirrorSound
<1> QED
  BY <1>1, AccessInductive, PTL

=============================================================================
