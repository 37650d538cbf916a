--------------------------- MODULE SoftHoldsProofs ---------------------------
(***************************************************************************)
(* Proofs about SoftHolds for every set of guests, workers, tokens, stays  *)
(* and windows and any number of requests.                                 *)
(***************************************************************************)
EXTENDS SoftHolds, TLAPS

(* The shape of a request at each phase: a search offers stays it has      *)
(* decided on, keeps others for later, and never gets to the PMS's quote.  *)
(* The token of a request was drawn, and a held quote has one.             *)
RequestSound(r) ==
  r.pc # "idle" =>
    /\ r.kind = "quote" => r.offered = {} /\ r.left = {}
    /\ r.pc \in {"pms", "place"} => r.kind = "quote"
    /\ r.pc # "done" => r.outcome = "none"
    /\ r.token \in issued \cup {None}
    /\ r.outcome = "held" => r.kind = "quote" /\ r.token # None
    /\ r.pc \in {"list", "load"} =>
         /\ r.stay \notin r.offered \cup r.left
         /\ r.left \cap r.offered = {}

(* A listed hold that was there when the list was read is still to be      *)
(* read, or was read as it is now.                                         *)
HoldsRead(r) ==
  r.pc = "load" =>
    \A t \in Tokens :
      (Listed(t) /\ t \notin r.since[r.stay]) =>
        \/ t \in r.todo
        \/ \E f \in r.found : f.token = t /\ f.hold = hold[t]

(* A listed hold that was there when the list was read does not compete    *)
(* with a quote that passed the check.                                     *)
Cleared(r) ==
  r.pc \in {"pms", "place"} =>
    \A t \in Tokens :
      (Listed(t) /\ t \notin r.since[r.stay] /\ t # r.token) =>
        SameStay(hold[t].stay, r.stay) \/ ~Rivals(hold[t].stay, r.stay)

(* A listed hold older than the reading does not compete with an offer.    *)
OffersStand(r) ==
  (r.pc # "idle") =>
    \A t \in Tokens : Listed(t) =>
      \A s \in r.offered : Rivals(hold[t].stay, s) => t \in r.since[s]

HoldsInv ==
  /\ TypeOK
  /\ \A w \in Workers : /\ RequestSound(req[w]) /\ HoldsRead(req[w])
                        /\ Cleared(req[w]) /\ OffersStand(req[w])
  /\ RivalsOnlyIfConcurrent

(* Holds go and none comes: what expires and what is pruned.               *)
NoNewHolds ==
  \A t \in Tokens : Listed(t)' => Listed(t) /\ hold'[t] = hold[t]

-----------------------------------------------------------------------------
(* Types.                                                                  *)

LEMMA IdleFacts == Idle.pc = "idle" /\ Idle \notin Request
<1>1. Idle.pc = "idle"
  BY DEF Idle
<1>2. \A r \in Request : r.pc \in Phases /\ r.guest \in Guests
  BY DEF Request
<1>3. "guest" \notin DOMAIN Idle
  BY DEF Idle
<1>4. \A r \in Request : "guest" \in DOMAIN r
  BY DEF Request
<1> QED
  BY <1>1, <1>3, <1>4

LEMMA BusyIsRequest ==
  ASSUME TypeOK, NEW w \in Workers, req[w].pc # "idle"
  PROVE  req[w] \in Request
BY IdleFacts DEF TypeOK

(* A step that changes the request of one worker keeps the others' types.  *)
LEMMA OneRequestChanges ==
  ASSUME req \in [Workers -> Request \cup {Idle}], NEW w \in Workers,
         NEW r \in Request \cup {Idle}, req' = [req EXCEPT ![w] = r]
  PROVE  /\ req' \in [Workers -> Request \cup {Idle}]
         /\ req'[w] = r
         /\ \A v \in Workers \ {w} : req'[v] = req[v]
OBVIOUS

(* What a search is after it decided on one stay.                          *)
LEMMA SearchedFields ==
  ASSUME NEW q \in Request, NEW r \in Searched(q), q.stay \notin q.offered
  PROVE  /\ r \in Request
         /\ r.kind = q.kind /\ r.guest = q.guest /\ r.token = q.token
         /\ r.todo = {} /\ r.found = {} /\ r.by = q.by
         /\ \/ r.offered = q.offered
            \/ /\ r.offered = q.offered \cup {q.stay}
               /\ \A f \in q.found : ~Hides(f, q)
         /\ \A s \in r.offered : r.since[s] = q.since[s]
         /\ \/ r.pc = "done" /\ r.outcome = "answered"
            \/ /\ r.pc = "list" /\ r.stay \in q.left
               /\ r.left = q.left \ {r.stay} /\ r.outcome = q.outcome
<1> DEFINE hidden == \E f \in q.found : Hides(f, q)
           offered == IF hidden THEN q.offered ELSE q.offered \cup {q.stay}
           since == [q.since EXCEPT ![q.stay] = IF hidden THEN {} ELSE @]
           decided == [q EXCEPT
             !.todo = {}, !.found = {}, !.stale = {},
             !.offered = IF hidden THEN @ ELSE @ \cup {q.stay},
             !.since[q.stay] = IF hidden THEN {} ELSE @]
<1>1. q.stay \in Stays /\ q.offered \in SUBSET Stays
      /\ q.since \in [Stays -> SUBSET Tokens] /\ q.left \in SUBSET Stays
  BY DEF Request
<1>2. offered \in SUBSET Stays /\ since \in [Stays -> SUBSET Tokens]
  BY <1>1
<1>3. decided = [q EXCEPT !.todo = {}, !.found = {}, !.stale = {},
                          !.offered = offered, !.since = since]
  BY DEF Request
<1>4. /\ offered = q.offered
         \/ /\ offered = q.offered \cup {q.stay}
            /\ \A f \in q.found : ~Hides(f, q)
      /\ \A s \in offered : since[s] = q.since[s]
  BY <1>1
<1>5. r \in (IF q.left = {}
            THEN {[decided EXCEPT !.pc = "done", !.outcome = "answered"]}
            ELSE {[decided EXCEPT !.pc = "list", !.stay = s, !.left = @ \ {s}] :
                    s \in q.left})
  BY DEF Searched
<1> HIDE DEF decided, offered, since
<1>6. /\ decided \in Request
      /\ decided.kind = q.kind /\ decided.guest = q.guest
      /\ decided.token = q.token /\ decided.todo = {} /\ decided.found = {}
      /\ decided.by = q.by /\ decided.offered = offered
      /\ decided.since = since /\ decided.left = q.left
      /\ decided.outcome = q.outcome
  BY <1>2, <1>3 DEF Request
<1>7. CASE r = [decided EXCEPT !.pc = "done", !.outcome = "answered"]
  <2>1. r \in Request /\ r.pc = "done" /\ r.outcome = "answered"
    BY <1>6, <1>7 DEF Request, Phases, Outcomes
  <2>2. /\ r.kind = q.kind /\ r.guest = q.guest /\ r.token = q.token
        /\ r.todo = {} /\ r.found = {} /\ r.by = q.by
        /\ r.offered = offered /\ r.since = since
    BY <1>6, <1>7 DEF Request
  <2> QED
    BY <2>1, <2>2, <1>4
<1>8. CASE \E s \in q.left :
             r = [decided EXCEPT !.pc = "list", !.stay = s, !.left = @ \ {s}]
  <2>1. PICK s \in q.left :
          r = [decided EXCEPT !.pc = "list", !.stay = s, !.left = @ \ {s}]
    BY <1>8
  <2>2. r = [decided EXCEPT !.pc = "list", !.stay = s, !.left = q.left \ {s}]
    BY <2>1, <1>6
  <2>3. s \in Stays /\ q.left \ {s} \in SUBSET Stays
    BY <1>1
  <2>4. r \in Request /\ r.pc = "list" /\ r.stay = s
        /\ r.left = q.left \ {s} /\ r.outcome = q.outcome
    BY <1>6, <2>2, <2>3 DEF Request, Phases
  <2>5. /\ r.kind = q.kind /\ r.guest = q.guest /\ r.token = q.token
        /\ r.todo = {} /\ r.found = {} /\ r.by = q.by
        /\ r.offered = offered /\ r.since = since
    BY <1>6, <2>2 DEF Request
  <2> QED
    BY <2>4, <2>5, <1>4
<1> QED
  BY <1>5, <1>7, <1>8

(* What a quote is after it decided.                                       *)
LEMMA CheckedFields ==
  ASSUME NEW q \in Request, NEW r \in Checked(q)
  PROVE  /\ r \in Request
         /\ r.kind = q.kind /\ r.guest = q.guest /\ r.stay = q.stay
         /\ r.token = q.token /\ r.found = q.found /\ r.offered = q.offered
         /\ r.since = q.since /\ r.left = q.left
         /\ \/ /\ r.pc = "pms" /\ r.outcome = q.outcome
               /\ \A f \in q.found : ~Blocks(f, q)
            \/ /\ r.pc = "done" /\ r.outcome = "refused"
               /\ \E f \in q.found : Blocks(f, q) /\ f.hold.guest \in r.by
               /\ \A g \in r.by :
                    \E f \in q.found : Blocks(f, q) /\ f.hold.guest = g
<1> DEFINE blocks == {f \in q.found : Blocks(f, q)}
           by == {f.hold.guest : f \in blocks}
<1>1. by \in SUBSET Guests
  BY DEF Request, Hold
<1>2. CASE blocks = {} /\ r = [q EXCEPT !.pc = "pms"]
  BY <1>2 DEF Request, Phases
<1>3. CASE blocks # {} /\ r = [q EXCEPT !.pc = "done", !.outcome = "refused",
                                        !.by = by]
  <2>1. /\ \E f \in q.found : Blocks(f, q) /\ f.hold.guest \in by
        /\ \A g \in by : \E f \in q.found : Blocks(f, q) /\ f.hold.guest = g
    BY <1>3
  <2> HIDE DEF by
  <2>2. /\ r \in Request
        /\ r.kind = q.kind /\ r.guest = q.guest /\ r.stay = q.stay
        /\ r.token = q.token /\ r.found = q.found /\ r.offered = q.offered
        /\ r.since = q.since /\ r.left = q.left
        /\ r.pc = "done" /\ r.outcome = "refused" /\ r.by = by
    BY <1>1, <1>3 DEF Request, Phases, Outcomes
  <2> QED
    BY <2>1, <2>2
<1> QED
  BY <1>2, <1>3 DEF Checked

LEMMA RivalsSymmetric ==
  ASSUME NEW a \in Stays, NEW b \in Stays
  PROVE  Rivals(a, b) <=> Rivals(b, a)
<1>1. Overlaps(a, b) <=> Overlaps(b, a)
  BY HoldsAssumption DEF Overlaps
<1>2. SharesRoom(a, b) <=> SharesRoom(b, a)
  BY DEF SharesRoom
<1> QED
  BY <1>1, <1>2 DEF Rivals

LEMMA IdleSound ==
  ASSUME NEW r, r = Idle
  PROVE  RequestSound(r) /\ HoldsRead(r) /\ Cleared(r) /\ OffersStand(r)
BY IdleFacts DEF RequestSound, HoldsRead, Cleared, OffersStand

(* What holds of a request is not undone by holds that go.                 *)
LEMMA StaysSound ==
  ASSUME NoNewHolds, issued \subseteq issued', NEW r,
         RequestSound(r), HoldsRead(r), Cleared(r), OffersStand(r)
  PROVE  /\ RequestSound(r)' /\ HoldsRead(r)'
         /\ Cleared(r)' /\ OffersStand(r)'
<1>1. RequestSound(r)'
  BY DEF RequestSound
<1>2. HoldsRead(r)'
  BY DEF HoldsRead, NoNewHolds
<1>3. Cleared(r)'
  BY DEF Cleared, NoNewHolds
<1>4. OffersStand(r)'
  BY DEF OffersStand, NoNewHolds
<1> QED
  BY <1>1, <1>2, <1>3, <1>4

LEMMA RivalsStay ==
  ASSUME RivalsOnlyIfConcurrent, NoNewHolds, UNCHANGED unseen
  PROVE  RivalsOnlyIfConcurrent'
BY DEF RivalsOnlyIfConcurrent, NoNewHolds

(* A step of one request during which no hold comes.                       *)
LEMMA QuietStep ==
  ASSUME HoldsInv, NoNewHolds, UNCHANGED unseen, issued \subseteq issued',
         TypeOK',
         NEW w \in Workers, NEW r, req' = [req EXCEPT ![w] = r],
         RequestSound(r)', HoldsRead(r)', Cleared(r)', OffersStand(r)'
  PROVE  HoldsInv'
<1>1. ASSUME NEW v \in Workers
      PROVE  /\ RequestSound(req[v])' /\ HoldsRead(req[v])'
             /\ Cleared(req[v])' /\ OffersStand(req[v])'
  <2>1. CASE v = w
    <3>1. req'[v] = r
      BY <2>1 DEF HoldsInv, TypeOK
    <3> QED
      BY <3>1 DEF RequestSound, HoldsRead, Cleared, OffersStand
  <2>2. CASE v # w
    <3>1. PICK q : q = req[v]
      OBVIOUS
    <3>2. req'[v] = q
      BY <2>2, <3>1 DEF HoldsInv, TypeOK
    <3>3. RequestSound(q) /\ HoldsRead(q) /\ Cleared(q) /\ OffersStand(q)
      BY <3>1 DEF HoldsInv
    <3>4. /\ RequestSound(q)' /\ HoldsRead(q)'
          /\ Cleared(q)' /\ OffersStand(q)'
      BY <3>3, StaysSound
    <3> QED
      BY <3>2, <3>4 DEF RequestSound, HoldsRead, Cleared, OffersStand
  <2> QED
    BY <2>1, <2>2
<1>2. RivalsOnlyIfConcurrent'
  BY RivalsStay DEF HoldsInv
<1> QED
  BY <1>1, <1>2 DEF HoldsInv

(* The same, from what holds before the step.                              *)
LEMMA RequestMoves ==
  ASSUME HoldsInv, NEW w \in Workers, NEW r \in Request \cup {Idle},
         req' = [req EXCEPT ![w] = r], UNCHANGED <<hold, issued, unseen>>,
         index' \subseteq index, client' \in [Guests -> issued \cup {None}],
         strayed' \subseteq Guests,
         RequestSound(r), HoldsRead(r), Cleared(r), OffersStand(r)
  PROVE  HoldsInv'
<1>1. NoNewHolds
  BY DEF NoNewHolds, Listed, Live
<1>2. req' \in [Workers -> Request \cup {Idle}]
  BY OneRequestChanges DEF HoldsInv, TypeOK
<1>3. TypeOK'
  BY <1>2 DEF HoldsInv, TypeOK, Live
<1>4. /\ RequestSound(r)' /\ HoldsRead(r)'
      /\ Cleared(r)' /\ OffersStand(r)'
  BY <1>1, StaysSound
<1> QED
  BY <1>1, <1>3, <1>4, QuietStep

-----------------------------------------------------------------------------
(* The steps.                                                              *)

LEMMA ArriveKeepsInv ==
  ASSUME HoldsInv, NEW w \in Workers, NEW g \in Guests, NEW s \in Stays,
         NEW kind \in {"quote", "search"}, NEW token \in issued \cup {None},
         NEW others \in SUBSET Stays, s \notin others,
         kind = "quote" => others = {}, Arrive(w, g, s, kind, token, others)
  PROVE  HoldsInv'
<1>1. PICK r : r =
       [pc |-> "list", kind |-> kind, guest |-> g, stay |-> s, token |-> token,
        todo |-> {}, found |-> {}, stale |-> {}, left |-> others,
        offered |-> {}, since |-> NothingSince, by |-> {}, outcome |-> "none"]
  OBVIOUS
<1>2. NothingSince \in [Stays -> SUBSET Tokens]
  BY DEF NothingSince
<1>3. r \in Request
  BY <1>1, <1>2 DEF Request, Phases, Outcomes, HoldsInv, TypeOK
<1>4. RequestSound(r) /\ HoldsRead(r) /\ Cleared(r) /\ OffersStand(r)
  BY <1>1 DEF RequestSound, HoldsRead, Cleared, OffersStand
<1>5. /\ req' = [req EXCEPT ![w] = r]
      /\ UNCHANGED <<hold, index, client, issued, unseen>>
      /\ strayed' \subseteq Guests
  BY <1>1 DEF Arrive, HoldsInv, TypeOK
<1> QED
  BY <1>3, <1>4, <1>5, RequestMoves DEF HoldsInv, TypeOK

LEMMA ListKeepsInv ==
  ASSUME HoldsInv, NEW w \in Workers, ListHolds(w)
  PROVE  HoldsInv'
<1>1. PICK q : q = req[w]
  OBVIOUS
<1>2. q \in Request /\ q.pc = "list"
  BY <1>1, BusyIsRequest DEF HoldsInv, ListHolds
<1>3. PICK r : r = [q EXCEPT !.pc = "load", !.todo = index]
  OBVIOUS
<1>4. r \in Request
  BY <1>2, <1>3 DEF Request, Phases, HoldsInv, TypeOK
<1>5. /\ r.pc = "load" /\ r.todo = index /\ r.kind = q.kind
      /\ r.offered = q.offered /\ r.left = q.left /\ r.since = q.since
      /\ r.stay = q.stay /\ r.outcome = q.outcome /\ r.token = q.token
  BY <1>2, <1>3 DEF Request
<1>6. RequestSound(q) /\ OffersStand(q)
  BY <1>1 DEF HoldsInv
<1>7. RequestSound(r) /\ HoldsRead(r) /\ Cleared(r) /\ OffersStand(r)
  BY <1>2, <1>5, <1>6
  DEF RequestSound, HoldsRead, Cleared, OffersStand, Listed
<1> QED
  BY <1>1, <1>3, <1>4, <1>7, RequestMoves DEF ListHolds, HoldsInv, TypeOK

LEMMA LoadKeepsInv ==
  ASSUME HoldsInv, NEW w \in Workers, LoadHold(w)
  PROVE  HoldsInv'
<1>1. PICK q : q = req[w]
  OBVIOUS
<1>2. q \in Request /\ q.pc = "load"
  BY <1>1, BusyIsRequest DEF HoldsInv, LoadHold
<1>3. PICK t \in q.todo : req' = [req EXCEPT ![w] = Loaded(q, t)]
  BY <1>1 DEF LoadHold
<1>4. PICK r : r = Loaded(q, t)
  OBVIOUS
<1>5. t \in Tokens /\ q.todo \in SUBSET Tokens
  BY <1>2 DEF Request
<1>6. /\ r \in Request
      /\ r.pc = "load" /\ r.todo = q.todo \ {t} /\ r.kind = q.kind
      /\ r.offered = q.offered /\ r.left = q.left /\ r.since = q.since
      /\ r.stay = q.stay /\ r.outcome = q.outcome /\ r.token = q.token
      /\ q.found \subseteq r.found
      /\ hold[t] # None => [token |-> t, hold |-> hold[t]] \in r.found
  <2>1. CASE hold[t] = None
    BY <1>2, <1>4, <1>5, <2>1 DEF Loaded, Request, Phases
  <2>2. CASE hold[t] # None
    <3>1. hold[t] \in Hold
      BY <1>5, <2>2 DEF HoldsInv, TypeOK
    <3>2. r = [q EXCEPT !.todo = q.todo \ {t},
                        !.found = q.found
                          \cup {[token |-> t, hold |-> hold[t]]}]
      BY <1>2, <1>4, <2>2 DEF Loaded, Request
    <3>3. q.found \cup {[token |-> t, hold |-> hold[t]]}
            \in SUBSET [token : Tokens, hold : Hold]
      BY <1>2, <1>5, <3>1 DEF Request
    <3> QED
      BY <1>2, <1>5, <3>2, <3>3 DEF Request, Phases
  <2> QED
    BY <2>1, <2>2
<1>7. RequestSound(q) /\ HoldsRead(q) /\ OffersStand(q)
  BY <1>1 DEF HoldsInv
<1>8. RequestSound(r) /\ Cleared(r) /\ OffersStand(r)
  BY <1>2, <1>6, <1>7 DEF RequestSound, Cleared, OffersStand
<1>9. HoldsRead(r)
  <2> SUFFICES ASSUME NEW u \in Tokens, Listed(u), u \notin r.since[r.stay]
               PROVE  \/ u \in r.todo
                      \/ \E f \in r.found : f.token = u /\ f.hold = hold[u]
    BY DEF HoldsRead
  <2>1. u \in q.todo \/ \E f \in q.found : f.token = u /\ f.hold = hold[u]
    BY <1>2, <1>6, <1>7 DEF HoldsRead
  <2>2. CASE u = t
    BY <1>6, <2>2 DEF Listed, Live
  <2> QED
    BY <2>1, <2>2, <1>6
<1> QED
  BY <1>3, <1>4, <1>6, <1>8, <1>9, RequestMoves DEF LoadHold, HoldsInv, TypeOK

LEMMA SearchDecides ==
  ASSUME HoldsInv, NEW w \in Workers, req[w].pc = "load", req[w].todo = {},
         req[w].kind = "search", NEW r \in Searched(req[w])
  PROVE  r \in Request
         /\ RequestSound(r) /\ HoldsRead(r) /\ Cleared(r) /\ OffersStand(r)
<1>1. PICK q : q = req[w]
  OBVIOUS
<1>2. q \in Request /\ RequestSound(q) /\ HoldsRead(q) /\ OffersStand(q)
  BY <1>1, BusyIsRequest DEF HoldsInv
<1>3. q.stay \notin q.offered \cup q.left /\ q.left \cap q.offered = {}
      /\ q.outcome = "none"
  BY <1>1, <1>2 DEF RequestSound
<1>4. /\ r \in Request /\ r.kind = "search" /\ r.token = q.token
      /\ \/ r.offered = q.offered
         \/ /\ r.offered = q.offered \cup {q.stay}
            /\ \A f \in q.found : ~Hides(f, q)
      /\ \A s \in r.offered : r.since[s] = q.since[s]
      /\ \/ r.pc = "done" /\ r.outcome = "answered"
         \/ /\ r.pc = "list" /\ r.stay \in q.left
            /\ r.left = q.left \ {r.stay} /\ r.outcome = "none"
  BY <1>1, <1>2, <1>3, SearchedFields
<1>5. RequestSound(r) /\ HoldsRead(r) /\ Cleared(r)
  BY <1>1, <1>2, <1>3, <1>4 DEF RequestSound, HoldsRead, Cleared
<1>6. ASSUME NEW t \in Tokens, Listed(t), NEW s \in r.offered,
             Rivals(hold[t].stay, s)
      PROVE  t \in r.since[s]
  <2>1. CASE s \in q.offered
    BY <1>1, <1>2, <1>4, <1>6, <2>1 DEF OffersStand
  <2>2. CASE s \notin q.offered
    <3>1. s = q.stay /\ \A f \in q.found : ~Hides(f, q)
      BY <1>4, <2>2
    <3>2. t \in q.since[s]
      BY <1>1, <1>2, <1>6, <3>1 DEF HoldsRead, Hides
    <3> QED
      BY <1>4, <3>2
  <2> QED
    BY <2>1, <2>2
<1> QED
  BY <1>4, <1>5, <1>6 DEF OffersStand

LEMMA QuoteDecides ==
  ASSUME HoldsInv, NEW w \in Workers, req[w].pc = "load", req[w].todo = {},
         req[w].kind = "quote", NEW r \in Checked(req[w])
  PROVE  r \in Request
         /\ RequestSound(r) /\ HoldsRead(r) /\ Cleared(r) /\ OffersStand(r)
<1>1. PICK q : q = req[w]
  OBVIOUS
<1>2. q \in Request /\ RequestSound(q) /\ HoldsRead(q)
  BY <1>1, BusyIsRequest DEF HoldsInv
<1>3. q.offered = {} /\ q.left = {} /\ q.outcome = "none"
  BY <1>1, <1>2 DEF RequestSound
<1>4. /\ r \in Request /\ r.kind = "quote" /\ r.stay = q.stay
      /\ r.token = q.token /\ r.offered = {} /\ r.since = q.since
      /\ r.left = {}
      /\ \/ /\ r.pc = "pms" /\ r.outcome = "none"
            /\ \A f \in q.found : ~Blocks(f, q)
         \/ r.pc = "done" /\ r.outcome = "refused"
  BY <1>1, <1>2, <1>3, CheckedFields
<1>5. RequestSound(r) /\ HoldsRead(r) /\ OffersStand(r)
  BY <1>1, <1>2, <1>4 DEF RequestSound, HoldsRead, OffersStand
<1>6. ASSUME r.pc = "pms", NEW t \in Tokens, Listed(t),
             t \notin r.since[r.stay], t # r.token
      PROVE  SameStay(hold[t].stay, r.stay) \/ ~Rivals(hold[t].stay, r.stay)
  <2>1. PICK f \in q.found : f.token = t /\ f.hold = hold[t]
    BY <1>1, <1>2, <1>4, <1>6 DEF HoldsRead
  <2>2. ~Blocks(f, q)
    BY <1>4, <1>6
  <2> QED
    BY <1>4, <1>6, <2>1, <2>2 DEF Blocks
<1> QED
  BY <1>4, <1>5, <1>6 DEF Cleared

LEMMA DecideKeepsInv ==
  ASSUME HoldsInv, NEW w \in Workers, PruneAndDecide(w)
  PROVE  HoldsInv'
<1>1. req[w] \in Request
  BY BusyIsRequest DEF HoldsInv, PruneAndDecide
<1>2. PICK r \in IF req[w].kind = "search" THEN Searched(req[w])
                 ELSE Checked(req[w]) : req' = [req EXCEPT ![w] = r]
  BY DEF PruneAndDecide
<1>3. r \in Request
      /\ RequestSound(r) /\ HoldsRead(r) /\ Cleared(r) /\ OffersStand(r)
  <2>1. CASE req[w].kind = "search"
    BY <1>2, <2>1, SearchDecides DEF PruneAndDecide
  <2>2. CASE req[w].kind = "quote"
    BY <1>2, <2>2, QuoteDecides DEF PruneAndDecide
  <2> QED
    BY <1>1, <2>1, <2>2 DEF Request
<1>4. index' \subseteq index
  BY DEF PruneAndDecide, Pruned
<1> QED
  BY <1>2, <1>3, <1>4, RequestMoves DEF PruneAndDecide, HoldsInv, TypeOK

LEMMA PmsKeepsInv ==
  ASSUME HoldsInv, NEW w \in Workers, PmsQuotes(w)
  PROVE  HoldsInv'
<1>1. PICK q : q = req[w]
  OBVIOUS
<1>2. q \in Request /\ q.pc = "pms" /\ RequestSound(q) /\ Cleared(q)
      /\ OffersStand(q)
  BY <1>1, BusyIsRequest DEF HoldsInv, PmsQuotes
<1>3. PICK r : /\ req' = [req EXCEPT ![w] = r]
               /\ \/ r = [q EXCEPT !.pc = "place"]
                  \/ r = [q EXCEPT !.pc = "done", !.outcome = "unavailable"]
  BY <1>1 DEF PmsQuotes
<1>4. /\ r \in Request /\ r.pc \in {"place", "done"}
      /\ r.pc = "done" => r.outcome = "unavailable"
      /\ r.kind = q.kind
      /\ r.offered = q.offered /\ r.left = q.left /\ r.since = q.since
      /\ r.stay = q.stay /\ r.token = q.token
      /\ r.pc = "place" => r.outcome = q.outcome
  <2>1. CASE r = [q EXCEPT !.pc = "place"]
    <3>1. r \in Request
      BY <1>2, <2>1 DEF Request, Phases
    <3> QED
      BY <1>2, <2>1, <3>1 DEF Request
  <2>2. CASE r = [q EXCEPT !.pc = "done", !.outcome = "unavailable"]
    <3>1. r \in Request
      BY <1>2, <2>2 DEF Request, Phases, Outcomes
    <3> QED
      BY <1>2, <2>2, <3>1 DEF Request
  <2> QED
    BY <1>3, <2>1, <2>2
<1>5. RequestSound(r) /\ HoldsRead(r) /\ Cleared(r) /\ OffersStand(r)
  BY <1>2, <1>4 DEF RequestSound, HoldsRead, Cleared, OffersStand
<1> QED
  BY <1>3, <1>4, <1>5, RequestMoves DEF PmsQuotes, HoldsInv, TypeOK

LEMMA FailKeepsInv ==
  ASSUME HoldsInv, NEW w \in Workers, CallFails(w)
  PROVE  HoldsInv'
<1>1. PICK q : q = req[w]
  OBVIOUS
<1>2. q \in Request /\ q.pc # "idle" /\ RequestSound(q) /\ OffersStand(q)
  BY <1>1, BusyIsRequest DEF HoldsInv, CallFails
<1>3. PICK r : r = [q EXCEPT !.pc = "done", !.outcome = "error"]
  OBVIOUS
<1>4. /\ r \in Request /\ r.pc = "done" /\ r.outcome = "error"
      /\ r.token = q.token /\ r.kind = q.kind
      /\ r.offered = q.offered /\ r.left = q.left /\ r.since = q.since
  BY <1>2, <1>3 DEF Request, Phases, Outcomes
<1>5. RequestSound(r) /\ HoldsRead(r) /\ Cleared(r) /\ OffersStand(r)
  BY <1>2, <1>4 DEF RequestSound, HoldsRead, Cleared, OffersStand
<1> QED
  BY <1>1, <1>3, <1>4, <1>5, RequestMoves DEF CallFails, HoldsInv, TypeOK

LEMMA AnswerKeepsInv ==
  ASSUME HoldsInv, NEW w \in Workers, Answer(w)
  PROVE  HoldsInv'
<1>1. req[w] \in Request /\ req[w].guest \in Guests
  BY BusyIsRequest DEF HoldsInv, Answer, Request
<1>2. RequestSound(req[w])
  BY DEF HoldsInv
<1>3. client' \in [Guests -> issued \cup {None}] /\ strayed' \subseteq Guests
  BY <1>1, <1>2 DEF Answer, HoldsInv, TypeOK, RequestSound
<1>4. req' = [req EXCEPT ![w] = Idle]
      /\ UNCHANGED <<hold, index, issued, unseen>>
  BY DEF Answer
<1> QED
  BY <1>3, <1>4, IdleSound, RequestMoves

LEMMA ExpireKeepsInv ==
  ASSUME HoldsInv, NEW t \in Tokens, ExpireHold(t)
  PROVE  HoldsInv'
<1>1. NoNewHolds
  BY DEF NoNewHolds, ExpireHold, Listed, Live, HoldsInv, TypeOK
<1>2. TypeOK'
  BY DEF ExpireHold, HoldsInv, TypeOK, Live
<1>3. UNCHANGED <<req, unseen, issued>>
  BY DEF ExpireHold
<1>4. RivalsOnlyIfConcurrent'
  BY <1>1, <1>3, RivalsStay DEF HoldsInv
<1>5. ASSUME NEW v \in Workers
      PROVE  /\ RequestSound(req[v])' /\ HoldsRead(req[v])'
             /\ Cleared(req[v])' /\ OffersStand(req[v])'
  <2>1. PICK q : q = req[v]
    OBVIOUS
  <2>2. req'[v] = q
    BY <1>3, <2>1
  <2>3. RequestSound(q) /\ HoldsRead(q) /\ Cleared(q) /\ OffersStand(q)
    BY <2>1 DEF HoldsInv
  <2>4. /\ RequestSound(q)' /\ HoldsRead(q)'
        /\ Cleared(q)' /\ OffersStand(q)'
    BY <1>1, <1>3, <2>3, StaysSound
  <2> QED
    BY <2>2, <2>4 DEF RequestSound, HoldsRead, Cleared, OffersStand
<1> QED
  BY <1>2, <1>4, <1>5 DEF HoldsInv

(* Request o after another one placed its hold under token t.              *)
Noted(o, r, t) ==
  /\ o \in Request /\ r \in Request
  /\ r.pc = o.pc /\ r.kind = o.kind /\ r.guest = o.guest /\ r.stay = o.stay
  /\ r.token = o.token /\ r.todo = o.todo /\ r.found = o.found
  /\ r.left = o.left /\ r.offered = o.offered /\ r.by = o.by
  /\ r.outcome = o.outcome
  /\ \A s \in Stays : r.since[s] = IF s \in StaysRead(o)
                                  THEN o.since[s] \cup {t} ELSE o.since[s]

LEMMA MeanwhileNotes ==
  ASSUME NEW o \in Request \cup {Idle}, NEW t \in Tokens
  PROVE  /\ PlacedMeanwhile(o, t) \in Request \cup {Idle}
         /\ \/ PlacedMeanwhile(o, t) = o /\ StaysRead(o) = {}
            \/ Noted(o, PlacedMeanwhile(o, t), t)
<1>1. CASE StaysRead(o) = {}
  BY <1>1 DEF PlacedMeanwhile
<1>2. CASE StaysRead(o) # {}
  <2>1. o \in Request
    BY <1>2, IdleFacts DEF StaysRead
  <2>2. PICK since : since = [s \in Stays |->
          IF s \in StaysRead(o) THEN o.since[s] \cup {t} ELSE o.since[s]]
    OBVIOUS
  <2>3. since \in [Stays -> SUBSET Tokens]
    BY <2>1, <2>2 DEF Request
  <2>4. PICK p : p = PlacedMeanwhile(o, t)
    OBVIOUS
  <2>5. p = [o EXCEPT !.since = since]
    BY <1>2, <2>2, <2>4 DEF PlacedMeanwhile
  <2>6. /\ p \in Request /\ p.since = since
        /\ p.pc = o.pc /\ p.kind = o.kind /\ p.guest = o.guest
        /\ p.stay = o.stay /\ p.token = o.token /\ p.todo = o.todo
        /\ p.found = o.found /\ p.left = o.left /\ p.offered = o.offered
        /\ p.by = o.by /\ p.outcome = o.outcome
    BY <2>1, <2>3, <2>5 DEF Request
  <2>7. \A s \in Stays : p.since[s] =
          IF s \in StaysRead(o) THEN o.since[s] \cup {t} ELSE o.since[s]
    BY <2>2, <2>6
  <2> QED
    BY <2>1, <2>4, <2>6, <2>7 DEF Noted
<1> QED
  BY <1>1, <1>2

(* The request that placed its hold, r, and before that q.                 *)
Held(q, r, t) ==
  /\ r \in Request /\ r.pc = "done" /\ r.kind = "quote"
  /\ r.outcome \in {"held", "error"} /\ r.token = t
  /\ r.offered = {} /\ r.left = {} /\ r.guest = q.guest /\ r.by = q.by

(* What placing a hold does, to the request that places it and the others. *)
LEMMA PlaceEffects ==
  ASSUME HoldsInv, NEW w \in Workers, PlaceHold(w)
  PROVE  \E t \in HoldTokens(req[w]) :
           /\ t \in Tokens
           /\ hold' = [hold EXCEPT ![t] =
                         [stay |-> req[w].stay, guest |-> req[w].guest]]
           /\ index' = index \cup {t} /\ issued' = issued \cup {t}
           /\ unseen' = [unseen EXCEPT ![t] = req[w].since[req[w].stay]]
           /\ UNCHANGED <<client, requests, strayed>>
           /\ req' \in [Workers -> Request \cup {Idle}]
           /\ Held(req[w], req'[w], t)
           /\ \A v \in Workers \ {w} :
                \/ req'[v] = req[v] /\ StaysRead(req[v]) = {}
                \/ Noted(req[v], req'[v], t)
<1>1. PICK q : q = req[w]
  OBVIOUS
<1>2. q \in Request /\ q.pc = "place" /\ RequestSound(q)
  BY <1>1, BusyIsRequest DEF HoldsInv, PlaceHold
<1>3. q.kind = "quote" /\ q.offered = {} /\ q.left = {}
      /\ q.token \in Tokens \cup {None}
  BY <1>2 DEF RequestSound, Request
<1>4. PICK t \in HoldTokens(req[w]), outcome \in {"held", "error"} :
       /\ hold' = [hold EXCEPT ![t] =
                     [stay |-> req[w].stay, guest |-> req[w].guest]]
       /\ index' = index \cup {t}
       /\ issued' = issued \cup {t}
       /\ unseen' = [unseen EXCEPT ![t] = req[w].since[req[w].stay]]
       /\ req' = [v \in Workers |-> IF v = w THEN Placed(req[w], t, outcome)
                                   ELSE PlacedMeanwhile(req[v], t)]
  BY Zenon DEF PlaceHold
<1>5. t \in Tokens
  BY <1>1, <1>3, <1>4 DEF HoldTokens
<1>6. PICK r : r = Placed(q, t, outcome)
  OBVIOUS
<1>7. Held(q, r, t)
  BY <1>2, <1>3, <1>4, <1>5, <1>6 DEF Placed, Held, Request, Phases, Outcomes
<1>8. req'[w] = r /\ r \in Request
  BY <1>1, <1>4, <1>6, <1>7 DEF Held
<1>9. ASSUME NEW v \in Workers \ {w}
      PROVE  /\ req'[v] \in Request \cup {Idle}
             /\ \/ req'[v] = req[v] /\ StaysRead(req[v]) = {}
                \/ Noted(req[v], req'[v], t)
  <2>1. req[v] \in Request \cup {Idle}
    BY DEF HoldsInv, TypeOK
  <2>2. req'[v] = PlacedMeanwhile(req[v], t)
    BY <1>4
  <2>3. PICK o : o = req[v]
    OBVIOUS
  <2> QED
    BY <1>5, <2>1, <2>2, <2>3, MeanwhileNotes
<1>10. req' \in [Workers -> Request \cup {Idle}]
  <2>1. \A v \in Workers : req'[v] \in Request \cup {Idle}
    BY <1>8, <1>9
  <2>2. req' = [v \in Workers |-> req'[v]]
    BY <1>4
  <2> QED
    BY <2>1, <2>2
<1>11. UNCHANGED <<client, requests, strayed>>
  BY DEF PlaceHold
<1> QED
  BY <1>1, <1>4, <1>5, <1>7, <1>8, <1>9, <1>10, <1>11

LEMMA PlaceKeepsInv ==
  ASSUME HoldsInv, NEW w \in Workers, PlaceHold(w)
  PROVE  HoldsInv'
<1>1. PICK q : q = req[w]
  OBVIOUS
<1>2. q \in Request /\ q.pc = "place" /\ Cleared(q) /\ RequestSound(q)
  BY <1>1, BusyIsRequest DEF HoldsInv, PlaceHold
<1>3. q.stay \in Stays /\ q.guest \in Guests /\ q.since[q.stay] \in SUBSET Tokens
  BY <1>2 DEF Request
<1>4. PICK t \in HoldTokens(q) :
        /\ t \in Tokens
        /\ hold' = [hold EXCEPT ![t] = [stay |-> q.stay, guest |-> q.guest]]
        /\ index' = index \cup {t} /\ issued' = issued \cup {t}
        /\ unseen' = [unseen EXCEPT ![t] = q.since[q.stay]]
        /\ UNCHANGED <<client, requests, strayed>>
        /\ req' \in [Workers -> Request \cup {Idle}]
        /\ Held(q, req'[w], t)
        /\ \A v \in Workers \ {w} :
             \/ req'[v] = req[v] /\ StaysRead(req[v]) = {}
             \/ Noted(req[v], req'[v], t)
  BY <1>1, PlaceEffects
<1>5. PICK h : h = [stay |-> q.stay, guest |-> q.guest]
  OBVIOUS
<1>6. h \in Hold /\ h # None => hold'[t] = h
  BY <1>4, <1>5 DEF HoldsInv, TypeOK
<1>7. /\ h \in Hold /\ hold'[t] = h /\ h.stay = q.stay
      /\ \A u \in Tokens \ {t} : hold'[u] = hold[u]
      /\ \A u \in Tokens \ {t} : Listed(u)' <=> Listed(u)
  BY <1>3, <1>4, <1>5 DEF HoldsInv, TypeOK, Hold, Listed, Live
<1>8. TypeOK'
  <2>1. /\ hold' \in [Tokens -> Hold \cup {None}]
        /\ index' \subseteq issued'
        /\ issued' \subseteq Tokens
        /\ client' \in [Guests -> issued' \cup {None}]
        /\ strayed' \subseteq Guests
    BY <1>4, <1>5, <1>7 DEF HoldsInv, TypeOK
  <2>2. unseen' \in [Tokens -> SUBSET Tokens]
    BY <1>3, <1>4 DEF HoldsInv, TypeOK
  <2>3. \A u \in Tokens : Live(u)' => u \in issued'
    BY <1>4, <1>7 DEF HoldsInv, TypeOK, Live
  <2> QED
    BY <1>4, <2>1, <2>2, <2>3 DEF TypeOK
<1>9. RivalsOnlyIfConcurrent'
  <2>1. ASSUME NEW b \in Tokens \ {t}, Listed(b),
               Rivals(q.stay, hold[b].stay), ~SameStay(q.stay, hold[b].stay)
        PROVE  b \in unseen'[t]
    <3>1. hold[b].stay \in Stays
      BY <2>1 DEF Listed, Live, HoldsInv, TypeOK, Hold
    <3>2. Rivals(hold[b].stay, q.stay) /\ ~SameStay(hold[b].stay, q.stay)
      BY <1>3, <2>1, <3>1, RivalsSymmetric DEF SameStay
    <3>3. b # q.token
      BY <1>4, <2>1, HoldsAssumption DEF HoldTokens
    <3>4. b \in q.since[q.stay]
      BY <1>2, <2>1, <3>2, <3>3 DEF Cleared
    <3> QED
      BY <1>4, <3>4 DEF HoldsInv, TypeOK
  <2>2. \A b \in Tokens \ {t} : unseen'[b] = unseen[b]
    BY <1>4 DEF HoldsInv, TypeOK
  <2>3. \A b \in Tokens \ {t} : Listed(b) => hold[b].stay \in Stays
    BY DEF Listed, Live, HoldsInv, TypeOK, Hold
  <2>4. ASSUME NEW a \in Tokens, NEW b \in Tokens, a # b,
               Listed(a)', Listed(b)',
               Rivals(hold'[a].stay, hold'[b].stay),
               ~SameStay(hold'[a].stay, hold'[b].stay)
        PROVE  a \in unseen'[b] \/ b \in unseen'[a]
    <3>1. CASE a = t
      BY <1>7, <2>1, <2>4, <3>1
    <3>2. CASE b = t
      <4>1. Rivals(q.stay, hold[a].stay) /\ ~SameStay(q.stay, hold[a].stay)
        BY <1>3, <1>7, <2>3, <2>4, <3>2, RivalsSymmetric DEF SameStay
      <4> QED
        BY <1>7, <2>1, <2>4, <3>2, <4>1
    <3>3. CASE a # t /\ b # t
      BY <1>7, <2>2, <2>4, <3>3 DEF HoldsInv, RivalsOnlyIfConcurrent
    <3> QED
      BY <3>1, <3>2, <3>3
  <2> QED
    BY <2>4 DEF RivalsOnlyIfConcurrent
<1>10. ASSUME NEW v \in Workers
       PROVE  /\ RequestSound(req[v])' /\ HoldsRead(req[v])'
              /\ Cleared(req[v])' /\ OffersStand(req[v])'
  <2>1. PICK r : r = req'[v]
    OBVIOUS
  <2>2. CASE v = w
    <3>1. /\ r.pc = "done" /\ r.kind = "quote"
          /\ r.outcome \in {"held", "error"} /\ r.token = t
          /\ r.offered = {} /\ r.left = {}
      BY <1>4, <2>1, <2>2 DEF Held
    <3>2. t \in issued' /\ t # None
      BY <1>4, HoldsAssumption
    <3> QED
      BY <2>1, <3>1, <3>2 DEF RequestSound, HoldsRead, Cleared, OffersStand
  <2>3. CASE v # w
    <3>1. PICK p : p = req[v]
      OBVIOUS
    <3>2. RequestSound(p) /\ HoldsRead(p) /\ Cleared(p) /\ OffersStand(p)
      BY <3>1 DEF HoldsInv
    <3>3. CASE r = p /\ StaysRead(p) = {}
      <4>1. p.pc # "idle" =>
              p.pc \notin {"load", "pms", "place"} /\ p.offered = {}
        BY <3>3 DEF StaysRead
      <4>2. RequestSound(p)'
        BY <1>4, <3>2 DEF RequestSound
      <4> QED
        BY <2>1, <3>3, <4>1, <4>2
        DEF RequestSound, HoldsRead, Cleared, OffersStand
    <3>4. CASE Noted(p, r, t)
      <4>1. /\ r \in Request /\ p \in Request
            /\ r.pc = p.pc /\ r.kind = p.kind /\ r.stay = p.stay
            /\ r.token = p.token /\ r.todo = p.todo
            /\ r.found = p.found /\ r.left = p.left
            /\ r.offered = p.offered /\ r.outcome = p.outcome
        BY <3>4 DEF Noted
      <4>2. \A s \in Stays : r.since[s] =
              IF s \in StaysRead(p) THEN p.since[s] \cup {t} ELSE p.since[s]
        BY <3>4 DEF Noted
      <4>3. p.stay \in Stays /\ p.offered \in SUBSET Stays
        BY <4>1 DEF Request
      <4>4. p.pc \in {"load", "pms", "place"} =>
              r.since[r.stay] = p.since[p.stay] \cup {t}
        BY <4>1, <4>2, <4>3 DEF StaysRead
      <4>5. p.pc # "idle" =>
              \A s \in p.offered : r.since[s] = p.since[s] \cup {t}
        BY <4>2, <4>3 DEF StaysRead
      <4>6. RequestSound(r)'
        BY <1>4, <3>2, <4>1 DEF RequestSound
      <4>7. HoldsRead(r)'
        <5> SUFFICES ASSUME r.pc = "load", NEW u \in Tokens, Listed(u)',
                            u \notin r.since[r.stay]
                     PROVE  \/ u \in r.todo
                            \/ \E f \in r.found :
                                 f.token = u /\ f.hold = hold'[u]
          BY DEF HoldsRead
        <5>1. u # t /\ u \notin p.since[p.stay]
          BY <4>1, <4>4
        <5>2. Listed(u) /\ hold'[u] = hold[u]
          BY <1>7, <5>1
        <5> QED
          BY <3>2, <4>1, <5>1, <5>2 DEF HoldsRead
      <4>8. Cleared(r)'
        <5> SUFFICES ASSUME r.pc \in {"pms", "place"}, NEW u \in Tokens,
                            Listed(u)', u \notin r.since[r.stay], u # r.token
                     PROVE  \/ SameStay(hold'[u].stay, r.stay)
                            \/ ~Rivals(hold'[u].stay, r.stay)
          BY DEF Cleared
        <5>1. u # t /\ u \notin p.since[p.stay]
          BY <4>1, <4>4
        <5>2. Listed(u) /\ hold'[u] = hold[u]
          BY <1>7, <5>1
        <5> QED
          BY <3>2, <4>1, <5>1, <5>2 DEF Cleared
      <4>9. OffersStand(r)'
        <5> SUFFICES ASSUME r.pc # "idle", NEW u \in Tokens, Listed(u)',
                            NEW s \in r.offered, Rivals(hold'[u].stay, s)
                     PROVE  u \in r.since[s]
          BY DEF OffersStand
        <5>1. CASE u = t
          BY <4>1, <4>5, <5>1
        <5>2. CASE u # t
          BY <1>7, <3>2, <4>1, <4>5, <5>2 DEF OffersStand
        <5> QED
          BY <5>1, <5>2
      <4> QED
        BY <2>1, <4>6, <4>7, <4>8, <4>9
        DEF RequestSound, HoldsRead, Cleared, OffersStand
    <3> QED
      BY <1>4, <2>1, <2>3, <3>1, <3>3, <3>4
  <2> QED
    BY <2>2, <2>3
<1> QED
  BY <1>8, <1>9, <1>10 DEF HoldsInv

-----------------------------------------------------------------------------
(* The guest's own hold.                                                   *)

(* A guest that has not strayed: its quote uses the token it was given,    *)
(* the holds of its own that it read are under that token, and none of     *)
(* them refuses it.                                                        *)
OwnSound(r) ==
  (r.pc # "idle" /\ r.guest \notin strayed) =>
    /\ (r.kind = "quote" /\ r.pc # "done") => r.token = client[r.guest]
    /\ (r.kind = "quote" /\ r.pc \in {"list", "load"}) =>
         \A f \in r.found : f.hold.guest = r.guest => f.token = r.token
    /\ r.outcome = "refused" => r.guest \notin r.by
    /\ (r.kind = "quote" /\ r.pc = "done" /\ r.outcome \in {"held", "error"}) =>
         client[r.guest] \in {None, r.token}

OneAtATime ==
  \A v, w \in Workers :
    (/\ req[v].pc # "idle" /\ req[w].pc # "idle"
     /\ req[v].guest = req[w].guest /\ req[v].guest \notin strayed) => v = w

(* Request r has placed a hold of guest g under token t, and the guest does*)
(* not know it yet.                                                        *)
Carries(r, g, t) ==
  /\ r.pc = "done" /\ r.kind = "quote" /\ r.guest = g /\ r.token = t
  /\ r.outcome \in {"held", "error"}

(* The one hold of such a guest is under the token it was given, or under  *)
(* the token of an answer that is on its way.                              *)
HoldsKept ==
  \A t \in Tokens :
    (Live(t) /\ hold[t].guest \notin strayed) =>
      \/ t = client[hold[t].guest]
      \/ \E w \in Workers : Carries(req[w], hold[t].guest, t)

OwnInv ==
  /\ \A w \in Workers : OwnSound(req[w])
  /\ OneAtATime
  /\ HoldsKept

(* A step of a request that places nothing and is not its last.            *)
LEMMA OwnMoves ==
  ASSUME HoldsInv, OwnInv, NEW w \in Workers, req[w].pc \notin {"idle", "done"},
         NEW r \in Request, r.pc # "idle", r.guest = req[w].guest,
         req' = [req EXCEPT ![w] = r], UNCHANGED <<hold, client, strayed>>,
         OwnSound(r)
  PROVE  OwnInv'
<1>1. req'[w] = r /\ \A v \in Workers \ {w} : req'[v] = req[v]
  BY DEF HoldsInv, TypeOK
<1>2. ASSUME NEW v \in Workers PROVE OwnSound(req[v])'
  <2>1. PICK p : p = req'[v] /\ OwnSound(p)
    BY <1>1 DEF OwnInv
  <2> QED
    BY <2>1 DEF OwnSound
<1>3. OneAtATime'
  BY <1>1 DEF OneAtATime, OwnInv
<1>4. HoldsKept'
  <2> SUFFICES ASSUME NEW t \in Tokens, Live(t)', hold'[t].guest \notin strayed'
               PROVE  \/ t = client'[hold'[t].guest]
                      \/ \E v \in Workers :
                           Carries(req'[v], hold'[t].guest, t)
    BY DEF HoldsKept, Carries
  <2>1. CASE t = client[hold[t].guest]
    BY <2>1
  <2>2. CASE \E v \in Workers : Carries(req[v], hold[t].guest, t)
    <3>1. PICK v \in Workers : Carries(req[v], hold[t].guest, t)
      BY <2>2
    <3>2. v # w
      BY <3>1 DEF Carries
    <3> QED
      BY <1>1, <3>1, <3>2
  <2> QED
    BY <2>1, <2>2 DEF OwnInv, HoldsKept, Live
<1> QED
  BY <1>2, <1>3, <1>4 DEF OwnInv

LEMMA ArriveKeepsOwn ==
  ASSUME HoldsInv, OwnInv, NEW w \in Workers, NEW g \in Guests, NEW s \in Stays,
         NEW kind \in {"quote", "search"}, NEW token, NEW others,
         kind = "quote" => token = client[g],
         Arrive(w, g, s, kind, token, others)
  PROVE  OwnInv'
<1>1. PICK r : r =
       [pc |-> "list", kind |-> kind, guest |-> g, stay |-> s, token |-> token,
        todo |-> {}, found |-> {}, stale |-> {}, left |-> others,
        offered |-> {}, since |-> NothingSince, by |-> {}, outcome |-> "none"]
  OBVIOUS
<1>2. /\ req'[w] = r /\ \A v \in Workers \ {w} : req'[v] = req[v]
      /\ UNCHANGED <<hold, client>> /\ req[w].pc = "idle"
      /\ strayed' = IF Busy(g) THEN strayed \cup {g} ELSE strayed
  BY <1>1 DEF Arrive, HoldsInv, TypeOK
<1>3. /\ r.pc = "list" /\ r.kind = kind /\ r.guest = g /\ r.token = token
      /\ r.found = {} /\ r.outcome = "none"
  BY <1>1
<1>4. strayed \subseteq strayed'
  BY <1>2
<1>5. ASSUME NEW v \in Workers PROVE OwnSound(req[v])'
  <2>1. CASE v = w
    <3>1. OwnSound(r)'
      BY <1>2, <1>3 DEF OwnSound
    <3> QED
      BY <1>2, <2>1, <3>1 DEF OwnSound
  <2>2. CASE v # w
    <3>1. PICK p : p = req[v] /\ OwnSound(p)
      BY DEF OwnInv
    <3>2. OwnSound(p)'
      BY <1>2, <1>4, <3>1 DEF OwnSound
    <3> QED
      BY <1>2, <2>2, <3>1, <3>2 DEF OwnSound
  <2> QED
    BY <2>1, <2>2
<1>6. OneAtATime'
  <2> SUFFICES ASSUME NEW u \in Workers, NEW v \in Workers, u # v,
                      req'[u].pc # "idle", req'[v].pc # "idle",
                      req'[u].guest = req'[v].guest,
                      req'[u].guest \notin strayed'
               PROVE  FALSE
    BY DEF OneAtATime
  <2>1. CASE u # w /\ v # w
    BY <1>2, <1>4, <2>1 DEF OneAtATime, OwnInv
  <2>2. CASE u = w
    <3>1. req[v].pc # "idle" /\ req[v].guest = g /\ g \notin strayed'
      BY <1>2, <1>3, <2>2
    <3> QED
      BY <1>2, <3>1 DEF Busy
  <2>3. CASE v = w
    <3>1. req[u].pc # "idle" /\ req[u].guest = g /\ g \notin strayed'
      BY <1>2, <1>3, <2>3
    <3> QED
      BY <1>2, <3>1 DEF Busy
  <2> QED
    BY <2>1, <2>2, <2>3
<1>7. HoldsKept'
  <2> SUFFICES ASSUME NEW t \in Tokens, Live(t)', hold'[t].guest \notin strayed'
               PROVE  \/ t = client'[hold'[t].guest]
                      \/ \E v \in Workers :
                           Carries(req'[v], hold'[t].guest, t)
    BY DEF HoldsKept, Carries
  <2>1. CASE \E v \in Workers : Carries(req[v], hold[t].guest, t)
    <3>1. PICK v \in Workers : Carries(req[v], hold[t].guest, t)
      BY <2>1
    <3>2. v # w
      BY <1>2, <3>1 DEF Carries
    <3> QED
      BY <1>2, <3>1, <3>2
  <2> QED
    BY <1>2, <1>4, <2>1 DEF OwnInv, HoldsKept, Live
<1> QED
  BY <1>5, <1>6, <1>7 DEF OwnInv

LEMMA ListKeepsOwn ==
  ASSUME HoldsInv, OwnInv, NEW w \in Workers, ListHolds(w)
  PROVE  OwnInv'
<1>1. PICK q : q = req[w]
  OBVIOUS
<1>2. q \in Request /\ q.pc = "list" /\ OwnSound(q)
  BY <1>1, BusyIsRequest DEF HoldsInv, OwnInv, ListHolds
<1>3. PICK r : r = [q EXCEPT !.pc = "load", !.todo = index]
  OBVIOUS
<1>4. /\ r \in Request /\ r.pc = "load" /\ r.kind = q.kind
      /\ r.guest = q.guest /\ r.token = q.token /\ r.found = q.found
      /\ r.outcome = q.outcome /\ r.by = q.by
  BY <1>2, <1>3 DEF Request, Phases, HoldsInv, TypeOK
<1>5. OwnSound(r)
  BY <1>2, <1>4 DEF OwnSound
<1> QED
  BY <1>1, <1>2, <1>3, <1>4, <1>5, OwnMoves DEF ListHolds

LEMMA LoadKeepsOwn ==
  ASSUME HoldsInv, OwnInv, NEW w \in Workers, LoadHold(w)
  PROVE  OwnInv'
<1>1. PICK q : q = req[w]
  OBVIOUS
<1>2. q \in Request /\ q.pc = "load" /\ OwnSound(q)
  BY <1>1, BusyIsRequest DEF HoldsInv, OwnInv, LoadHold
<1>3. PICK t \in q.todo : req' = [req EXCEPT ![w] = Loaded(q, t)]
  BY <1>1 DEF LoadHold
<1>4. PICK r : r = Loaded(q, t)
  OBVIOUS
<1>5. t \in Tokens
  BY <1>2 DEF Request
<1>6. /\ r \in Request /\ r.pc = "load" /\ r.kind = q.kind
      /\ r.guest = q.guest /\ r.token = q.token
      /\ r.outcome = q.outcome /\ r.by = q.by
      /\ \/ r.found = q.found
         \/ /\ Live(t)
            /\ r.found = q.found \cup {[token |-> t, hold |-> hold[t]]}
  <2>1. CASE hold[t] = None
    BY <1>2, <1>4, <1>5, <2>1 DEF Loaded, Request, Phases
  <2>2. CASE hold[t] # None
    <3>1. hold[t] \in Hold
      BY <1>5, <2>2 DEF HoldsInv, TypeOK
    <3>2. r = [q EXCEPT !.todo = q.todo \ {t},
                        !.found = q.found
                          \cup {[token |-> t, hold |-> hold[t]]}]
      BY <1>2, <1>4, <2>2 DEF Loaded, Request
    <3>3. q.found \cup {[token |-> t, hold |-> hold[t]]}
            \in SUBSET [token : Tokens, hold : Hold]
      BY <1>2, <1>5, <3>1 DEF Request
    <3> QED
      BY <1>2, <1>5, <2>2, <3>2, <3>3 DEF Request, Phases, Live
  <2> QED
    BY <2>1, <2>2
<1>7. ASSUME r.kind = "quote", r.guest \notin strayed, Live(t),
             hold[t].guest = r.guest
      PROVE  t = r.token
  <2>1. \A v \in Workers : ~Carries(req[v], r.guest, t)
    <3> SUFFICES ASSUME NEW v \in Workers, Carries(req[v], r.guest, t)
                 PROVE  FALSE
      OBVIOUS
    <3>1. req[v].pc = "done" /\ req[v].guest = q.guest
      BY <1>6 DEF Carries
    <3>2. v = w
      BY <1>1, <1>2, <1>6, <1>7, <3>1 DEF OwnInv, OneAtATime
    <3> QED
      BY <1>1, <1>2, <3>1, <3>2
  <2>2. t = client[r.guest]
    BY <1>5, <1>7, <2>1 DEF OwnInv, HoldsKept
  <2> QED
    BY <1>2, <1>6, <1>7, <2>2 DEF OwnSound
<1>8. OwnSound(r)
  BY <1>2, <1>6, <1>7 DEF OwnSound
<1> QED
  BY <1>1, <1>2, <1>3, <1>4, <1>6, <1>8, OwnMoves DEF LoadHold

LEMMA DecideKeepsOwn ==
  ASSUME HoldsInv, OwnInv, NEW w \in Workers, PruneAndDecide(w)
  PROVE  OwnInv'
<1>1. PICK q : q = req[w]
  OBVIOUS
<1>2. q \in Request /\ q.pc = "load" /\ OwnSound(q) /\ RequestSound(q)
  BY <1>1, BusyIsRequest DEF HoldsInv, OwnInv, PruneAndDecide
<1>3. PICK r \in IF q.kind = "search" THEN Searched(q) ELSE Checked(q) :
        req' = [req EXCEPT ![w] = r]
  BY <1>1 DEF PruneAndDecide
<1>4. CASE q.kind = "search"
  <2>1. q.stay \notin q.offered /\ q.outcome = "none"
    BY <1>2 DEF RequestSound
  <2>2. /\ r \in Request /\ r.kind = "search" /\ r.guest = q.guest
        /\ r.pc # "idle" /\ r.outcome # "refused"
    BY <1>2, <1>3, <1>4, <2>1, SearchedFields
  <2>3. OwnSound(r)
    BY <2>2 DEF OwnSound
  <2> QED
    BY <1>1, <1>2, <1>3, <2>2, <2>3, OwnMoves DEF PruneAndDecide
<1>5. CASE q.kind = "quote"
  <2>1. q.outcome = "none" /\ q.token \in Tokens \cup {None}
        /\ q.found \in SUBSET [token : Tokens, hold : Hold]
    BY <1>2 DEF RequestSound, Request
  <2>2. /\ r \in Request /\ r.kind = "quote" /\ r.guest = q.guest
        /\ r.token = q.token
        /\ \/ r.pc = "pms" /\ r.outcome = "none"
           \/ /\ r.pc = "done" /\ r.outcome = "refused"
              /\ \A g \in r.by :
                   \E f \in q.found : Blocks(f, q) /\ f.hold.guest = g
    BY <1>2, <1>3, <1>5, <2>1, CheckedFields
  <2>3. ASSUME r.outcome = "refused", r.guest \notin strayed
        PROVE  r.guest \notin r.by
    <3> SUFFICES ASSUME NEW f \in q.found, Blocks(f, q),
                        f.hold.guest = q.guest
                 PROVE  FALSE
      BY <2>2, <2>3
    <3>1. f.token = q.token
      BY <1>2, <1>5, <2>2, <2>3 DEF OwnSound
    <3>2. f.token # None
      BY <2>1, HoldsAssumption
    <3> QED
      BY <3>1, <3>2 DEF Blocks
  <2>4. OwnSound(r)
    BY <1>2, <1>5, <2>2, <2>3 DEF OwnSound
  <2>5. r.pc # "idle"
    BY <2>2
  <2> QED
    BY <1>1, <1>2, <1>3, <2>2, <2>4, <2>5, OwnMoves DEF PruneAndDecide
<1> QED
  BY <1>2, <1>4, <1>5 DEF Request

LEMMA PmsKeepsOwn ==
  ASSUME HoldsInv, OwnInv, NEW w \in Workers, PmsQuotes(w)
  PROVE  OwnInv'
<1>1. PICK q : q = req[w]
  OBVIOUS
<1>2. q \in Request /\ q.pc = "pms" /\ OwnSound(q) /\ RequestSound(q)
  BY <1>1, BusyIsRequest DEF HoldsInv, OwnInv, PmsQuotes
<1>3. PICK r : /\ req' = [req EXCEPT ![w] = r]
               /\ \/ r = [q EXCEPT !.pc = "place"]
                  \/ r = [q EXCEPT !.pc = "done", !.outcome = "unavailable"]
  BY <1>1 DEF PmsQuotes
<1>4. /\ r \in Request /\ r.kind = q.kind /\ r.guest = q.guest
      /\ r.token = q.token
      /\ \/ r.pc = "place" /\ r.outcome = q.outcome
         \/ r.pc = "done" /\ r.outcome = "unavailable"
  <2>1. CASE r = [q EXCEPT !.pc = "place"]
    <3>1. r \in Request
      BY <1>2, <2>1 DEF Request, Phases
    <3> QED
      BY <1>2, <2>1, <3>1 DEF Request
  <2>2. CASE r = [q EXCEPT !.pc = "done", !.outcome = "unavailable"]
    <3>1. r \in Request
      BY <1>2, <2>2 DEF Request, Phases, Outcomes
    <3> QED
      BY <1>2, <2>2, <3>1 DEF Request
  <2> QED
    BY <1>3, <2>1, <2>2
<1>5. q.outcome = "none"
  BY <1>2 DEF RequestSound
<1>6. OwnSound(r) /\ r.pc # "idle"
  BY <1>2, <1>4, <1>5 DEF OwnSound
<1> QED
  BY <1>1, <1>2, <1>3, <1>4, <1>6, OwnMoves DEF PmsQuotes

LEMMA FailKeepsOwn ==
  ASSUME HoldsInv, OwnInv, NEW w \in Workers, CallFails(w)
  PROVE  OwnInv'
<1>1. PICK q : q = req[w]
  OBVIOUS
<1>2. /\ q \in Request /\ q.pc \notin {"idle", "done"} /\ OwnSound(q)
  BY <1>1, BusyIsRequest DEF HoldsInv, OwnInv, CallFails
<1>3. PICK r : r = [q EXCEPT !.pc = "done", !.outcome = "error"]
  OBVIOUS
<1>4. /\ r \in Request /\ r.pc = "done" /\ r.outcome = "error"
      /\ r.kind = q.kind /\ r.guest = q.guest /\ r.token = q.token
  BY <1>2, <1>3 DEF Request, Phases, Outcomes
<1>5. OwnSound(r)
  BY <1>2, <1>4 DEF OwnSound
<1> QED
  BY <1>1, <1>2, <1>3, <1>4, <1>5, OwnMoves DEF CallFails

LEMMA PlaceKeepsOwn ==
  ASSUME HoldsInv, OwnInv, NEW w \in Workers, PlaceHold(w)
  PROVE  OwnInv'
<1>1. PICK q : q = req[w]
  OBVIOUS
<1>2. /\ q \in Request /\ q.pc = "place" /\ OwnSound(q) /\ RequestSound(q)
      /\ q.kind = "quote" /\ q.guest \in Guests /\ q.stay \in Stays
      /\ q.token \in Tokens \cup {None}
  BY <1>1, BusyIsRequest DEF HoldsInv, OwnInv, PlaceHold, RequestSound, Request
<1>3. PICK t \in HoldTokens(q) :
        /\ t \in Tokens
        /\ hold' = [hold EXCEPT ![t] = [stay |-> q.stay, guest |-> q.guest]]
        /\ UNCHANGED <<client, strayed>>
        /\ Held(q, req'[w], t)
        /\ \A v \in Workers \ {w} :
             \/ req'[v] = req[v] /\ StaysRead(req[v]) = {}
             \/ Noted(req[v], req'[v], t)
  BY <1>1, PlaceEffects
<1>4. \A v \in Workers \ {w} :
        /\ req'[v].pc = req[v].pc
        /\ req[v].pc # "idle" =>
             /\ req'[v].kind = req[v].kind /\ req'[v].guest = req[v].guest
             /\ req'[v].token = req[v].token /\ req'[v].found = req[v].found
             /\ req'[v].by = req[v].by /\ req'[v].outcome = req[v].outcome
  BY <1>3 DEF Noted
<1>5. PICK r : r = req'[w]
  OBVIOUS
<1>6. /\ r.pc = "done" /\ r.kind = "quote" /\ r.token = t
      /\ r.outcome \in {"held", "error"} /\ r.guest = q.guest
  BY <1>3, <1>5 DEF Held
<1>7. ASSUME NEW v \in Workers PROVE OwnSound(req[v])'
  <2>1. CASE v = w
    <3>1. q.guest \notin strayed => client[q.guest] \in {None, t}
      BY <1>2, <1>3 DEF OwnSound, HoldTokens
    <3>2. OwnSound(r)'
      BY <1>3, <1>6, <3>1 DEF OwnSound
    <3> QED
      BY <1>5, <2>1, <3>2 DEF OwnSound
  <2>2. CASE v # w
    <3>1. OwnSound(req[v])
      BY DEF OwnInv
    <3>2. PICK p, o : p = req'[v] /\ o = req[v]
      OBVIOUS
    <3>3. /\ p.pc = o.pc
          /\ o.pc # "idle" =>
               /\ p.kind = o.kind /\ p.guest = o.guest
               /\ p.token = o.token /\ p.found = o.found
               /\ p.by = o.by /\ p.outcome = o.outcome
      BY <1>4, <2>2, <3>2
    <3>4. OwnSound(p)'
      BY <1>3, <3>1, <3>2, <3>3 DEF OwnSound
    <3> QED
      BY <3>2, <3>4 DEF OwnSound
  <2> QED
    BY <2>1, <2>2
<1>8. OneAtATime'
  <2>1. \A v \in Workers : /\ req'[v].pc # "idle" <=> req[v].pc # "idle"
                           /\ req[v].pc # "idle" => req'[v].guest = req[v].guest
    BY <1>1, <1>2, <1>4, <1>5, <1>6
  <2> QED
    BY <1>3, <2>1 DEF OwnInv, OneAtATime
<1>9. HoldsKept'
  <2> SUFFICES ASSUME NEW u \in Tokens, Live(u)', hold'[u].guest \notin strayed'
               PROVE  \/ u = client'[hold'[u].guest]
                      \/ \E v \in Workers :
                           Carries(req'[v], hold'[u].guest, u)
    BY DEF HoldsKept, Carries
  <2>1. CASE u = t
    <3>1. hold'[u] = [stay |-> q.stay, guest |-> q.guest]
      BY <1>3, <2>1 DEF HoldsInv, TypeOK
    <3>2. hold'[u].guest = q.guest
      BY <3>1
    <3>3. Carries(r, q.guest, u)
      BY <1>6, <2>1 DEF Carries
    <3> QED
      BY <1>5, <3>2, <3>3
  <2>2. CASE u # t
    <3>1. hold'[u] = hold[u] /\ Live(u) /\ hold[u].guest \notin strayed
      BY <1>3, <2>2 DEF HoldsInv, TypeOK, Live
    <3>2. CASE u = client[hold[u].guest]
      BY <1>3, <3>1, <3>2
    <3>3. CASE \E v \in Workers : Carries(req[v], hold[u].guest, u)
      <4>1. PICK v \in Workers : Carries(req[v], hold[u].guest, u)
        BY <3>3
      <4>2. v # w
        BY <1>1, <1>2, <4>1 DEF Carries
      <4>3. Carries(req'[v], hold[u].guest, u)
        BY <1>4, <4>1, <4>2 DEF Carries
      <4> QED
        BY <3>1, <4>3
    <3> QED
      BY <3>1, <3>2, <3>3 DEF OwnInv, HoldsKept
  <2> QED
    BY <2>1, <2>2
<1> QED
  BY <1>7, <1>8, <1>9 DEF OwnInv

LEMMA AnswerKeepsOwn ==
  ASSUME HoldsInv, OwnInv, NEW w \in Workers, Answer(w)
  PROVE  OwnInv'
<1>1. PICK r : r = req[w]
  OBVIOUS
<1>2. r \in Request /\ r.pc = "done" /\ OwnSound(r) /\ RequestSound(r)
      /\ r.guest \in Guests
  BY <1>1, BusyIsRequest DEF HoldsInv, OwnInv, Answer, Request
<1>3. /\ req'[w] = Idle /\ Idle.pc = "idle"
      /\ \A v \in Workers \ {w} : req'[v] = req[v]
      /\ UNCHANGED hold /\ strayed \subseteq strayed'
      /\ \A g \in Guests \ {r.guest} : client'[g] = client[g]
      /\ r.guest \notin strayed' =>
           /\ r.outcome # "error"
           /\ client'[r.guest] = IF r.outcome = "held" THEN r.token
                                 ELSE client[r.guest]
  BY <1>1, <1>2, IdleFacts DEF Answer, HoldsInv, TypeOK
<1>4. \A v \in Workers \ {w} :
        (req[v].pc # "idle" /\ req[v].guest \notin strayed) =>
          req[v].guest # r.guest /\ req[v].guest \in Guests
  <2> SUFFICES ASSUME NEW v \in Workers \ {w}, req[v].pc # "idle",
                      req[v].guest \notin strayed
               PROVE  req[v].guest # r.guest /\ req[v].guest \in Guests
    OBVIOUS
  <2>1. req[v] \in Request
    BY BusyIsRequest DEF HoldsInv
  <2>2. req[v].guest \in Guests
    BY <2>1 DEF Request
  <2> QED
    BY <1>1, <1>2, <2>2 DEF OwnInv, OneAtATime
<1>5. ASSUME NEW v \in Workers PROVE OwnSound(req[v])'
  <2>1. CASE v = w
    BY <1>3, <2>1 DEF OwnSound
  <2>2. CASE v # w
    <3>1. PICK p : p = req[v] /\ OwnSound(p)
      BY DEF OwnInv
    <3>2. (p.pc # "idle" /\ p.guest \notin strayed) =>
            client'[p.guest] = client[p.guest]
      BY <1>3, <1>4, <2>2, <3>1
    <3>3. OwnSound(p)'
      BY <1>3, <3>1, <3>2 DEF OwnSound
    <3> QED
      BY <1>3, <2>2, <3>1, <3>3 DEF OwnSound
  <2> QED
    BY <2>1, <2>2
<1>6. OneAtATime'
  BY <1>3 DEF OwnInv, OneAtATime
<1>7. HoldsKept'
  <2> SUFFICES ASSUME NEW u \in Tokens, Live(u)', hold'[u].guest \notin strayed'
               PROVE  \/ u = client'[hold'[u].guest]
                      \/ \E v \in Workers :
                           Carries(req'[v], hold'[u].guest, u)
    BY DEF HoldsKept, Carries
  <2>1. PICK g : g = hold[u].guest
    OBVIOUS
  <2>2. /\ Live(u) /\ hold'[u].guest = g /\ g \notin strayed
        /\ g \notin strayed' /\ g \in Guests
    BY <1>3, <2>1 DEF Live, HoldsInv, TypeOK, Hold
  <2>3. u = client[g] \/ \E v \in Workers : Carries(req[v], g, u)
    BY <2>1, <2>2 DEF OwnInv, HoldsKept
  <2>4. CASE g # r.guest
    <3>1. \A v \in Workers : Carries(req[v], g, u) => v # w
      BY <1>1, <2>4 DEF Carries
    <3> QED
      BY <1>3, <2>2, <2>3, <2>4, <3>1
  <2>5. CASE g = r.guest
    <3>1. /\ r.outcome # "error"
          /\ client'[g] = IF r.outcome = "held" THEN r.token ELSE client[g]
      BY <1>3, <2>2, <2>5
    <3>2. CASE u = client[g]
      <4>1. r.outcome = "held" => client[g] \in {None, r.token}
        BY <1>2, <2>2, <2>5 DEF OwnSound, RequestSound
      <4>2. u # None
        BY HoldsAssumption
      <4> QED
        BY <2>2, <3>1, <3>2, <4>1, <4>2
    <3>3. CASE \E v \in Workers : Carries(req[v], g, u)
      <4>1. PICK v \in Workers : Carries(req[v], g, u)
        BY <3>3
      <4>2. v = w
        BY <1>4, <2>2, <2>5, <4>1 DEF Carries
      <4>3. r.outcome = "held" /\ r.token = u
        BY <1>1, <3>1, <4>1, <4>2 DEF Carries
      <4> QED
        BY <2>2, <3>1, <4>3
    <3> QED
      BY <2>3, <3>2, <3>3
  <2> QED
    BY <2>4, <2>5
<1> QED
  BY <1>5, <1>6, <1>7 DEF OwnInv

LEMMA ExpireKeepsOwn ==
  ASSUME HoldsInv, OwnInv, NEW t \in Tokens, ExpireHold(t)
  PROVE  OwnInv'
<1>1. /\ UNCHANGED <<req, client, strayed>>
      /\ \A u \in Tokens : Live(u)' => Live(u) /\ hold'[u] = hold[u]
  BY DEF ExpireHold, Live, HoldsInv, TypeOK
<1>2. \A w \in Workers : OwnSound(req[w])'
  BY <1>1 DEF OwnInv, OwnSound
<1>3. OneAtATime'
  BY <1>1 DEF OwnInv, OneAtATime
<1>4. HoldsKept'
  BY <1>1 DEF OwnInv, HoldsKept, Carries
<1> QED
  BY <1>2, <1>3, <1>4 DEF OwnInv

-----------------------------------------------------------------------------
(* The invariant.                                                          *)

LEMMA InitSound == Init => HoldsInv /\ OwnInv
<1> SUFFICES ASSUME Init PROVE HoldsInv /\ OwnInv
  OBVIOUS
<1>1. \A w \in Workers : req[w] = Idle
  BY DEF Init
<1>2. \A t \in Tokens : hold[t] = None
  BY DEF Init
<1>3. TypeOK
  BY <1>1, <1>2 DEF Init, TypeOK, Live
<1>4. RivalsOnlyIfConcurrent
  BY <1>2 DEF RivalsOnlyIfConcurrent, Listed, Live
<1>5. \A w \in Workers : /\ RequestSound(req[w]) /\ HoldsRead(req[w])
                         /\ Cleared(req[w]) /\ OffersStand(req[w])
  BY <1>1, IdleSound
<1>6. OwnInv
  BY <1>1, <1>2, IdleFacts DEF OwnInv, OwnSound, OneAtATime, HoldsKept, Live
<1> QED
  BY <1>3, <1>4, <1>5, <1>6 DEF HoldsInv

LEMMA StepSound == HoldsInv /\ OwnInv /\ [Next]_vars => HoldsInv' /\ OwnInv'
<1> SUFFICES ASSUME HoldsInv, OwnInv, [Next]_vars
             PROVE  HoldsInv' /\ OwnInv'
  OBVIOUS
<1>1. ASSUME NEW w \in Workers, NEW g \in Guests, NEW s \in Stays,
             ArriveQuote(w, g, s)
      PROVE  HoldsInv' /\ OwnInv'
  <2>1. client[g] \in issued \cup {None}
    BY DEF HoldsInv, TypeOK
  <2>2. Arrive(w, g, s, "quote", client[g], {})
    BY <1>1 DEF ArriveQuote
  <2> QED
    BY <2>1, <2>2, ArriveKeepsInv, ArriveKeepsOwn
<1>2. ASSUME NEW w \in Workers, NEW g \in Guests, NEW s \in Stays,
             NEW window \in Windows, ArriveSearch(w, g, s, window)
      PROVE  HoldsInv' /\ OwnInv'
  <2>1. Arrive(w, g, s, "search", None, window \ {s})
    BY <1>2 DEF ArriveSearch
  <2>2. window \ {s} \in SUBSET Stays /\ s \notin window \ {s}
    BY HoldsAssumption
  <2> QED
    BY <2>1, <2>2, ArriveKeepsInv, ArriveKeepsOwn
<1>3. ASSUME NEW w \in Workers, RequestStep(w) PROVE HoldsInv' /\ OwnInv'
  <2>1. CASE ListHolds(w)
    BY <2>1, ListKeepsInv, ListKeepsOwn
  <2>2. CASE LoadHold(w)
    BY <2>2, LoadKeepsInv, LoadKeepsOwn
  <2>3. CASE PruneAndDecide(w)
    BY <2>3, DecideKeepsInv, DecideKeepsOwn
  <2>4. CASE PmsQuotes(w)
    BY <2>4, PmsKeepsInv, PmsKeepsOwn
  <2>5. CASE PlaceHold(w)
    BY <2>5, PlaceKeepsInv, PlaceKeepsOwn
  <2>6. CASE CallFails(w)
    BY <2>6, FailKeepsInv, FailKeepsOwn
  <2>7. CASE Answer(w)
    BY <2>7, AnswerKeepsInv, AnswerKeepsOwn
  <2> QED
    BY <1>3, <2>1, <2>2, <2>3, <2>4, <2>5, <2>6, <2>7 DEF RequestStep
<1>4. ASSUME NEW t \in Tokens, ExpireHold(t) PROVE HoldsInv' /\ OwnInv'
  BY <1>4, ExpireKeepsInv, ExpireKeepsOwn
<1>5. ASSUME UNCHANGED vars PROVE HoldsInv' /\ OwnInv'
  <2>1. HoldsInv'
    BY <1>5 DEF vars, HoldsInv, TypeOK, RequestSound, HoldsRead, Cleared,
                OffersStand, RivalsOnlyIfConcurrent, Listed, Live
  <2>2. OwnInv'
    BY <1>5 DEF vars, OwnInv, OwnSound, OneAtATime, HoldsKept, Carries, Live
  <2> QED
    BY <2>1, <2>2
<1> QED
  BY <1>1, <1>2, <1>3, <1>4, <1>5 DEF Next

(* Every reachable state is sound: what a request has read, what it was    *)
(* told and what it placed (getQuote, the searches, HoldStore).            *)
THEOREM HoldsInvariant == Spec => [](HoldsInv /\ OwnInv)
<1>1. Init => HoldsInv /\ OwnInv
  BY InitSound
<1>2. HoldsInv /\ OwnInv /\ [Next]_vars => (HoldsInv /\ OwnInv)'
  BY StepSound
<1> QED
  BY <1>1, <1>2, PTL DEF Spec

(* Holds and requests stay well formed, and every token is a drawn one.    *)
THEOREM HoldsTypeCorrect == Spec => []TypeOK
<1>1. HoldsInv /\ OwnInv => TypeOK
  BY DEF HoldsInv
<1> QED
  BY <1>1, HoldsInvariant, PTL

(* Two listed holds compete for a room only if their requests were under   *)
(* way together (getQuote's check of the active holds).                    *)
THEOREM RivalsConcurrent == Spec => []RivalsOnlyIfConcurrent
<1>1. HoldsInv /\ OwnInv => RivalsOnlyIfConcurrent
  BY DEF HoldsInv
<1> QED
  BY <1>1, HoldsInvariant, PTL

(* No search offers a stay that competes with a listed hold older than the *)
(* reading of the holds for it (searchAvailability,                        *)
(* searchFlexibleAvailability).                                            *)
THEOREM SearchesHide == Spec => []SearchHidesHolds
<1>1. HoldsInv /\ OwnInv => SearchHidesHolds
  BY DEF HoldsInv, SearchHidesHolds, OffersStand
<1> QED
  BY <1>1, HoldsInvariant, PTL

(* A guest that keeps to one request at a time and receives its answers is *)
(* never refused by its own hold (the reuse of the token in getQuote).     *)
THEOREM OwnHoldHarmless == Spec => []OwnHoldNeverRefuses
<1>1. HoldsInv /\ OwnInv => OwnHoldNeverRefuses
  <2> SUFFICES ASSUME HoldsInv, OwnInv, NEW w \in Workers,
                      req[w].pc = "done", req[w].outcome = "refused",
                      req[w].guest \notin strayed
               PROVE  req[w].by # {req[w].guest}
    BY DEF OwnHoldNeverRefuses
  <2>1. req[w].guest \notin req[w].by
    BY DEF OwnInv, OwnSound
  <2> QED
    BY <2>1
<1> QED
  BY <1>1, HoldsInvariant, PTL

=============================================================================
