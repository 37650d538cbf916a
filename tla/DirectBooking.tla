---------------------------- MODULE DirectBooking ----------------------------
(***************************************************************************)
(* Direct bookings: the storefront's create_booking,                       *)
(* record_direct_reservation and cancel_booking over the Redis idempotency *)
(* store, the PMS and the canonical reservation store (Reservations).      *)
(*                                                                         *)
(* A worker serves one HTTP request at a time: req[w] is the handler's     *)
(* progress and job[w] the service call it makes.  The client of a request *)
(* is a booking engine outside this repository: it repeats the request     *)
(* while it has no answer, possibly while an earlier attempt still runs.   *)
(*                                                                         *)
(* The PMS is outside this repository too.  It is given the idempotency    *)
(* key; PmsDedupes says whether it honours it.  Every failed or lost call  *)
(* of Redis, of the PMS and of an answer draws on the budget MaxFaults, so *)
(* does the end of the 24 hours a Redis record lives.                      *)
(***************************************************************************)
EXTENDS Reservations

CONSTANTS
  Properties,   (* properties of the organisation                          *)
  Requests,     (* the requests of clients (see RequestRecord)             *)
  PmsDedupes,   (* the PMS returns the first booking of a repeated key     *)
  MaxBookings,  (* bound: bookings the PMS makes                           *)
  FaultKinds,   (* the kinds of calls that may fail or be lost             *)
  MaxFaults     (* bound: failed or lost calls outside the database        *)

Kinds == {"create", "mirror", "cancel"}

(* hash stands for the payload and its fingerprint; a mirror request names *)
(* the booking the engine made at the PMS by itself, a cancel request the  *)
(* booking it cancels.                                                     *)
RequestRecord ==
  [ kind : Kinds, prop : Properties, key : Nat, hash : Nat,
    stays : Nat \ {0}, booking : Nat ]

ASSUME DirectAssumption ==
  /\ Requests \subseteq RequestRecord
  /\ None \notin Requests
  /\ PmsDedupes \in BOOLEAN
  /\ FaultKinds \subseteq {"get", "pms", "put", "cancel", "reply", "expiry"}
  /\ MaxBookings \in Nat
  /\ MaxFaults \in Nat
  /\ 1..MaxBookings \subseteq Externals
  /\ \A r \in Requests : r.kind = "mirror" => r.booking \in Externals

VARIABLES
  engineOn,   (* engineOn[p]: the booking engine of property p is enabled  *)
  idem,       (* idem[s]: the Redis record under scope s, or None          *)
  pms,        (* pms[b]: the booking the PMS made as number b              *)
  req,        (* req[w]: the handler worker w runs                         *)
  client,     (* client[r]: what the client of request r knows             *)
  answers,    (* history: the successful answers of create_booking         *)
  faults      (* failed or lost calls so far (bound)                       *)

directVars == <<engineOn, idem, pms, req, client, answers, faults>>
vars == <<resVars, directVars>>

-----------------------------------------------------------------------------
(* bookingIdempotencyStoreKey: organisation, property and key.             *)
Scope(r) == <<r.prop, r.key>>
Scopes == {Scope(r) : r \in Requests}

(* The key persistReservation gets: one per stay, without the property.    *)
ReservationKey(r, index) ==
  IF r.stays = 1 THEN <<r.key>> ELSE <<r.key, index>>

IdemRecord == [hash : Nat, booking : Nat, pending : BOOLEAN]

ASSUME IdemAssumption == None \notin IdemRecord

PmsBooking == [scope : Scopes, hash : Nat]
HandlerPhases == {"idle", "get", "pms", "record", "put", "cancel", "release",
                  "reply"}

(* row is the reservation a cancel_booking names, 0 for none.              *)
HandlerRecord == [pc : HandlerPhases, r : Requests \cup {None}, booking : Nat,
                  index : Nat, pending : BOOLEAN, row : 0..MaxRows]
IdleReq == [pc |-> "idle", r |-> None, booking |-> 0, index |-> 0,
            pending |-> FALSE, row |-> 0]

DirectInit ==
  /\ ResInit
  /\ engineOn = [p \in Properties |-> TRUE]
  /\ idem = [s \in Scopes |-> None]
  /\ pms = <<>>
  /\ req = [w \in Workers |-> IdleReq]
  /\ client = [r \in Requests |-> "waiting"]
  /\ answers = {}
  /\ faults = 0

Fault(kind) ==
  kind \in FaultKinds /\ faults < MaxFaults /\ faults' = faults + 1
NoFault == UNCHANGED faults
Step(w, phase) == req' = [req EXCEPT ![w].pc = phase]
End(w) == req' = [req EXCEPT ![w] = IdleReq]
Hears(r, what) ==
  client' = [client EXCEPT ![r] = IF @ = "waiting" THEN what ELSE @]

(* The client sends (again) a create_booking request, and                  *)
(* requireBookingEngine reads the property's switch.                       *)
ArriveCreate(w, r) ==
  /\ req[w].pc = "idle"
  /\ r.kind = "create" /\ client[r] = "waiting"
  /\ IF engineOn[r.prop]
     THEN /\ req' = [req EXCEPT ![w] = [IdleReq EXCEPT !.pc = "get", !.r = r]]
          /\ UNCHANGED client
     ELSE Hears(r, "refused") /\ UNCHANGED req
  /\ UNCHANGED <<resVars, engineOn, idem, pms, answers, faults>>

(* The client mirrors a booking it made at the PMS itself: the switch does *)
(* not gate this handler.                                                  *)
ArriveMirror(w, r) ==
  /\ req[w].pc = "idle"
  /\ r.kind = "mirror" /\ client[r] = "waiting"
  /\ req' = [req EXCEPT ![w] = [IdleReq EXCEPT !.pc = "record", !.r = r,
                                               !.booking = r.booking]]
  /\ UNCHANGED <<resVars, engineOn, idem, pms, client, answers, faults>>

(* The client cancels a booking.  reservation_id is its own word, also for *)
(* a booking of another request or no row at all; the switch does not gate *)
(* this handler either.                                                    *)
ArriveCancel(w, r, row) ==
  /\ req[w].pc = "idle"
  /\ r.kind = "cancel" /\ client[r] = "waiting"
  /\ req' = [req EXCEPT ![w] = [IdleReq EXCEPT !.pc = "cancel", !.r = r,
                                               !.row = row]]
  /\ UNCHANGED <<resVars, engineOn, idem, pms, client, answers, faults>>

Replay(w, record) ==
  /\ req' = [req EXCEPT ![w].pc = "reply", ![w].booking = record.booking,
                        ![w].pending = record.pending]
  /\ UNCHANGED client

(* Mutant: a cached answer is replayed whatever the payload.               *)
IdemGetAnyPayload(w) ==
  /\ req[w].pc = "get"
  /\ LET record == idem[Scope(req[w].r)] IN
       CASE record = None -> Step(w, "pms") /\ UNCHANGED client
         [] record # None -> Replay(w, record)
  /\ UNCHANGED <<resVars, engineOn, idem, pms, answers, faults>>

(* IdempotencyStore.Get: unseen goes on, a record of the same payload is   *)
(* replayed, another payload is ErrDuplicateRequest.                       *)
IdemGet(w) ==
  /\ req[w].pc = "get"
  /\ LET r == req[w].r
         record == idem[Scope(r)]
     IN CASE record = None -> Step(w, "pms") /\ UNCHANGED client
          [] record # None /\ record.hash = r.hash -> Replay(w, record)
          [] record # None /\ record.hash # r.hash ->
               End(w) /\ Hears(r, "refused")
  /\ UNCHANGED <<resVars, engineOn, idem, pms, answers, faults>>

(* Redis fails, the PMS refuses the booking or the cancellation, or its    *)
(* answer is lost: the client gets an error.                               *)
CallFails(w) ==
  /\ req[w].pc \in {"get", "pms", "cancel"}
  /\ Fault(req[w].pc)
  /\ End(w)
  /\ UNCHANGED <<resVars, engineOn, idem, pms, client, answers>>

(* The bookings the PMS knows under the forwarded key.                     *)
PriorBookings(r) ==
  {b \in DOMAIN pms : PmsDedupes /\ pms[b].scope = Scope(r)}

(* Mutant: an answer without a usable confirmation number is taken for a   *)
(* booking.                                                                *)
PmsBooksUnconfirmed(w) ==
  /\ req[w].pc = "pms"
  /\ LET r == req[w].r
         prior == PriorBookings(r)
         b == IF prior = {} THEN Len(pms) + 1 ELSE CHOOSE n \in prior : TRUE
     IN /\ b <= MaxBookings
        /\ pms' = IF prior = {}
                  THEN Append(pms, [scope |-> Scope(r), hash |-> r.hash])
                  ELSE pms
        /\ \E named \in {b, 0} :
             req' = [req EXCEPT ![w].pc = "record", ![w].booking = named]
        /\ NoFault
  /\ UNCHANGED <<resVars, engineOn, idem, client, answers>>

(* PmsService.CreateBooking: the PMS books, or finds the booking it made   *)
(* under the key.  Its answer may be lost or unusable (more than one       *)
(* confirmation number): the handler then ends in an error.                *)
PmsBooks(w) ==
  /\ req[w].pc = "pms"
  /\ LET r == req[w].r
         prior == PriorBookings(r)
         b == IF prior = {} THEN Len(pms) + 1 ELSE CHOOSE n \in prior : TRUE
     IN /\ b <= MaxBookings
        /\ pms' = IF prior = {}
                  THEN Append(pms, [scope |-> Scope(r), hash |-> r.hash])
                  ELSE pms
        /\ \/ /\ req' = [req EXCEPT ![w].pc = "record", ![w].booking = b]
              /\ NoFault
           \/ Fault("pms") /\ End(w)
  /\ UNCHANGED <<resVars, engineOn, idem, client, answers>>

(* Mutant: the caller's key is not passed on.                              *)
StayCallKeyless(w) ==
  [op |-> "record", conn |-> None, ext |-> req[w].booking,
   status |-> "confirmed", key |-> None]

(* The RecordReservation call for the stay at the handler's index.         *)
StayCall(w) ==
  [op |-> "record", conn |-> None, ext |-> req[w].booking,
   status |-> "confirmed", key |-> ReservationKey(req[w].r, req[w].index)]

(* The persist calls a handler can make.                                   *)
StayCalls ==
  UNION { { [op |-> "record", conn |-> None, ext |-> b, status |-> "confirmed",
             key |-> ReservationKey(r, i)]
            : b \in Externals, i \in 0..(r.stays - 1) }
          : r \in {q \in Requests : q.kind # "cancel"} }

ASSUME StayAssumption == StayCalls \subseteq Calls

RecordStay(w) ==
  /\ req[w].pc = "record"
  /\ StartPersist(w, StayCall(w))
  /\ UNCHANGED directVars

(* Mutant: a failed write of a stay is not reported as pending.            *)
StayRecordedSilently(w) ==
  /\ req[w].pc = "record" /\ job[w].pc = "done"
  /\ LET r == req[w].r
         failed == job[w].outcome = "error"
         last == req[w].index + 1 = r.stays
     IN IF r.kind = "mirror" /\ failed
        THEN End(w)
        ELSE req' = [req EXCEPT ![w].index = @ + 1,
               ![w].pc = IF ~last THEN "record"
                         ELSE IF r.kind = "create" THEN "put" ELSE "reply"]
  /\ Return(w)
  /\ UNCHANGED <<engineOn, idem, pms, client, answers, faults>>

(* Mutant: a stay that cannot be written is tried again until it can.      *)
StayRetried(w) ==
  /\ req[w].pc = "record" /\ job[w].pc = "done"
  /\ LET r == req[w].r
         last == req[w].index + 1 = r.stays
     IN IF job[w].outcome = "error"
        THEN UNCHANGED req
        ELSE req' = [req EXCEPT ![w].index = @ + 1,
               ![w].pc = IF ~last THEN "record"
                         ELSE IF r.kind = "create" THEN "put" ELSE "reply"]
  /\ Return(w)
  /\ UNCHANGED <<engineOn, idem, pms, client, answers, faults>>

(* Mutant: a duplicate is taken for an error.                              *)
StayDuplicateFails(w) ==
  /\ req[w].pc = "record" /\ job[w].pc = "done"
  /\ LET r == req[w].r
         failed == job[w].outcome # "saved"
         last == req[w].index + 1 = r.stays
     IN IF r.kind = "mirror" /\ failed
        THEN End(w)
        ELSE req' = [req EXCEPT ![w].index = @ + 1,
               ![w].pending = @ \/ failed,
               ![w].pc = IF ~last THEN "record"
                         ELSE IF r.kind = "create" THEN "put" ELSE "reply"]
  /\ Return(w)
  /\ UNCHANGED <<engineOn, idem, pms, client, answers, faults>>

(* persistReservation: a duplicate is as good as a row, an error makes the *)
(* answer pending.  recordDirectReservation: an error is the answer.       *)
StayRecorded(w) ==
  /\ req[w].pc = "record" /\ job[w].pc = "done"
  /\ LET r == req[w].r
         failed == job[w].outcome = "error"
         last == req[w].index + 1 = r.stays
     IN IF r.kind = "mirror" /\ failed
        THEN End(w)
        ELSE req' = [req EXCEPT ![w].index = @ + 1,
               ![w].pending = @ \/ failed,
               ![w].pc = IF ~last THEN "record"
                         ELSE IF r.kind = "create" THEN "put" ELSE "reply"]
  /\ Return(w)
  /\ UNCHANGED <<engineOn, idem, pms, client, answers, faults>>

(* Mutant: the answer is not cached.                                       *)
IdemPutNothing(w) ==
  /\ req[w].pc = "put"
  /\ NoFault
  /\ Step(w, "reply")
  /\ UNCHANGED <<resVars, engineOn, idem, pms, client, answers>>

(* IdempotencyStore.Put: cached also when the client is gone; a failure is *)
(* only logged.                                                            *)
IdemPut(w) ==
  /\ req[w].pc = "put"
  /\ \/ /\ idem' = [idem EXCEPT ![Scope(req[w].r)] =
                      [hash |-> req[w].r.hash, booking |-> req[w].booking,
                       pending |-> req[w].pending]]
        /\ NoFault
     \/ Fault("put") /\ UNCHANGED idem
  /\ Step(w, "reply")
  /\ UNCHANGED <<resVars, engineOn, pms, client, answers>>

(* PmsService.CancelBooking, which knows no idempotency key.               *)
PmsCancels(w) ==
  /\ req[w].pc = "cancel"
  /\ Step(w, IF req[w].row = 0 THEN "reply" ELSE "release")
  /\ UNCHANGED <<resVars, engineOn, idem, pms, client, answers, faults>>

(* cancelBooking mirrors the cancellation: CancelReservation for the row   *)
(* the client named.                                                       *)
ReleaseRow(w) ==
  /\ req[w].pc = "release"
  /\ StartCancel(w, req[w].row)
  /\ UNCHANGED directVars

(* The guest hears of success whatever became of the row.                  *)
RowReleased(w) ==
  /\ req[w].pc = "release"
  /\ Return(w)
  /\ Step(w, "reply")
  /\ UNCHANGED <<engineOn, idem, pms, client, answers, faults>>

(* The answer leaves; it may be lost on the way to the client.             *)
Reply(w) ==
  /\ req[w].pc = "reply"
  /\ LET r == req[w].r IN
       /\ answers' = IF r.kind = "create"
                     THEN answers \cup {[r |-> r, booking |-> req[w].booking,
                                         pending |-> req[w].pending]}
                     ELSE answers
       /\ \/ Hears(r, "answered") /\ NoFault
          \/ Fault("reply") /\ UNCHANGED client
  /\ End(w)
  /\ UNCHANGED <<resVars, engineOn, idem, pms>>

(* The 24 hours of a Redis record end.                                     *)
ExpireIdem(s) ==
  /\ idem[s] # None
  /\ Fault("expiry")
  /\ idem' = [idem EXCEPT ![s] = None]
  /\ UNCHANGED <<resVars, engineOn, pms, req, client, answers>>

(* An operator switches the property's booking engine.                     *)
ToggleEngine(p) ==
  /\ engineOn' = [engineOn EXCEPT ![p] = ~@]
  /\ UNCHANGED <<resVars, idem, pms, req, client, answers, faults>>

(* The process stops: handlers and calls in flight are gone.               *)
ProcessRestart ==
  /\ Restart
  /\ req' = [w \in Workers |-> IdleReq]
  /\ UNCHANGED <<engineOn, idem, pms, client, answers, faults>>

HandlerStep(w) ==
  \/ IdemGet(w)
  \/ CallFails(w)
  \/ PmsBooks(w)
  \/ RecordStay(w)
  \/ ServiceStep(w) /\ UNCHANGED directVars
  \/ StayRecorded(w)
  \/ IdemPut(w)
  \/ PmsCancels(w)
  \/ ReleaseRow(w)
  \/ RowReleased(w)
  \/ Reply(w)

Arrive(r) ==
  \E w \in Workers :
    \/ ArriveCreate(w, r)
    \/ ArriveMirror(w, r)
    \/ \E row \in 0..MaxRows : ArriveCancel(w, r, row)

DirectNext ==
  \/ \E r \in Requests : Arrive(r)
  \/ \E w \in Workers : HandlerStep(w)
  \/ \E s \in Scopes : ExpireIdem(s)
  \/ \E p \in Properties : ToggleEngine(p)
  \/ ProcessRestart

DirectSpec == DirectInit /\ [][DirectNext]_vars

(* Handlers run to their end, and a client without an answer asks again.   *)
FairDirectSpec ==
  /\ DirectSpec
  /\ \A w \in Workers : WF_vars(HandlerStep(w))
  /\ \A r \in Requests : WF_vars(Arrive(r))

-----------------------------------------------------------------------------
(* Properties.                                                             *)

(* Handlers, records, bookings and answers have the shapes the code gives  *)
(* them; a handler has a request exactly while it runs.                    *)
DirectTypeOK ==
  /\ TypeOK
  /\ engineOn \in [Properties -> BOOLEAN]
  /\ idem \in [Scopes -> IdemRecord \cup {None}]
  /\ pms \in Seq(PmsBooking)
  /\ req \in [Workers -> HandlerRecord]
  /\ \A w \in Workers : req[w].pc = "idle" <=> req[w].r = None
  /\ client \in [Requests -> {"waiting", "answered", "refused"}]
  /\ answers \subseteq [r : Requests, booking : Nat, pending : BOOLEAN]
  /\ faults \in Nat

StoredStays(b) == {i \in DOMAIN rows : rows[i].ext = b}

(* An answer of create_booking without reconciliation_pending has a        *)
(* canonical reservation for each of its stays, whatever failed before.    *)
RecordedOrPending ==
  \A a \in answers :
    a.pending \/ Cardinality(StoredStays(a.booking)) >= a.r.stays

(* The bookings of a request: made under its key for its own payload, or   *)
(* the one the engine asks to mirror.                                      *)
Own(r) ==
  {b \in DOMAIN pms : r.kind = "create" /\ pms[b].scope = Scope(r)
                                        /\ pms[b].hash = r.hash}
    \cup {b \in {r.booking} : r.kind = "mirror"}

(* A booking has one canonical reservation per stay, however often its     *)
(* request is repeated.                                                    *)
NoDuplicateOf(r) == \A b \in Own(r) : Cardinality(StoredStays(b)) <= r.stays
NoDuplicateRow == \A r \in Requests : NoDuplicateOf(r)

(* A repeated key is never answered with the booking of another payload.   *)
AnswerMatchesPayload ==
  \A a \in answers : a.booking \in DOMAIN pms /\ pms[a.booking].hash = a.r.hash

(* One booking is made under a key, although the PMS does not know keys:   *)
(* the cached answer alone keeps sequential retries from booking twice.    *)
OneBookingPerScope ==
  \A b, c \in DOMAIN pms : pms[b].scope = pms[c].scope => b = c

(* createBooking keeps the promise of BookingPromise.                      *)
Promise == INSTANCE BookingPromise WITH
  Bookings <- 1..MaxBookings,
  booked <- [s \in Scopes |-> {b \in DOMAIN pms : pms[b].scope = s}],
  told <- [s \in Scopes |->
             {a.booking : a \in {x \in answers : Scope(x.r) = s}}]
KeepsPromise == Promise!PromiseSpec

(* A client that goes on asking is answered or refused in the end: no      *)
(* interleaving of retries, restarts and lost answers leaves it waiting.   *)
EveryRequestSettles ==
  \A r \in Requests : client[r] = "waiting" ~> client[r] # "waiting"
=============================================================================
