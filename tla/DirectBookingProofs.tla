------------------------- MODULE DirectBookingProofs -------------------------
(***************************************************************************)
(* Proofs about DirectBooking for every set of workers, properties and     *)
(* requests, every number of stays, faults and restarts, and a PMS that    *)
(* honours the idempotency key or ignores it, as each theorem says.        *)
(***************************************************************************)
EXTENDS DirectBooking, ReservationsProofs, FiniteSetTheorems

(* Handlers, records, bookings and answers by themselves.                  *)
DirectShape ==
  /\ engineOn \in [Properties -> BOOLEAN]
  /\ idem \in [Scopes -> IdemRecord \cup {None}]
  /\ pms \in Seq(PmsBooking)
  /\ req \in [Workers -> HandlerRecord]
  /\ client \in [Requests -> {"waiting", "answered", "refused"}]
  /\ answers \subseteq [r : Requests, booking : Nat, pending : BOOLEAN]
  /\ faults \in Nat

(* Number b is the booking of request r: made under its scope, and for its *)
(* own payload unless the PMS answers a repeated key by itself.            *)
Made(r, b) ==
  /\ b \in DOMAIN pms
  /\ pms[b].scope = Scope(r)
  /\ ~PmsDedupes => pms[b].hash = r.hash

HandlerSound(h) ==
  /\ h.pc = "idle" <=> h.r = None
  /\ h.pc \in {"get", "pms", "put"} => h.r.kind = "create"
  /\ h.pc \in {"get", "pms"} => h.index = 0
  /\ h.pc = "record" =>
       h.index < h.r.stays /\ h.booking \in Externals /\ h.r.kind # "cancel"
  /\ (h.pc = "record" /\ h.r.kind = "mirror") => h.booking = h.r.booking
  /\ h.pc \in {"cancel", "release"} => h.r.kind = "cancel"
  /\ h.pc = "release" => h.row # 0
  /\ (h.pc \in {"record", "put", "reply"} /\ h.r.kind = "create")
       => Made(h.r, h.booking)

(* A cached answer names a booking of its scope and its payload.           *)
IdemSound ==
  \A s \in Scopes : idem[s] # None =>
    /\ idem[s].booking \in DOMAIN pms
    /\ pms[idem[s].booking].scope = s
    /\ ~PmsDedupes => pms[idem[s].booking].hash = idem[s].hash

(* A PMS that honours keys makes one booking under each.                   *)
PmsSound ==
  /\ Len(pms) <= MaxBookings
  /\ PmsDedupes =>
       \A b, c \in DOMAIN pms : pms[b].scope = pms[c].scope => b = c

AnswersSound ==
  \A a \in answers : a.r.kind = "create" /\ Made(a.r, a.booking)

DirectInv ==
  /\ DirectShape
  /\ \A w \in Workers : HandlerSound(req[w])
  /\ IdemSound
  /\ PmsSound
  /\ AnswersSound

(* The PMS forgets no booking.                                             *)
PmsGrow ==
  /\ DOMAIN pms \subseteq DOMAIN pms'
  /\ \A b \in DOMAIN pms : pms'[b] = pms[b]

-----------------------------------------------------------------------------
LEMMA IdleReqType ==
  /\ IdleReq \in HandlerRecord
  /\ IdleReq.pc = "idle" /\ IdleReq.r = None
BY ReservationAssumption DEF IdleReq, HandlerRecord, HandlerPhases

LEMMA MadeStays ==
  ASSUME PmsGrow, NEW r, NEW b
  PROVE  Made(r, b) => Made(r, b)'
BY DEF PmsGrow, Made

LEMMA HandlerSoundStays ==
  ASSUME PmsGrow, NEW h, HandlerSound(h)
  PROVE  HandlerSound(h)'
<1>1. Made(h.r, h.booking) => Made(h.r, h.booking)'
  BY MadeStays
<1> QED
  BY <1>1 DEF HandlerSound

LEMMA HandlerType ==
  ASSUME DirectInv, NEW w \in Workers
  PROVE  /\ req[w] \in HandlerRecord /\ HandlerSound(req[w])
         /\ req[w].pc # "idle" => req[w].r \in Requests
BY DEF DirectInv, DirectShape, HandlerSound, HandlerRecord

LEMMA RequestType ==
  ASSUME NEW r \in Requests
  PROVE  /\ r.kind \in Kinds /\ r.prop \in Properties /\ r.hash \in Nat
         /\ r.stays \in Nat \ {0} /\ r.booking \in Nat /\ r # None
         /\ Scope(r) \in Scopes
BY DirectAssumption DEF RequestRecord, Scopes

(* One handler moves, the others stay as they are.                         *)
LEMMA OneHandler ==
  ASSUME DirectInv, PmsGrow, NEW w \in Workers, NEW h \in HandlerRecord,
         req' = [req EXCEPT ![w] = h], HandlerSound(h)'
  PROVE  req' \in [Workers -> HandlerRecord] /\ \A v \in Workers : HandlerSound(req[v])'
<1>1. req \in [Workers -> HandlerRecord]
  BY DEF DirectInv, DirectShape
<1>2. req' \in [Workers -> HandlerRecord]
  BY <1>1
<1>3. ASSUME NEW v \in Workers PROVE HandlerSound(req[v])'
  <2>1. PICK g \in HandlerRecord : g = req'[v] /\ (g = h \/ g = req[v])
    BY <1>1, <1>2
  <2>2. HandlerSound(g)'
    BY <2>1, HandlerSoundStays DEF DirectInv
  <2> QED
    BY <2>1, <2>2 DEF HandlerSound, Made
<1> QED
  BY <1>2, <1>3

(* So much for steps that leave bookings, records and answers alone.       *)
LEMMA QuietHandler ==
  ASSUME DirectInv, NEW w \in Workers, NEW h \in HandlerRecord,
         req' = [req EXCEPT ![w] = h], HandlerSound(h),
         UNCHANGED <<engineOn, idem, pms, answers>>,
         client' \in [Requests -> {"waiting", "answered", "refused"}],
         faults' \in Nat
  PROVE  DirectInv'
<1>1. PmsGrow /\ HandlerSound(h)'
  BY DEF PmsGrow, HandlerSound, Made
<1>2. req' \in [Workers -> HandlerRecord] /\ \A v \in Workers : HandlerSound(req[v])'
  BY <1>1, OneHandler
<1> QED
  BY <1>2 DEF DirectInv, DirectShape, IdemSound, PmsSound, AnswersSound, Made

LEMMA HearsType ==
  ASSUME DirectInv, NEW r \in Requests, NEW what \in {"answered", "refused"},
         Hears(r, what)
  PROVE  client' \in [Requests -> {"waiting", "answered", "refused"}]
BY DEF DirectInv, DirectShape, Hears

LEMMA FaultsType ==
  ASSUME DirectInv, UNCHANGED faults \/ \E kind \in FaultKinds : Fault(kind)
  PROVE  faults' \in Nat
BY DEF DirectInv, DirectShape, Fault

LEMMA DirectInvInit == DirectInit => DirectInv
<1> SUFFICES ASSUME DirectInit PROVE DirectInv
  OBVIOUS
<1>1. /\ engineOn = [p \in Properties |-> TRUE] /\ idem = [s \in Scopes |-> None]
      /\ pms = <<>> /\ req = [w \in Workers |-> IdleReq]
      /\ client = [r \in Requests |-> "waiting"] /\ answers = {} /\ faults = 0
  BY DEF DirectInit
<1>2. DirectShape
  BY <1>1, IdleReqType DEF DirectShape
<1>3. \A w \in Workers : HandlerSound(req[w])
  BY <1>1, IdleReqType DEF HandlerSound
<1>4. PmsSound
  BY <1>1, DirectAssumption DEF PmsSound
<1> QED
  BY <1>1, <1>2, <1>3, <1>4 DEF DirectInv, IdemSound, AnswersSound

-----------------------------------------------------------------------------
(* An arriving request gets a fresh handler, or the worker stays idle.      *)
LEMMA ArriveMove ==
  ASSUME DirectInv, NEW w \in Workers, NEW r \in Requests,
         \/ ArriveCreate(w, r)
         \/ ArriveMirror(w, r)
         \/ \E row \in 0..MaxRows : ArriveCancel(w, r, row)
  PROVE  \E h \in HandlerRecord :
           /\ req' = [req EXCEPT ![w] = h] /\ HandlerSound(h)
           /\ \/ h = req[w]
              \/ /\ UNCHANGED client
                 /\ h.r = r /\ h.index = 0 /\ ~h.pending
                 /\ h.pc \in {"get", "record", "cancel"}
                 /\ h.pc = "record" => r.kind = "mirror"
<1>1. req \in [Workers -> HandlerRecord] /\ r # None /\ req[w] \in HandlerRecord
      /\ HandlerSound(req[w])
  BY RequestType, HandlerType DEF DirectInv, DirectShape
<1>2. CASE ArriveMirror(w, r)
  <2> DEFINE h == [IdleReq EXCEPT !.pc = "record", !.r = r, !.booking = r.booking]
  <2>1. r.kind = "mirror" /\ req' = [req EXCEPT ![w] = h] /\ UNCHANGED client
    BY <1>2 DEF ArriveMirror
  <2>2. r.booking \in Externals /\ r.booking \in Nat /\ 0 < r.stays
    BY <2>1, RequestType, DirectAssumption
  <2>3. h \in HandlerRecord
    BY <2>2, IdleReqType DEF HandlerRecord, HandlerPhases
  <2>4. h.pc = "record" /\ h.r = r /\ h.booking = r.booking /\ h.index = 0 /\ ~h.pending
    BY DEF IdleReq
  <2>5. HandlerSound(h)
    BY <1>1, <2>1, <2>2, <2>4 DEF HandlerSound
  <2> QED
    BY <2>1, <2>3, <2>4, <2>5
<1>3. CASE ArriveCreate(w, r) /\ engineOn[r.prop]
  <2> DEFINE h == [IdleReq EXCEPT !.pc = "get", !.r = r]
  <2>1. r.kind = "create" /\ req' = [req EXCEPT ![w] = h] /\ UNCHANGED client
    BY <1>3 DEF ArriveCreate
  <2>2. h \in HandlerRecord
    BY IdleReqType DEF HandlerRecord, HandlerPhases
  <2>3. h.pc = "get" /\ h.r = r /\ h.index = 0 /\ ~h.pending
    BY DEF IdleReq
  <2>4. HandlerSound(h)
    BY <1>1, <2>1, <2>3 DEF HandlerSound
  <2> QED
    BY <2>1, <2>2, <2>3, <2>4
<1>4. CASE ArriveCreate(w, r) /\ ~engineOn[r.prop]
  <2>1. req' = [req EXCEPT ![w] = req[w]]
    BY <1>1, <1>4 DEF ArriveCreate
  <2> QED
    BY <1>1, <2>1
<1>5. ASSUME NEW row \in 0..MaxRows, ArriveCancel(w, r, row)
      PROVE  \E h \in HandlerRecord :
               /\ req' = [req EXCEPT ![w] = h] /\ HandlerSound(h)
               /\ UNCHANGED client /\ h.r = r /\ h.index = 0 /\ ~h.pending
               /\ h.pc = "cancel" /\ r.kind = "cancel"
  <2> DEFINE h == [IdleReq EXCEPT !.pc = "cancel", !.r = r, !.row = row]
  <2>1. r.kind = "cancel" /\ req' = [req EXCEPT ![w] = h] /\ UNCHANGED client
    BY <1>5 DEF ArriveCancel
  <2>2. h \in HandlerRecord
    BY IdleReqType DEF HandlerRecord, HandlerPhases
  <2>3. h.pc = "cancel" /\ h.r = r /\ h.index = 0 /\ ~h.pending
    BY DEF IdleReq
  <2>4. HandlerSound(h)
    BY <1>1, <2>1, <2>3 DEF HandlerSound
  <2> QED
    BY <2>1, <2>2, <2>3, <2>4
<1> QED
  BY <1>2, <1>3, <1>4, <1>5

LEMMA ArriveStep ==
  ASSUME DirectInv, NEW w \in Workers, NEW r \in Requests,
         \/ ArriveCreate(w, r)
         \/ ArriveMirror(w, r)
         \/ \E row \in 0..MaxRows : ArriveCancel(w, r, row)
  PROVE  DirectInv'
<1>1. UNCHANGED <<engineOn, idem, pms, answers, faults>> /\ faults \in Nat
  BY DEF ArriveCreate, ArriveMirror, ArriveCancel, DirectInv, DirectShape
<1>2. client' \in [Requests -> {"waiting", "answered", "refused"}]
  <2>1. Hears(r, "refused") \/ UNCHANGED client
    BY DEF ArriveCreate, ArriveMirror, ArriveCancel
  <2> QED
    BY <2>1, HearsType DEF DirectInv, DirectShape
<1> QED
  BY <1>1, <1>2, ArriveMove, QuietHandler

LEMMA IdemGetStep ==
  ASSUME DirectInv, NEW w \in Workers, IdemGet(w)
  PROVE  DirectInv'
<1>1. PICK r \in Requests : req[w].r = r /\ req[w].pc = "get" /\ r.kind = "create"
  BY HandlerType DEF IdemGet, HandlerSound
<1>2. UNCHANGED <<engineOn, idem, pms, answers, faults>> /\ faults \in Nat
      /\ client \in [Requests -> {"waiting", "answered", "refused"}]
      /\ req[w] \in HandlerRecord /\ Scope(r) \in Scopes /\ r # None
  BY HandlerType, RequestType DEF IdemGet, DirectInv, DirectShape
<1>3. PICK record \in IdemRecord \cup {None} : record = idem[Scope(r)]
  BY <1>2 DEF DirectInv, DirectShape
<1>4. CASE record = None
  <2> DEFINE h == [req[w] EXCEPT !.pc = "pms"]
  <2>1. req' = [req EXCEPT ![w] = h] /\ UNCHANGED client
    BY <1>1, <1>3, <1>4 DEF IdemGet, Step
  <2>2. h \in HandlerRecord
    BY <1>2 DEF HandlerRecord, HandlerPhases
  <2>3. h.pc = "pms" /\ h.r = r /\ h.index = req[w].index
    BY <1>1, <1>2 DEF HandlerRecord
  <2>4. HandlerSound(h)
    BY <1>1, <1>2, <2>3, HandlerType DEF HandlerSound
  <2> QED
    BY <1>2, <2>1, <2>2, <2>4, QuietHandler
<1>5. CASE record # None /\ record.hash = r.hash
  <2> DEFINE h == [req[w] EXCEPT !.pc = "reply", !.booking = record.booking,
                                 !.pending = record.pending]
  <2>1. req' = [req EXCEPT ![w] = h] /\ UNCHANGED client
    BY <1>1, <1>3, <1>5 DEF IdemGet, Replay
  <2>2. record \in IdemRecord
    BY <1>5
  <2>3. Made(r, record.booking)
    BY <1>2, <1>3, <1>5 DEF DirectInv, IdemSound, Made
  <2>4. h \in HandlerRecord
    BY <1>2, <2>2 DEF HandlerRecord, HandlerPhases, IdemRecord
  <2>5. h.pc = "reply" /\ h.r = r /\ h.booking = record.booking
    BY <1>1, <1>2 DEF HandlerRecord
  <2>6. HandlerSound(h)
    BY <1>2, <2>3, <2>5 DEF HandlerSound
  <2> QED
    BY <1>2, <2>1, <2>4, <2>6, QuietHandler
<1>6. CASE record # None /\ record.hash # r.hash
  <2>1. req' = [req EXCEPT ![w] = IdleReq] /\ Hears(r, "refused")
    BY <1>1, <1>3, <1>6 DEF IdemGet, End
  <2>2. HandlerSound(IdleReq)
    BY IdleReqType DEF HandlerSound
  <2> QED
    BY <1>2, <2>1, <2>2, HearsType, IdleReqType, QuietHandler
<1> QED
  BY <1>4, <1>5, <1>6

(* A handler ends without an answer.                                       *)
LEMMA EndStep ==
  ASSUME DirectInv, NEW w \in Workers, End(w),
         UNCHANGED <<engineOn, idem, pms, answers>>,
         client' \in [Requests -> {"waiting", "answered", "refused"}],
         faults' \in Nat
  PROVE  DirectInv'
<1>1. HandlerSound(IdleReq)
  BY IdleReqType DEF HandlerSound
<1> QED
  BY <1>1, IdleReqType, QuietHandler DEF End

LEMMA CallFailsStep ==
  ASSUME DirectInv, NEW w \in Workers, CallFails(w)
  PROVE  DirectInv'
<1>1. faults' \in Nat /\ UNCHANGED client
      /\ client \in [Requests -> {"waiting", "answered", "refused"}]
  BY DEF CallFails, Fault, DirectInv, DirectShape
<1> QED
  BY <1>1, EndStep DEF CallFails

(* The PMS makes at most one booking more, under a key it does not know    *)
(* when it honours keys, and names it or one made under the key.           *)
LEMMA PmsAnswer ==
  ASSUME DirectInv, NEW w \in Workers, PmsBooks(w)
  PROVE  \E r \in Requests, b \in Nat :
           /\ req[w].r = r /\ r.kind = "create"
           /\ PmsGrow /\ pms' \in Seq(PmsBooking) /\ PmsSound'
           /\ Made(r, b)' /\ b \in Externals
           /\ \/ req' = [req EXCEPT ![w].pc = "record", ![w].booking = b] /\ NoFault
              \/ Fault("pms") /\ End(w)
           /\ \/ UNCHANGED pms
              \/ /\ PmsDedupes => \A c \in DOMAIN pms : pms[c].scope # Scope(r)
                 /\ b = Len(pms) + 1 /\ b \in 1..MaxBookings
                 /\ pms' = Append(pms, [scope |-> Scope(r), hash |-> r.hash])
<1>1. PICK r \in Requests : req[w].r = r /\ r.kind = "create"
  BY HandlerType DEF PmsBooks, HandlerSound
<1>2. Scope(r) \in Scopes /\ r.hash \in Nat /\ pms \in Seq(PmsBooking)
  BY RequestType DEF DirectInv, DirectShape
<1> DEFINE prior == PriorBookings(r)
<1>3. CASE prior # {}
  <2>1. PICK b \in prior :
          /\ b <= MaxBookings
          /\ \/ req' = [req EXCEPT ![w].pc = "record", ![w].booking = b] /\ NoFault
             \/ Fault("pms") /\ End(w)
    BY <1>1, <1>3 DEF PmsBooks
  <2>2. UNCHANGED pms
    BY <1>1, <1>3 DEF PmsBooks
  <2>3. b \in DOMAIN pms /\ PmsDedupes /\ pms[b].scope = Scope(r)
    BY DEF PriorBookings
  <2>4. b \in 1..MaxBookings
    BY <1>2, <2>1, <2>3, DirectAssumption
  <2>5. Made(r, b)'
    BY <2>2, <2>3 DEF Made
  <2> QED
    BY <1>1, <1>2, <2>1, <2>2, <2>4, <2>5, DirectAssumption
    DEF PmsGrow, PmsSound, DirectInv
<1>4. CASE prior = {}
  <2> DEFINE new == [scope |-> Scope(r), hash |-> r.hash]
  <2>0. PICK b \in Nat : b = Len(pms) + 1
    BY <1>2
  <2>1. /\ b <= MaxBookings /\ pms' = Append(pms, new)
        /\ \/ req' = [req EXCEPT ![w].pc = "record", ![w].booking = b] /\ NoFault
           \/ Fault("pms") /\ End(w)
    BY <1>1, <1>4, <2>0 DEF PmsBooks
  <2>2. new \in PmsBooking
    BY <1>2 DEF PmsBooking
  <2>3. pms' \in Seq(PmsBooking) /\ PmsGrow
    BY <1>2, <2>1, <2>2 DEF PmsGrow
  <2>4. DOMAIN pms' = DOMAIN pms \cup {b} /\ pms'[b] = new /\ Len(pms') = b
    BY <1>2, <2>0, <2>1
  <2>5. PmsDedupes => \A c \in DOMAIN pms : pms[c].scope # Scope(r)
    BY <1>4 DEF PriorBookings
  <2>6. PmsSound'
    <3>1. ASSUME PmsDedupes, NEW c \in DOMAIN pms', NEW d \in DOMAIN pms',
                 pms'[c].scope = pms'[d].scope
          PROVE  c = d
      BY <2>3, <2>4, <2>5, <3>1 DEF PmsGrow, PmsSound, DirectInv
    <3> QED
      BY <2>1, <2>4, <3>1 DEF PmsSound
  <2>7. b \in 1..MaxBookings /\ b \in Externals /\ b \in Nat
    BY <1>2, <2>0, <2>1, DirectAssumption
  <2>8. Made(r, b)'
    BY <2>4 DEF Made
  <2> QED
    BY <1>1, <2>0, <2>1, <2>3, <2>5, <2>6, <2>7, <2>8
<1> QED
  BY <1>3, <1>4

LEMMA PmsBooksStep ==
  ASSUME DirectInv, NEW w \in Workers, PmsBooks(w)
  PROVE  DirectInv'
<1>1. PICK r \in Requests, b \in Nat :
        /\ req[w].r = r /\ r.kind = "create"
        /\ PmsGrow /\ pms' \in Seq(PmsBooking) /\ PmsSound'
        /\ Made(r, b)' /\ b \in Externals
        /\ \/ req' = [req EXCEPT ![w].pc = "record", ![w].booking = b] /\ NoFault
           \/ Fault("pms") /\ End(w)
  BY PmsAnswer
<1>2. UNCHANGED <<engineOn, idem, client, answers>> /\ req[w] \in HandlerRecord
      /\ req \in [Workers -> HandlerRecord] /\ req[w].pc = "pms" /\ faults \in Nat
  BY DEF PmsBooks, DirectInv, DirectShape
<1>3. faults' \in Nat
  BY <1>1, <1>2 DEF NoFault, Fault
<1>4. PICK h \in HandlerRecord : req' = [req EXCEPT ![w] = h] /\ HandlerSound(h)'
  <2>1. CASE req' = [req EXCEPT ![w].pc = "record", ![w].booking = b]
    <3> DEFINE h == [req[w] EXCEPT !.pc = "record", !.booking = b]
    <3>2. PICK g \in HandlerRecord : g = h
      BY <1>2 DEF HandlerRecord, HandlerPhases
    <3>3. /\ req' = [req EXCEPT ![w] = g] /\ g.pc = "record" /\ g.r = r
          /\ g.booking = b /\ g.index = req[w].index
      BY <1>1, <1>2, <2>1, <3>2 DEF HandlerRecord
    <3>4. req[w].index < r.stays
      BY <1>1, <1>2, HandlerType, RequestType DEF HandlerSound
    <3>5. HandlerSound(g)'
      BY <1>1, <3>3, <3>4, RequestType DEF HandlerSound
    <3> QED
      BY <3>3, <3>5
  <2>2. CASE End(w)
    <3>1. HandlerSound(IdleReq)'
      BY IdleReqType DEF HandlerSound
    <3> QED
      BY <2>2, <3>1, IdleReqType DEF End
  <2> QED
    BY <1>1, <2>1, <2>2
<1>5. req' \in [Workers -> HandlerRecord] /\ \A v \in Workers : HandlerSound(req[v])'
  BY <1>1, <1>4, OneHandler
<1>6. DirectShape'
  BY <1>1, <1>2, <1>3, <1>5 DEF DirectInv, DirectShape
<1>7. IdemSound'
  BY <1>1, <1>2 DEF IdemSound, DirectInv, PmsGrow
<1>8. AnswersSound'
  <2>1. \A a \in answers : Made(a.r, a.booking)'
    BY <1>1, MadeStays DEF DirectInv, AnswersSound
  <2> QED
    BY <1>2, <2>1 DEF DirectInv, AnswersSound
<1> QED
  BY <1>1, <1>5, <1>6, <1>7, <1>8 DEF DirectInv

(* The handler takes the answer of one stay: it ends, or keeps its request *)
(* and its booking and is one stay further.                                *)
LEMMA StayMove ==
  ASSUME DirectInv, NEW w \in Workers, StayRecorded(w)
  PROVE  LET old == req[w] IN
         \E h \in HandlerRecord :
           /\ req' = [req EXCEPT ![w] = h] /\ HandlerSound(h)
           /\ \/ h = IdleReq /\ old.r.kind = "mirror"
              \/ /\ h.r = old.r /\ h.booking = old.booking
                 /\ h.index = old.index + 1
                 /\ h.pending = (old.pending \/ job[w].outcome = "error")
                 /\ h.pc = IF old.index + 1 # old.r.stays THEN "record"
                           ELSE IF old.r.kind = "create" THEN "put" ELSE "reply"
<1>1. PICK r \in Requests : req[w].r = r /\ req[w].pc = "record"
  BY HandlerType DEF StayRecorded
<1>2. /\ req \in [Workers -> HandlerRecord] /\ req[w] \in HandlerRecord
      /\ r.stays \in Nat \ {0} /\ r.kind \in Kinds /\ r # None
  BY RequestType DEF DirectInv, DirectShape
<1>3. CASE r.kind = "mirror" /\ job[w].outcome = "error"
  <2>1. HandlerSound(IdleReq) /\ req' = [req EXCEPT ![w] = IdleReq]
    BY <1>1, <1>3, IdleReqType DEF HandlerSound, StayRecorded, End
  <2> QED
    BY <1>1, <1>3, <2>1, IdleReqType
<1>4. CASE ~(r.kind = "mirror" /\ job[w].outcome = "error")
  <2>1. PICK failed \in BOOLEAN, pc \in HandlerPhases :
          /\ failed = (job[w].outcome = "error")
          /\ pc = IF req[w].index + 1 # r.stays THEN "record"
                  ELSE IF r.kind = "create" THEN "put" ELSE "reply"
          /\ req' = [req EXCEPT ![w].index = @ + 1, ![w].pending = @ \/ failed,
                                ![w].pc = pc]
    BY <1>1, <1>4 DEF StayRecorded, HandlerPhases
  <2>a. PICK index \in Nat, pending \in BOOLEAN :
          index = req[w].index + 1 /\ pending = (req[w].pending \/ failed)
    BY <1>2 DEF HandlerRecord
  <2> DEFINE h == [req[w] EXCEPT !.index = index, !.pending = pending, !.pc = pc]
  <2>2. h \in HandlerRecord /\ req' = [req EXCEPT ![w] = h]
    BY <1>2, <2>1, <2>a DEF HandlerRecord
  <2>3. /\ h.pc = pc /\ h.r = r /\ h.index = index /\ h.pending = pending
        /\ h.booking = req[w].booking
    BY <1>1, <1>2, <2>a DEF HandlerRecord
  <2>4. /\ req[w].index < r.stays /\ req[w].booking \in Externals
        /\ r.kind = "create" => Made(r, req[w].booking)
        /\ r.kind = "mirror" => req[w].booking = r.booking
        /\ req[w].index \in Nat /\ r.kind # "cancel"
    BY <1>1, <1>2, HandlerType DEF HandlerSound, HandlerRecord
  <2>5. /\ h.pc \in {"record", "put", "reply"}
        /\ h.pc = "record" => h.index < h.r.stays
        /\ h.pc = "put" => r.kind = "create"
    BY <1>2, <2>1, <2>a, <2>3, <2>4
  <2>6. HandlerSound(h)
    BY <1>2, <2>3, <2>4, <2>5 DEF HandlerSound
  <2>7. pending = (req[w].pending \/ job[w].outcome = "error")
    BY <2>1, <2>a
  <2> HIDE DEF h
  <2> QED
    BY <1>1, <2>1, <2>a, <2>2, <2>3, <2>6, <2>7
<1> QED
  BY <1>3, <1>4

LEMMA StayRecordedStep ==
  ASSUME DirectInv, NEW w \in Workers, StayRecorded(w)
  PROVE  DirectInv'
<1>1. UNCHANGED <<engineOn, idem, pms, client, answers, faults>> /\ faults \in Nat
      /\ client \in [Requests -> {"waiting", "answered", "refused"}]
  BY DEF StayRecorded, DirectInv, DirectShape
<1> QED
  BY <1>1, StayMove, QuietHandler

LEMMA IdemPutStep ==
  ASSUME DirectInv, NEW w \in Workers, IdemPut(w)
  PROVE  DirectInv'
<1>1. PICK r \in Requests : req[w].r = r /\ req[w].pc = "put" /\ r.kind = "create"
  BY HandlerType DEF IdemPut, HandlerSound
<1>2. UNCHANGED <<engineOn, pms, client, answers>>
      /\ req \in [Workers -> HandlerRecord] /\ req[w] \in HandlerRecord
      /\ r.hash \in Nat /\ Scope(r) \in Scopes /\ r # None
  BY RequestType DEF IdemPut, DirectInv, DirectShape
<1>3. Made(r, req[w].booking)
  BY <1>1, HandlerType DEF HandlerSound
<1>4. PICK h \in HandlerRecord :
        h = [req[w] EXCEPT !.pc = "reply"] /\ req' = [req EXCEPT ![w] = h]
  BY <1>2 DEF IdemPut, Step, HandlerRecord, HandlerPhases
<1>5. h.pc = "reply" /\ h.r = r /\ h.booking = req[w].booking
  BY <1>1, <1>2, <1>4 DEF HandlerRecord
<1>6. PICK record \in IdemRecord :
        record = [hash |-> r.hash, booking |-> req[w].booking,
                  pending |-> req[w].pending]
  BY <1>2 DEF IdemRecord, HandlerRecord
<1>7. UNCHANGED idem \/ idem' = [idem EXCEPT ![Scope(r)] = record]
  BY <1>1, <1>6 DEF IdemPut
<1>8. idem' \in [Scopes -> IdemRecord \cup {None}] /\ IdemSound'
  <2>1. idem \in [Scopes -> IdemRecord \cup {None}] /\ IdemSound
    BY DEF DirectInv, DirectShape
  <2>2. idem' \in [Scopes -> IdemRecord \cup {None}]
    BY <1>6, <1>7, <2>1
  <2>3. /\ record.booking \in DOMAIN pms /\ pms[record.booking].scope = Scope(r)
        /\ ~PmsDedupes => pms[record.booking].hash = record.hash
    BY <1>3, <1>6 DEF Made
  <2>4. \A s \in Scopes : idem'[s] = idem[s] \/ (idem'[s] = record /\ s = Scope(r))
    BY <1>7, <2>1
  <2>5. ASSUME NEW s \in Scopes, idem'[s] # None
        PROVE  /\ idem'[s].booking \in DOMAIN pms
               /\ pms[idem'[s].booking].scope = s
               /\ ~PmsDedupes => pms[idem'[s].booking].hash = idem'[s].hash
    <3>1. CASE idem'[s] = idem[s]
      BY <2>1, <2>5, <3>1 DEF IdemSound
    <3>2. CASE idem'[s] = record /\ s = Scope(r)
      BY <2>3, <3>2
    <3> QED
      BY <2>4, <3>1, <3>2
  <2> QED
    BY <1>2, <2>2, <2>5 DEF IdemSound
<1>9. PmsGrow /\ HandlerSound(h)'
  BY <1>2, <1>3, <1>5 DEF PmsGrow, HandlerSound, Made
<1>10. req' \in [Workers -> HandlerRecord] /\ \A v \in Workers : HandlerSound(req[v])'
  BY <1>4, <1>9, OneHandler
<1>11. faults' \in Nat
  BY DEF IdemPut, NoFault, Fault, DirectInv, DirectShape
<1> QED
  BY <1>2, <1>8, <1>10, <1>11
  DEF DirectInv, DirectShape, PmsSound, AnswersSound, Made

(* The PMS cancels, or the row is released: nothing but the handler moves. *)
LEMMA CancelMove ==
  ASSUME DirectInv, NEW w \in Workers, PmsCancels(w) \/ RowReleased(w)
  PROVE  \E h \in HandlerRecord :
           /\ req' = [req EXCEPT ![w] = h] /\ HandlerSound(h)
           /\ h.r = req[w].r /\ h.r.kind = "cancel"
           /\ h.pc \in {"reply", "release"}
           /\ RowReleased(w) => h.pc = "reply"
<1>1. PICK r \in Requests : req[w].r = r
  BY HandlerType DEF PmsCancels, RowReleased
<1>2. req[w] \in HandlerRecord /\ r # None /\ r.kind \in Kinds
      /\ req \in [Workers -> HandlerRecord]
  BY RequestType, HandlerType DEF DirectInv, DirectShape
<1>3. r.kind = "cancel"
  BY <1>1, HandlerType DEF PmsCancels, RowReleased, HandlerSound
<1>4. PICK pc \in {"reply", "release"} :
        /\ pc = "release" => req[w].row # 0
        /\ RowReleased(w) => pc = "reply"
        /\ Step(w, pc)
  BY DEF PmsCancels, RowReleased
<1> DEFINE h == [req[w] EXCEPT !.pc = pc]
<1>5. h \in HandlerRecord /\ req' = [req EXCEPT ![w] = h]
  BY <1>2, <1>4 DEF HandlerRecord, HandlerPhases, Step
<1>6. h.pc = pc /\ h.r = r /\ h.row = req[w].row
  BY <1>1, <1>2 DEF HandlerRecord
<1>7. HandlerSound(h)
  BY <1>2, <1>3, <1>4, <1>6 DEF HandlerSound
<1> HIDE DEF h
<1> QED
  BY <1>1, <1>3, <1>4, <1>5, <1>6, <1>7

LEMMA CancelStep ==
  ASSUME DirectInv, NEW w \in Workers, PmsCancels(w) \/ RowReleased(w)
  PROVE  DirectInv'
<1>1. UNCHANGED <<engineOn, idem, pms, client, answers, faults>> /\ faults \in Nat
      /\ client \in [Requests -> {"waiting", "answered", "refused"}]
  BY DEF PmsCancels, RowReleased, DirectInv, DirectShape
<1> QED
  BY <1>1, CancelMove, QuietHandler

LEMMA ReplyStep ==
  ASSUME DirectInv, NEW w \in Workers, Reply(w)
  PROVE  DirectInv'
<1>1. PICK r \in Requests : req[w].r = r /\ req[w].pc = "reply"
  BY HandlerType DEF Reply
<1>2. UNCHANGED <<engineOn, idem, pms>> /\ req[w] \in HandlerRecord
      /\ answers \subseteq [r : Requests, booking : Nat, pending : BOOLEAN]
  BY DEF Reply, DirectInv, DirectShape, HandlerRecord
<1>3. r.kind = "create" => Made(r, req[w].booking)
  BY <1>1, HandlerType DEF HandlerSound
<1>4. PICK a \in [r : Requests, booking : Nat, pending : BOOLEAN] :
        a = [r |-> r, booking |-> req[w].booking, pending |-> req[w].pending]
  BY <1>2 DEF HandlerRecord
<1>5. answers' = IF r.kind = "create" THEN answers \cup {a} ELSE answers
  BY <1>1, <1>4 DEF Reply
<1>6. AnswersSound' /\ answers' \subseteq [r : Requests, booking : Nat, pending : BOOLEAN]
  BY <1>2, <1>3, <1>4, <1>5 DEF DirectInv, AnswersSound, Made
<1>7. client' \in [Requests -> {"waiting", "answered", "refused"}] /\ faults' \in Nat
  <2>1. client \in [Requests -> {"waiting", "answered", "refused"}] /\ faults \in Nat
    BY DEF DirectInv, DirectShape
  <2>2. (Hears(r, "answered") /\ NoFault) \/ (Fault("reply") /\ UNCHANGED client)
    BY <1>1 DEF Reply
  <2> QED
    BY <2>1, <2>2, HearsType DEF NoFault, Fault
<1>8. PmsGrow /\ HandlerSound(IdleReq)'
  BY <1>2, IdleReqType DEF PmsGrow, HandlerSound
<1>9. req' \in [Workers -> HandlerRecord] /\ \A v \in Workers : HandlerSound(req[v])'
  BY <1>8, IdleReqType, OneHandler DEF Reply, End
<1> QED
  BY <1>2, <1>6, <1>7, <1>9 DEF DirectInv, DirectShape, IdemSound, PmsSound

(* The end of a Redis record, an operator's switch, a restart.             *)
LEMMA OutsideStep ==
  ASSUME DirectInv,
         \/ \E s \in Scopes : ExpireIdem(s)
         \/ \E p \in Properties : ToggleEngine(p)
         \/ ProcessRestart
  PROVE  DirectInv'
<1>1. /\ engineOn \in [Properties -> BOOLEAN]
      /\ idem \in [Scopes -> IdemRecord \cup {None}]
      /\ faults \in Nat
  BY DEF DirectInv, DirectShape
<1>2. ASSUME NEW s \in Scopes, ExpireIdem(s) PROVE DirectInv'
  <2>1. idem' = [idem EXCEPT ![s] = None] /\ faults' \in Nat
        /\ UNCHANGED <<engineOn, pms, req, client, answers>>
    BY <1>1, <1>2 DEF ExpireIdem, Fault
  <2>2. idem' \in [Scopes -> IdemRecord \cup {None}] /\ IdemSound'
    BY <1>1, <2>1 DEF IdemSound, DirectInv
  <2> QED
    BY <2>1, <2>2
    DEF DirectInv, DirectShape, HandlerSound, PmsSound, AnswersSound, Made
<1>3. ASSUME NEW p \in Properties, ToggleEngine(p) PROVE DirectInv'
  <2>1. engineOn' \in [Properties -> BOOLEAN]
        /\ UNCHANGED <<idem, pms, req, client, answers, faults>>
    BY <1>1, <1>3 DEF ToggleEngine
  <2> QED
    BY <2>1
    DEF DirectInv, DirectShape, HandlerSound, IdemSound, PmsSound, AnswersSound, Made
<1>4. CASE ProcessRestart
  <2>1. req' = [w \in Workers |-> IdleReq]
        /\ UNCHANGED <<engineOn, idem, pms, client, answers, faults>>
    BY <1>4 DEF ProcessRestart
  <2>2. \A w \in Workers : HandlerSound(req[w])'
    BY <2>1, IdleReqType DEF HandlerSound
  <2> QED
    BY <2>1, <2>2, IdleReqType
    DEF DirectInv, DirectShape, IdemSound, PmsSound, AnswersSound, Made
<1> QED
  BY <1>2, <1>3, <1>4

LEMMA DirectInvStep == DirectInv /\ [DirectNext]_vars => DirectInv'
<1> SUFFICES ASSUME DirectInv, [DirectNext]_vars PROVE DirectInv'
  OBVIOUS
<1>1. CASE UNCHANGED directVars
  BY <1>1 DEF directVars, DirectInv, DirectShape, HandlerSound, IdemSound, PmsSound,
              AnswersSound, Made
<1>2. CASE UNCHANGED vars
  BY <1>1, <1>2 DEF vars
<1>3. ASSUME NEW w \in Workers, HandlerStep(w) PROVE DirectInv'
  BY <1>1, <1>3, IdemGetStep, CallFailsStep, PmsBooksStep, StayRecordedStep,
     IdemPutStep, CancelStep, ReplyStep DEF HandlerStep, RecordStay, ReleaseRow
<1> QED
  BY <1>2, <1>3, ArriveStep, OutsideStep DEF DirectNext, Arrive

(* Handlers, Redis records, bookings and answers agree in every state:     *)
(* what a handler holds, a record caches or a client was told is a booking *)
(* made under its scope (createBooking, IdempotencyStore).                 *)
THEOREM DirectInvariant == DirectSpec => []DirectInv
BY DirectInvInit, DirectInvStep, PTL DEF DirectSpec

-----------------------------------------------------------------------------
(* The call a handler makes is one of StayCalls.                           *)
LEMMA StayCallIsCall ==
  ASSUME DirectInv, NEW w \in Workers, req[w].pc = "record"
  PROVE  StayCall(w) \in Calls
<1>1. PICK r \in Requests : req[w].r = r
  BY HandlerType
<1>2. /\ req[w].index \in Nat /\ req[w].index < r.stays /\ r.stays \in Nat
      /\ req[w].booking \in Externals /\ r.kind # "cancel"
  BY <1>1, HandlerType, RequestType DEF HandlerSound, HandlerRecord
<1>3. PICK i \in 0..(r.stays - 1) : i = req[w].index
  BY <1>2
<1>4. PICK b \in Externals : b = req[w].booking
  BY <1>2
<1>5. StayCall(w) = [op |-> "record", conn |-> None, ext |-> b,
                     status |-> "confirmed", key |-> ReservationKey(r, i)]
  BY <1>1, <1>3, <1>4 DEF StayCall
<1>6. StayCall(w) \in StayCalls
  BY <1>2, <1>5 DEF StayCalls
<1> QED
  BY <1>6, StayAssumption

(* Every step of the handlers is a step of the store, or leaves it alone.  *)
LEMMA DirectStoreStep == DirectInv /\ [DirectNext]_vars => [ResNext]_resVars
<1> SUFFICES ASSUME DirectInv, [DirectNext]_vars PROVE [ResNext]_resVars
  OBVIOUS
<1>1. ASSUME NEW w \in Workers, HandlerStep(w) PROVE [ResNext]_resVars
  <2>1. CASE RecordStay(w)
    BY <2>1, StayCallIsCall DEF RecordStay, ResNext
  <2>2. CASE ReleaseRow(w)
    <3>1. req[w].row \in 0..MaxRows /\ req[w].row # 0
      BY <2>2, HandlerType DEF ReleaseRow, HandlerSound, HandlerRecord
    <3>2. PICK i \in 1..MaxRows : i = req[w].row
      BY <3>1, ReservationAssumption
    <3> QED
      BY <2>2, <3>2 DEF ReleaseRow, ResNext
  <2>3. CASE ServiceStep(w) \/ StayRecorded(w) \/ RowReleased(w)
    BY <2>3 DEF StayRecorded, RowReleased, ResNext
  <2> QED
    BY <1>1, <2>1, <2>2, <2>3
    DEF HandlerStep, IdemGet, CallFails, PmsBooks, IdemPut, PmsCancels, Reply
<1>2. CASE ProcessRestart
  BY <1>2 DEF ProcessRestart, ResNext
<1> QED
  BY <1>1, <1>2
  DEF DirectNext, Arrive, ArriveCreate, ArriveMirror, ArriveCancel, ExpireIdem,
      ToggleEngine, vars

(* What is proved of the store holds under direct bookings.                *)
LEMMA DirectRunsStore == DirectSpec => ResSpec
<1>1. DirectInit => ResInit
  BY DEF DirectInit
<1> QED
  BY <1>1, DirectInvInit, DirectInvStep, DirectStoreStep, PTL
  DEF DirectSpec, ResSpec

-----------------------------------------------------------------------------
(* The refinement of BookingPromise: what is booked and told under a scope. *)
BookedMap == [s \in Scopes |-> {b \in DOMAIN pms : pms[b].scope = s}]
ToldMap == [s \in Scopes |->
              {a.booking : a \in {x \in answers : Scope(x.r) = s}}]

(* When the PMS honours keys, its step books the one booking of a scope or *)
(* none.                                                                   *)
LEMMA BookStep ==
  ASSUME PmsDedupes, DirectInv, NEW w \in Workers, PmsBooks(w)
  PROVE  [Promise!PromiseNext]_Promise!promiseVars
<1>1. PICK r \in Requests, b \in Nat :
        \/ UNCHANGED pms
        \/ /\ \A c \in DOMAIN pms : pms[c].scope # Scope(r)
           /\ b = Len(pms) + 1 /\ b \in 1..MaxBookings
           /\ pms' = Append(pms, [scope |-> Scope(r), hash |-> r.hash])
  BY PmsAnswer
<1>2. UNCHANGED answers /\ pms \in Seq(PmsBooking) /\ Scope(r) \in Scopes
  BY RequestType DEF PmsBooks, DirectInv, DirectShape
<1>3. ToldMap' = ToldMap
  BY <1>2 DEF ToldMap
<1>4. CASE UNCHANGED pms
  <2>1. BookedMap' = BookedMap
    BY <1>4 DEF BookedMap
  <2> QED
    BY <1>3, <2>1 DEF Promise!promiseVars, BookedMap, ToldMap
<1>5. CASE ~UNCHANGED pms
  <2> DEFINE t == Scope(r)
             new == [scope |-> t, hash |-> r.hash]
  <2>1. /\ \A c \in DOMAIN pms : pms[c].scope # t
        /\ b = Len(pms) + 1 /\ b \in 1..MaxBookings
        /\ pms' = Append(pms, new)
    BY <1>1, <1>5
  <2>2. /\ DOMAIN pms' = DOMAIN pms \cup {b} /\ b \notin DOMAIN pms
        /\ pms'[b].scope = t
        /\ \A c \in DOMAIN pms : pms'[c].scope = pms[c].scope
    BY <1>2, <2>1
  <2> HIDE DEF t
  <2>3. BookedMap[t] = {}
    BY <1>2, <2>1 DEF BookedMap, t
  <2>4. ASSUME NEW s \in Scopes
        PROVE  BookedMap'[s] = IF s = t THEN {b} ELSE BookedMap[s]
    BY <2>1, <2>2 DEF BookedMap
  <2>5. BookedMap' = [BookedMap EXCEPT ![t] = {b}]
    BY <2>4 DEF BookedMap
  <2>6. Promise!Book(t, b)
    BY <1>3, <2>3, <2>5 DEF Promise!Book, BookedMap, ToldMap
  <2> QED
    BY <1>2, <2>1, <2>6 DEF Promise!PromiseNext, t
<1> QED
  BY <1>4, <1>5

(* An answer names the booking made under its scope.                       *)
LEMMA TellStep ==
  ASSUME DirectInv, NEW w \in Workers, Reply(w)
  PROVE  [Promise!PromiseNext]_Promise!promiseVars
<1>1. PICK r \in Requests : req[w].r = r /\ req[w].pc = "reply"
  BY HandlerType DEF Reply
<1>2. UNCHANGED pms /\ Scope(r) \in Scopes /\ pms \in Seq(PmsBooking)
  BY RequestType DEF Reply, DirectInv, DirectShape
<1>3. BookedMap' = BookedMap
  BY <1>2 DEF BookedMap
<1>4. CASE r.kind # "create"
  <2>1. ToldMap' = ToldMap
    BY <1>1, <1>4 DEF Reply, ToldMap
  <2> QED
    BY <1>3, <2>1 DEF Promise!promiseVars, BookedMap, ToldMap
<1>5. CASE r.kind = "create"
  <2>1. PICK b \in DOMAIN pms : b = req[w].booking /\ pms[b].scope = Scope(r)
    BY <1>1, <1>5, HandlerType DEF HandlerSound, Made
  <2>2. PICK a : a = [r |-> r, booking |-> b, pending |-> req[w].pending]
    OBVIOUS
  <2>3. answers' = answers \cup {a} /\ a.r = r /\ a.booking = b
    BY <1>1, <1>5, <2>1, <2>2 DEF Reply
  <2>4. PICK t \in Scopes : t = Scope(r)
    BY <1>2
  <2>5. ASSUME NEW s \in Scopes
        PROVE  ToldMap'[s] = IF s = t THEN ToldMap[s] \cup {b} ELSE ToldMap[s]
    BY <2>3, <2>4 DEF ToldMap
  <2>6. ToldMap' = [ToldMap EXCEPT ![t] = @ \cup {b}]
    BY <2>5 DEF ToldMap
  <2>7. b \in BookedMap[t] /\ b \in 1..MaxBookings
    BY <1>2, <2>1, <2>4, DirectAssumption DEF BookedMap, DirectInv, PmsSound
  <2>8. Promise!Tell(t, b)
    BY <1>3, <2>6, <2>7 DEF Promise!Tell, BookedMap, ToldMap
  <2> QED
    BY <2>7, <2>8 DEF Promise!PromiseNext
<1> QED
  BY <1>4, <1>5

LEMMA PromiseStep ==
  ASSUME PmsDedupes, DirectInv, [DirectNext]_vars
  PROVE  [Promise!PromiseNext]_Promise!promiseVars
<1>1. CASE UNCHANGED <<pms, answers>>
  BY <1>1 DEF Promise!promiseVars
<1>2. ASSUME NEW w \in Workers, HandlerStep(w)
      PROVE  [Promise!PromiseNext]_Promise!promiseVars
  <2>1. CASE UNCHANGED directVars
    BY <1>1, <2>1 DEF directVars
  <2> QED
    BY <1>1, <1>2, <2>1, BookStep, TellStep
    DEF HandlerStep, IdemGet, CallFails, RecordStay, StayRecorded, IdemPut,
        PmsCancels, ReleaseRow, RowReleased
<1> QED
  BY <1>1, <1>2
  DEF DirectNext, Arrive, ArriveCreate, ArriveMirror, ArriveCancel, ExpireIdem,
      ToggleEngine, ProcessRestart, vars, directVars

(* With a PMS that honours the idempotency key, one booking is made under  *)
(* a key and every answer names it, whatever is repeated, fails, expires,  *)
(* restarts or is lost.                                                    *)
THEOREM DirectKeepsPromise ==
  ASSUME PmsDedupes
  PROVE  DirectSpec => KeepsPromise
<1>1. DirectInit => Promise!PromiseInit
  <2> SUFFICES ASSUME DirectInit PROVE Promise!PromiseInit
    OBVIOUS
  <2>1. pms = <<>> /\ answers = {}
    BY DEF DirectInit
  <2> QED
    BY <2>1 DEF Promise!PromiseInit
<1>2. DirectInv /\ [DirectNext]_vars => [Promise!PromiseNext]_Promise!promiseVars
  BY PromiseStep
<1> QED
  BY <1>1, <1>2, DirectInvInit, DirectInvStep, PTL
  DEF DirectSpec, KeepsPromise, Promise!PromiseSpec

(* With a PMS that ignores keys, no answer is the booking of another       *)
(* payload: a reused key is refused or books by itself.                    *)
THEOREM AnswersMatchPayload ==
  ASSUME PmsDedupes = FALSE
  PROVE  DirectSpec => []AnswerMatchesPayload
<1>1. DirectInv => AnswerMatchesPayload
  BY DEF DirectInv, AnswersSound, Made, AnswerMatchesPayload
<1> QED
  BY <1>1, DirectInvariant, PTL

(* Handlers, Redis records, bookings and answers keep their shapes, and so *)
(* does the store below them.                                              *)
THEOREM DirectTypeCorrect == DirectSpec => []DirectTypeOK
<1>1. DirectInv /\ TypeOK => DirectTypeOK
  BY DEF DirectInv, DirectShape, HandlerSound, DirectTypeOK
<1> QED
  BY <1>1, DirectInvariant, DirectRunsStore, TypeCorrect, PTL
-----------------------------------------------------------------------------
(* One request at a time, in a process that is not restarted, with no      *)
(* booking or cached answer lost.                                          *)
OneByOne == \A v, w \in Workers : v = w
NothingLost ==
  MaxRestarts = 0 /\ FaultKinds \cap {"pms", "put", "expiry"} = {}

(* Handler h has a booking that no Redis record names yet.                 *)
Holds(h, s) ==
  h.pc \in {"record", "put"} /\ h.r.kind = "create" /\ Scope(h.r) = s

(* A booking is cached or its handler is on the way to the cache; a        *)
(* handler that is about to book has found no record.                      *)
OnceInv ==
  /\ OneBookingPerScope
  /\ \A b \in DOMAIN pms :
       \/ idem[pms[b].scope] # None
       \/ \E w \in Workers : Holds(req[w], pms[b].scope)
  /\ \A w \in Workers : req[w].pc = "pms" => idem[Scope(req[w].r)] = None

(* Handler w moves on, gives up no booking and finds the cache as it is.   *)
LEMMA OnceMove ==
  ASSUME DirectInv, OnceInv, NEW w \in Workers, NEW h,
         req' = [req EXCEPT ![w] = h], UNCHANGED <<idem, pms>>,
         \A s : Holds(req[w], s) => Holds(h, s),
         h.pc = "pms" => idem[Scope(h.r)] = None
  PROVE  OnceInv'
<1>1. \A v \in Workers : req'[v] = IF v = w THEN h ELSE req[v]
  BY DEF DirectInv, DirectShape
<1>2. OneBookingPerScope'
  BY DEF OnceInv, OneBookingPerScope
<1>3. ASSUME NEW b \in DOMAIN pms, idem[pms[b].scope] = None
      PROVE  \E v \in Workers : Holds(req'[v], pms[b].scope)
  <2>1. PICK v \in Workers : Holds(req[v], pms[b].scope)
    BY <1>3 DEF OnceInv
  <2>2. Holds(req'[v], pms[b].scope)
    BY <1>1, <2>1
  <2> QED
    BY <2>2
<1>4. ASSUME NEW v \in Workers, req'[v].pc = "pms"
      PROVE  idem[Scope(req'[v].r)] = None
  BY <1>1, <1>4 DEF OnceInv
<1> QED
  BY <1>2, <1>3, <1>4 DEF OnceInv, Holds, Scope

LEMMA OnceArrives ==
  ASSUME DirectInv, OnceInv, NEW w \in Workers, NEW r \in Requests,
         \/ ArriveCreate(w, r)
         \/ ArriveMirror(w, r)
         \/ \E row \in 0..MaxRows : ArriveCancel(w, r, row)
  PROVE  OnceInv'
<1>1. UNCHANGED <<idem, pms>> /\ req[w].pc = "idle"
  BY DEF ArriveCreate, ArriveMirror, ArriveCancel
<1>2. PICK h : req' = [req EXCEPT ![w] = h] /\ h.pc # "pms"
  BY <1>1, ArriveMove
<1>3. \A s : ~Holds(req[w], s)
  BY <1>1 DEF Holds
<1> QED
  BY <1>1, <1>2, <1>3, OnceMove

LEMMA OnceGets ==
  ASSUME DirectInv, OnceInv, NEW w \in Workers, IdemGet(w)
  PROVE  OnceInv'
<1>1. UNCHANGED <<idem, pms>> /\ req[w].pc = "get" /\ req[w] \in HandlerRecord
  BY DEF IdemGet, DirectInv, DirectShape
<1>2. \A s : ~Holds(req[w], s)
  BY <1>1 DEF Holds
<1> DEFINE record == idem[Scope(req[w].r)]
<1>3. CASE record = None
  <2>1. PICK h : h = [req[w] EXCEPT !.pc = "pms"]
    OBVIOUS
  <2>2. req' = [req EXCEPT ![w] = h] /\ h.r = req[w].r
    BY <1>1, <1>3, <2>1 DEF IdemGet, Step, HandlerRecord
  <2> QED
    BY <1>1, <1>2, <1>3, <2>2, OnceMove
<1>4. CASE record # None /\ record.hash = req[w].r.hash
  <2>1. PICK h : h = [req[w] EXCEPT !.pc = "reply", !.booking = record.booking,
                                    !.pending = record.pending]
    OBVIOUS
  <2>2. req' = [req EXCEPT ![w] = h] /\ h.pc = "reply"
    BY <1>1, <1>4, <2>1 DEF IdemGet, Replay, HandlerRecord
  <2> QED
    BY <1>1, <1>2, <2>2, OnceMove
<1>5. CASE record # None /\ record.hash # req[w].r.hash
  <2>1. req' = [req EXCEPT ![w] = IdleReq]
    BY <1>1, <1>5 DEF IdemGet, End
  <2> QED
    BY <1>1, <1>2, <2>1, IdleReqType, OnceMove
<1> QED
  BY <1>3, <1>4, <1>5

(* Only a new scope is booked, by the one handler there is.                *)
LEMMA OnceBooks ==
  ASSUME OneByOne, NothingLost, DirectInv, OnceInv,
         NEW w \in Workers, PmsBooks(w)
  PROVE  OnceInv'
<1>1. PICK r \in Requests, b \in Nat :
        /\ req[w].r = r /\ r.kind = "create" /\ Made(r, b)'
        /\ \/ req' = [req EXCEPT ![w].pc = "record", ![w].booking = b]
           \/ Fault("pms")
        /\ \/ UNCHANGED pms
           \/ /\ b = Len(pms) + 1
              /\ pms' = Append(pms, [scope |-> Scope(r), hash |-> r.hash])
  BY PmsAnswer
<1>2. UNCHANGED idem /\ req[w].pc = "pms" /\ req \in [Workers -> HandlerRecord]
      /\ req[w] \in HandlerRecord /\ pms \in Seq(PmsBooking)
  BY DEF PmsBooks, DirectInv, DirectShape
<1>3. \A c \in DOMAIN pms : pms[c].scope # Scope(r)
  BY <1>1, <1>2 DEF OneByOne, OnceInv, Holds
<1>4. /\ DOMAIN pms' = DOMAIN pms \cup {b} /\ pms'[b].scope = Scope(r)
      /\ \A c \in DOMAIN pms : pms'[c] = pms[c]
  <2>1. b = Len(pms) + 1 /\ pms' = Append(pms, [scope |-> Scope(r), hash |-> r.hash])
    BY <1>1, <1>3 DEF Made
  <2>2. PICK new : new = [scope |-> Scope(r), hash |-> r.hash]
    OBVIOUS
  <2>3. pms' = Append(pms, new) /\ new.scope = Scope(r)
    BY <2>1, <2>2
  <2> QED
    BY <1>2, <2>1, <2>3
<1>5. PICK h : h = [req[w] EXCEPT !.pc = "record", !.booking = b]
  OBVIOUS
<1>6. req' = [req EXCEPT ![w] = h] /\ h.pc = "record" /\ h.r = r
  BY <1>1, <1>2, <1>5 DEF NothingLost, Fault, HandlerRecord
<1>7. req'[w] = h /\ \A v \in Workers : v = w
  BY <1>2, <1>6 DEF OneByOne
<1>8. Holds(h, Scope(r))
  BY <1>1, <1>6 DEF Holds
<1>9. ASSUME NEW c \in DOMAIN pms'
      PROVE  \/ idem[pms'[c].scope] # None
             \/ \E v \in Workers : Holds(req'[v], pms'[c].scope)
  <2>1. CASE c = b
    BY <1>4, <1>7, <1>8, <2>1
  <2>2. CASE c # b
    <3>1. c \in DOMAIN pms /\ pms'[c] = pms[c]
      BY <1>4, <2>2
    <3>2. ~Holds(req[w], pms[c].scope)
      BY <1>2 DEF Holds
    <3> QED
      BY <1>7, <3>1, <3>2 DEF OnceInv
  <2> QED
    BY <2>1, <2>2
<1>10. OneBookingPerScope'
  BY <1>3, <1>4 DEF OnceInv, OneBookingPerScope
<1>11. \A v \in Workers : req'[v].pc # "pms"
  BY <1>6, <1>7
<1> QED
  BY <1>2, <1>9, <1>10, <1>11 DEF OnceInv, Holds, Scope

LEMMA OnceRecords ==
  ASSUME DirectInv, OnceInv, NEW w \in Workers, StayRecorded(w)
  PROVE  OnceInv'
<1>1. UNCHANGED <<idem, pms>> /\ req[w].pc = "record"
  BY DEF StayRecorded
<1>2. PICK h :
        /\ req' = [req EXCEPT ![w] = h] /\ h.pc # "pms"
        /\ req[w].r.kind = "create" => h.pc \in {"record", "put"} /\ h.r = req[w].r
  BY StayMove, IdleReqType
<1>3. \A s : Holds(req[w], s) => Holds(h, s)
  BY <1>2 DEF Holds
<1> QED
  BY <1>1, <1>2, <1>3, OnceMove

(* The answer is cached before the handler lets go of the booking.         *)
LEMMA OnceCaches ==
  ASSUME OneByOne, NothingLost, DirectInv, OnceInv,
         NEW w \in Workers, IdemPut(w)
  PROVE  OnceInv'
<1>1. PICK r \in Requests : req[w].r = r /\ req[w].pc = "put"
  BY HandlerType DEF IdemPut
<1>2. UNCHANGED pms /\ req[w] \in HandlerRecord /\ Scope(r) \in Scopes
      /\ req \in [Workers -> HandlerRecord]
      /\ idem \in [Scopes -> IdemRecord \cup {None}]
      /\ req[w].booking \in Nat /\ req[w].pending \in BOOLEAN /\ r.hash \in Nat
  BY RequestType DEF IdemPut, DirectInv, DirectShape, HandlerRecord
<1>3. PICK record \in IdemRecord :
        record = [hash |-> r.hash, booking |-> req[w].booking,
                  pending |-> req[w].pending]
  BY <1>2 DEF IdemRecord
<1>4. idem' = [idem EXCEPT ![Scope(r)] = record]
  BY <1>1, <1>3 DEF IdemPut, NothingLost, Fault
<1>5. \A s \in Scopes : IF s = Scope(r) THEN idem'[s] # None ELSE idem'[s] = idem[s]
  BY <1>2, <1>3, <1>4, IdemAssumption
<1>6. \A v \in Workers : v = w /\ req'[v].pc = "reply"
  BY <1>2 DEF IdemPut, Step, OneByOne, HandlerRecord
<1>7. OneBookingPerScope'
  BY <1>2 DEF OnceInv, OneBookingPerScope
<1>8. ASSUME NEW b \in DOMAIN pms PROVE idem'[pms[b].scope] # None
  <2>1. pms[b] \in PmsBooking
    BY DEF DirectInv, DirectShape
  <2>2. idem[pms[b].scope] # None \/ Holds(req[w], pms[b].scope)
    BY <1>6 DEF OnceInv
  <2> QED
    BY <1>1, <1>5, <2>1, <2>2 DEF Holds, PmsBooking
<1> QED
  BY <1>2, <1>6, <1>7, <1>8 DEF OnceInv

(* The steps that neither hold nor look for a booking.                     *)
LEMMA OncePasses ==
  ASSUME DirectInv, OnceInv, NEW w \in Workers,
         CallFails(w) \/ PmsCancels(w) \/ RowReleased(w) \/ Reply(w)
  PROVE  OnceInv'
<1>1. UNCHANGED <<idem, pms>> /\ req[w].pc \notin {"record", "put"}
  BY DEF CallFails, PmsCancels, RowReleased, Reply
<1>2. PICK h : req' = [req EXCEPT ![w] = h] /\ h.pc # "pms"
  <2>1. CASE End(w)
    BY <2>1, IdleReqType DEF End
  <2>2. CASE ~End(w)
    BY <2>2, CancelMove DEF CallFails, Reply
  <2> QED
    BY <2>1, <2>2
<1>3. \A s : ~Holds(req[w], s)
  BY <1>1 DEF Holds
<1> QED
  BY <1>1, <1>2, <1>3, OnceMove

LEMMA OnceStep ==
  ASSUME OneByOne, NothingLost, restarts \in Nat, DirectInv, OnceInv,
         [DirectNext]_vars
  PROVE  OnceInv'
<1>1. CASE UNCHANGED <<idem, pms, req>>
  BY <1>1 DEF OnceInv, OneBookingPerScope, Holds, Scope
<1>2. ASSUME NEW w \in Workers, HandlerStep(w) PROVE OnceInv'
  <2>1. CASE UNCHANGED directVars
    BY <1>1, <2>1 DEF directVars
  <2> QED
    BY <1>2, <2>1, OnceGets, OnceBooks, OnceRecords, OnceCaches, OncePasses
    DEF HandlerStep, RecordStay, ReleaseRow
<1>3. ~ProcessRestart
  BY DEF ProcessRestart, Restart, NothingLost
<1>4. \A s \in Scopes : ~ExpireIdem(s)
  BY DEF ExpireIdem, Fault, NothingLost
<1> QED
  BY <1>1, <1>2, <1>3, <1>4, OnceArrives
  DEF DirectNext, Arrive, ToggleEngine, vars, directVars

(* Requests that come one at a time, as a client's retries do when it      *)
(* waits for each answer, book once under a key, although the PMS may      *)
(* ignore the key: the Redis record alone does it (createBooking).  It     *)
(* takes that no booking is lost between the PMS and the record.           *)
THEOREM OneBookingUnderKey ==
  ASSUME OneByOne, NothingLost
  PROVE  DirectSpec => []OneBookingPerScope
<1>1. DirectInit => OnceInv
  <2> SUFFICES ASSUME DirectInit PROVE OnceInv
    OBVIOUS
  <2>1. pms = <<>> /\ req = [w \in Workers |-> IdleReq]
    BY DEF DirectInit
  <2> QED
    BY <2>1, IdleReqType DEF OnceInv, OneBookingPerScope
<1>2. TypeOK /\ DirectInv /\ OnceInv /\ [DirectNext]_vars => OnceInv'
  BY OnceStep DEF TypeOK
<1>3. OnceInv => OneBookingPerScope
  BY DEF OnceInv
<1>4. DirectSpec => []TypeOK
  BY DirectRunsStore, TypeCorrect, PTL
<1> QED
  BY <1>1, <1>2, <1>3, <1>4, DirectInvariant, PTL DEF DirectSpec

-----------------------------------------------------------------------------
(* What a handler's calls of the store are: the stay it records, or the    *)
(* cancellation of a row that exists once it was read.                     *)
JobOf(w) ==
  \/ job[w].pc = "idle"
  \/ req[w].pc = "record" /\ job[w].call = StayCall(w)
  \/ /\ req[w].pc = "release" /\ job[w].call.op = "cancel"
     /\ job[w].pc \in {"lookup", "write"} => job[w].id \in DOMAIN rows
CallsMatch == \A w \in Workers : JobOf(w)

(* The keys under which the stays of a request are recorded.               *)
KeysOf(r) == {ReservationKey(r, i) : i \in 0..(r.stays - 1)}

(* Clients take a key for one booking only: persist does not know the      *)
(* property of a key, and a key reused elsewhere is taken for a duplicate. *)
KeysApart ==
  \A q, r \in Requests :
    (q.kind = "create" /\ r.kind # "cancel" /\ KeysOf(q) \cap KeysOf(r) # {})
      => r.kind = "create" /\ Scope(q) = Scope(r)

(* The fingerprint tells payloads apart.                                   *)
PayloadsApart ==
  \A q, r \in Requests :
    (q.kind = "create" /\ r.kind = "create" /\ Scope(q) = Scope(r) /\ q.hash = r.hash)
      => q.stays = r.stays

(* Key k is the one of a call that has written its row.                    *)
JobHas(j, k) ==
  /\ j.call.op # "cancel" /\ j.call.key = k
  /\ j.pc \in {"mark", "publish"} \/ (j.pc = "done" /\ j.outcome # "error")

(* Handler h will answer that the stay under key k is recorded.            *)
HandlerHas(h, k) ==
  /\ h.pc \in {"record", "put", "reply"} /\ h.r.kind = "create" /\ ~h.pending
  /\ IF h.pc = "record" THEN \E i \in 0..(h.index - 1) : k = ReservationKey(h.r, i)
                        ELSE k \in KeysOf(h.r)

(* A cached answer tells q that the stay under key k is recorded.          *)
CacheHas(q, k) ==
  /\ q.kind = "create" /\ k \in KeysOf(q)
  /\ idem[Scope(q)] # None
  /\ idem[Scope(q)].hash = q.hash /\ ~idem[Scope(q)].pending

(* Somebody relies on a row under key k.                                   *)
Relied(k) ==
  \/ k \in seenKeys
  \/ \E w \in Workers : JobHas(job[w], k) \/ HandlerHas(req[w], k)
  \/ \E q \in Requests : CacheHas(q, k)
  \/ \E a \in answers : ~a.pending /\ k \in KeysOf(a.r)

(* f[i] is the key row i was inserted under: the row is a booking of every *)
(* request that uses the key, and no key is relied upon without its row.   *)
RecordedUnder(f) ==
  /\ \A i \in DOMAIN rows, q \in Requests :
       (q.kind = "create" /\ f[i] \in KeysOf(q)) => Made(q, rows[i].ext)
  /\ \A k \in Keys \cup {None} : Relied(k) => \E i \in DOMAIN rows : f[i] = k
RecordedInv ==
  \E f \in [DOMAIN rows -> Keys \cup {None}] : RecordedUnder(f)

LEMMA JobPhase ==
  /\ IdleJob.pc = "idle" /\ IdleJob \in JobRecord
  /\ \A k : ~JobHas(IdleJob, k)
BY IdleJobType DEF IdleJob, JobHas

(* Handler w moves between two calls of the store.                         *)
LEMMA HandlerAlone ==
  ASSUME DirectInv, CallsMatch, NEW w \in Workers, NEW h,
         req' = [req EXCEPT ![w] = h], UNCHANGED resVars,
         req[w].pc \notin {"record", "release"}
  PROVE  CallsMatch'
<1>1. \A v \in Workers : v # w => req'[v] = req[v]
  BY DEF DirectInv, DirectShape
<1>2. job[w].pc = "idle" /\ UNCHANGED <<rows, job>>
  BY DEF CallsMatch, JobOf, resVars
<1>3. ASSUME NEW v \in Workers PROVE JobOf(v)'
  BY <1>1, <1>2 DEF CallsMatch, JobOf, StayCall, ReservationKey
<1> QED
  BY <1>3 DEF CallsMatch

(* The call of handler w moves, the rows only grow.                        *)
LEMMA CallAlone ==
  ASSUME StoreInv, CallsMatch, NEW w \in Workers, NEW j,
         job' = [job EXCEPT ![w] = j], RowsGrow, UNCHANGED req,
         \/ req[w].pc = "record" /\ j.call = StayCall(w)
         \/ /\ req[w].pc = "release" /\ j.call.op = "cancel"
            /\ j.pc \in {"lookup", "write"} => j.id \in DOMAIN rows
  PROVE  CallsMatch'
<1>1. \A v \in Workers : job'[v] = IF v = w THEN j ELSE job[v]
  BY DEF StoreInv, TypeOK
<1>2. \A i \in DOMAIN rows : i \in DOMAIN rows'
  BY DEF RowsGrow
<1>3. ASSUME NEW v \in Workers PROVE JobOf(v)'
  <2>1. CASE v = w
    BY <1>1, <1>2, <2>1 DEF JobOf, StayCall, ReservationKey
  <2>2. CASE v # w
    BY <1>1, <1>2, <2>2 DEF CallsMatch, JobOf, StayCall, ReservationKey
  <2> QED
    BY <2>1, <2>2
<1> QED
  BY <1>3 DEF CallsMatch

LEMMA ServiceMatches ==
  ASSUME StoreInv, CallsMatch, NEW w \in Workers, ServiceStep(w), UNCHANGED req
  PROVE  CallsMatch'
<1>1. PICK j : job' = [job EXCEPT ![w] = j] /\ Follows(w, job[w], j)
  BY CallFollows
<1>2. RowsGrow
  BY StoreGrows
<1>3. CASE req[w].pc = "record" /\ job[w].call = StayCall(w)
  <2>1. j.call = StayCall(w)
    BY <1>1, <1>3 DEF Follows, StayCall
  <2> QED
    BY <1>1, <1>2, <1>3, <2>1, CallAlone
<1>4. CASE ~(req[w].pc = "record" /\ job[w].call = StayCall(w))
  <2>1. /\ req[w].pc = "release" /\ job[w].call.op = "cancel"
        /\ job[w].pc \in {"lookup", "write"} => job[w].id \in DOMAIN rows
    BY <1>1, <1>4 DEF CallsMatch, JobOf, Follows
  <2>2. job[w].pc # "check"
    BY <2>1, JobType DEF JobSound
  <2>3. j.call.op = "cancel" /\ (j.pc \in {"lookup", "write"} => j.id \in DOMAIN rows)
    BY <1>1, <2>1, <2>2 DEF Follows
  <2> QED
    BY <1>1, <1>2, <2>1, <2>3, CallAlone
<1> QED
  BY <1>3, <1>4

LEMMA CallsMatchStep ==
  ASSUME StoreInv, DirectInv, CallsMatch, [DirectNext]_vars
  PROVE  CallsMatch'
<1>a. /\ job \in [Workers -> JobRecord]
      /\ req \in [Workers -> HandlerRecord]
  BY DEF StoreInv, TypeOK, DirectInv, DirectShape
<1>1. CASE UNCHANGED <<rows, job, req>>
  BY <1>1 DEF CallsMatch, JobOf, StayCall, ReservationKey
<1>2. ASSUME NEW w \in Workers, NEW r \in Requests,
             \/ ArriveCreate(w, r)
             \/ ArriveMirror(w, r)
             \/ \E row \in 0..MaxRows : ArriveCancel(w, r, row)
      PROVE  CallsMatch'
  <2>1. UNCHANGED resVars /\ req[w].pc = "idle"
    BY <1>2 DEF ArriveCreate, ArriveMirror, ArriveCancel
  <2>2. PICK h : req' = [req EXCEPT ![w] = h]
    BY <1>2, ArriveMove
  <2> QED
    BY <2>1, <2>2, HandlerAlone
<1>3. ASSUME NEW w \in Workers,
             IdemGet(w) \/ CallFails(w) \/ PmsBooks(w) \/ IdemPut(w) \/ PmsCancels(w)
             \/ Reply(w)
      PROVE  CallsMatch'
  <2>1. UNCHANGED resVars /\ req[w].pc \notin {"record", "release"}
    BY <1>3 DEF IdemGet, CallFails, PmsBooks, IdemPut, PmsCancels, Reply
  <2>2. PICK h : req' = [req EXCEPT ![w] = h]
    <3>1. CASE End(w)
      BY <3>1 DEF End
    <3>2. CASE PmsBooks(w)
      <4>1. PICK b : req' = [req EXCEPT ![w].pc = "record", ![w].booking = b] \/ End(w)
        BY <3>2, PmsAnswer
      <4>2. CASE req' = [req EXCEPT ![w].pc = "record", ![w].booking = b]
        <5>1. req' = [req EXCEPT ![w] = [req[w] EXCEPT !.pc = "record", !.booking = b]]
          BY <1>a, <4>2
        <5> QED
          BY <5>1
      <4> QED
        BY <3>1, <4>1, <4>2
    <3>3. ASSUME NEW pc, Step(w, pc) PROVE \E h : req' = [req EXCEPT ![w] = h]
      <4>1. req' = [req EXCEPT ![w] = [req[w] EXCEPT !.pc = pc]]
        BY <1>a, <3>3 DEF Step
      <4> QED
        BY <4>1
    <3>4. CASE IdemGet(w)
      <4>1. PICK record : Step(w, "pms") \/ Replay(w, record) \/ End(w)
        BY <3>4 DEF IdemGet
      <4>2. CASE Replay(w, record)
        <5>1. req' = [req EXCEPT ![w] = [req[w] EXCEPT !.pc = "reply",
                !.booking = record.booking, !.pending = record.pending]]
          BY <1>a, <4>2 DEF Replay
        <5> QED
          BY <5>1
      <4> QED
        BY <3>1, <3>3, <4>1, <4>2
    <3> QED
      BY <1>3, <3>1, <3>2, <3>3, <3>4 DEF CallFails, IdemPut, PmsCancels, Reply
  <2> QED
    BY <2>1, <2>2, HandlerAlone
<1>4. ASSUME NEW w \in Workers, RecordStay(w) PROVE CallsMatch'
  <2>1. PICK c : c = StayCall(w)
    OBVIOUS
  <2>2. /\ job' = [job EXCEPT ![w] = [IdleJob EXCEPT !.pc = "check", !.call = c]]
        /\ req[w].pc = "record" /\ UNCHANGED <<rows, req>>
    BY <1>4, <2>1 DEF RecordStay, StartPersist, directVars
  <2>3. [IdleJob EXCEPT !.pc = "check", !.call = c].call = StayCall(w)
    BY <2>1 DEF IdleJob
  <2> QED
    BY <2>2, <2>3, CallAlone DEF RowsGrow
<1>5. ASSUME NEW w \in Workers, ReleaseRow(w) PROVE CallsMatch'
  <2>1. PICK j : j = [IdleJob EXCEPT !.pc = "read", !.id = req[w].row,
                                     !.call.op = "cancel"]
    OBVIOUS
  <2>2. job' = [job EXCEPT ![w] = j] /\ req[w].pc = "release" /\ UNCHANGED <<rows, req>>
    BY <1>5, <2>1 DEF ReleaseRow, StartCancel, directVars
  <2>3. j.pc = "read" /\ j.call.op = "cancel"
    BY <2>1 DEF IdleJob, NoCall
  <2> QED
    BY <2>2, <2>3, CallAlone DEF RowsGrow
<1>6. ASSUME NEW w \in Workers, ServiceStep(w), UNCHANGED directVars PROVE CallsMatch'
  BY <1>6, ServiceMatches DEF directVars
<1>7. ASSUME NEW w \in Workers, StayRecorded(w) \/ RowReleased(w) PROVE CallsMatch'
  <2>1. UNCHANGED rows /\ job' = [job EXCEPT ![w] = IdleJob]
    BY <1>7 DEF StayRecorded, RowReleased, Return
  <2>2. PICK h : req' = [req EXCEPT ![w] = h]
    BY <1>7, StayMove, CancelMove
  <2>3. \A v \in Workers : /\ job'[v] = IF v = w THEN IdleJob ELSE job[v]
                           /\ v # w => req'[v] = req[v]
    BY <1>a, <2>1, <2>2
  <2>4. ASSUME NEW v \in Workers PROVE JobOf(v)'
    BY <2>1, <2>3, JobPhase DEF CallsMatch, JobOf, StayCall, ReservationKey
  <2> QED
    BY <2>4 DEF CallsMatch
<1>8. CASE ProcessRestart
  <2>1. \A w \in Workers : job'[w].pc = "idle"
    BY <1>8, JobPhase DEF ProcessRestart, Restart
  <2> QED
    BY <2>1 DEF CallsMatch, JobOf
<1>9. CASE UNCHANGED vars \/ (\E s \in Scopes : ExpireIdem(s))
           \/ (\E p \in Properties : ToggleEngine(p))
  BY <1>1, <1>9 DEF vars, directVars, resVars, ExpireIdem, ToggleEngine
<1> QED
  BY <1>2, <1>3, <1>4, <1>5, <1>6, <1>7, <1>8, <1>9
  DEF DirectNext, Arrive, HandlerStep

(* A step of handler w: only what it newly answers has to be looked at.    *)
LEMMA ReliedHandler ==
  ASSUME DirectInv, NEW w \in Workers, NEW h, NEW k, req' = [req EXCEPT ![w] = h],
         UNCHANGED seenKeys, HandlerHas(h, k) => Relied(k),
         \A v \in Workers : JobHas(job'[v], k) => JobHas(job[v], k),
         \A q \in Requests : CacheHas(q, k)' => Relied(k),
         \A a \in answers' : (~a.pending /\ k \in KeysOf(a.r)) => Relied(k)
  PROVE  Relied(k)' => Relied(k)
<1>1. \A v \in Workers : req'[v] = IF v = w THEN h ELSE req[v]
  BY DEF DirectInv, DirectShape
<1>2. ASSUME NEW v \in Workers, HandlerHas(req'[v], k) PROVE Relied(k)
  <2>1. CASE v = w
    BY <1>1, <1>2, <2>1
  <2>2. CASE v # w
    BY <1>1, <1>2, <2>2 DEF Relied
  <2> QED
    BY <2>1, <2>2
<1> SUFFICES ASSUME Relied(k)' PROVE Relied(k)
  OBVIOUS
<1>3. \/ k \in seenKeys
      \/ \E v \in Workers : JobHas(job'[v], k) \/ HandlerHas(req'[v], k)
      \/ \E q \in Requests : CacheHas(q, k)'
      \/ \E a \in answers' : ~a.pending /\ k \in KeysOf(a.r)
  BY DEF Relied, JobHas, HandlerHas, KeysOf, ReservationKey
<1> QED
  BY <1>2, <1>3 DEF Relied

(* A step that leaves the caches, the answers and the calls as they are.   *)
LEMMA ReliedQuiet ==
  ASSUME DirectInv, NEW w \in Workers, NEW h, NEW k, req' = [req EXCEPT ![w] = h],
         UNCHANGED <<seenKeys, job, idem, answers>>, HandlerHas(h, k) => Relied(k)
  PROVE  Relied(k)' => Relied(k)
<1>1. \A q \in Requests : CacheHas(q, k)' => Relied(k)
  BY DEF CacheHas, Relied, KeysOf, ReservationKey, Scope
<1>2. \A a \in answers' : (~a.pending /\ k \in KeysOf(a.r)) => Relied(k)
  BY DEF Relied
<1> QED
  BY <1>1, <1>2, ReliedHandler

LEMMA ReliedArrives ==
  ASSUME DirectInv, NEW w \in Workers, NEW r \in Requests, NEW k,
         \/ ArriveCreate(w, r)
         \/ ArriveMirror(w, r)
         \/ \E row \in 0..MaxRows : ArriveCancel(w, r, row)
  PROVE  Relied(k)' => Relied(k)
<1>1. UNCHANGED <<seenKeys, job, idem, answers>>
  BY DEF ArriveCreate, ArriveMirror, ArriveCancel, resVars
<1>2. PICK h : /\ req' = [req EXCEPT ![w] = h]
               /\ \/ h = req[w]
                  \/ h.index = 0 /\ h.pc \in {"get", "record", "cancel"}
  BY ArriveMove
<1>3. HandlerHas(h, k) => Relied(k)
  BY <1>2 DEF HandlerHas, Relied
<1> QED
  BY <1>1, <1>2, <1>3, ReliedQuiet

(* A replayed answer was cached for the request's own payload.             *)
LEMMA ReliedGets ==
  ASSUME DirectInv, NEW w \in Workers, NEW k, IdemGet(w)
  PROVE  Relied(k)' => Relied(k)
<1>1. PICK r \in Requests : req[w].r = r /\ req[w].pc = "get" /\ r.kind = "create"
  BY HandlerType DEF IdemGet, HandlerSound
<1>2. UNCHANGED <<seenKeys, job, idem, answers>> /\ req[w] \in HandlerRecord
  BY DEF IdemGet, resVars, DirectInv, DirectShape
<1>3. PICK record : record = idem[Scope(r)]
  OBVIOUS
<1>4. CASE record # None /\ record.hash = r.hash
  <2>1. PICK h : h = [req[w] EXCEPT !.pc = "reply", !.booking = record.booking,
                                    !.pending = record.pending]
    OBVIOUS
  <2>2. /\ req' = [req EXCEPT ![w] = h] /\ h.pc = "reply" /\ h.r = r
        /\ h.pending = record.pending
    BY <1>1, <1>2, <1>3, <1>4, <2>1 DEF IdemGet, Replay, HandlerRecord
  <2>3. HandlerHas(h, k) => CacheHas(r, k)
    BY <1>1, <1>3, <1>4, <2>2 DEF HandlerHas, CacheHas
  <2> QED
    BY <1>2, <2>2, <2>3, ReliedQuiet DEF Relied
<1>5. CASE ~(record # None /\ record.hash = r.hash)
  <2>1. PICK h : req' = [req EXCEPT ![w] = h] /\ h.pc \in {"pms", "idle"}
    <3>1. CASE End(w)
      BY <3>1, IdleReqType DEF End
    <3>2. CASE Step(w, "pms")
      <4>1. PICK h : h = [req[w] EXCEPT !.pc = "pms"]
        OBVIOUS
      <4>2. req' = [req EXCEPT ![w] = h] /\ h.pc = "pms"
        BY <1>2, <3>2, <4>1 DEF Step, HandlerRecord
      <4> QED
        BY <4>2
    <3> QED
      BY <1>1, <1>3, <1>5, <3>1, <3>2 DEF IdemGet
  <2>2. ~HandlerHas(h, k)
    BY <2>1 DEF HandlerHas
  <2> QED
    BY <1>2, <2>1, <2>2, ReliedQuiet
<1> QED
  BY <1>4, <1>5

(* A booking that was just made, a handler that ends, a cancellation.      *)
LEMMA ReliedPasses ==
  ASSUME DirectInv, NEW w \in Workers, NEW k,
         CallFails(w) \/ PmsBooks(w) \/ PmsCancels(w)
  PROVE  Relied(k)' => Relied(k)
<1>1. UNCHANGED <<seenKeys, job, idem, answers>> /\ req[w] \in HandlerRecord
  BY DEF CallFails, PmsBooks, PmsCancels, resVars, DirectInv, DirectShape
<1>2. PICK h : /\ req' = [req EXCEPT ![w] = h]
               /\ h.pc = "idle" \/ (h.pc = "record" /\ h.index = 0)
                  \/ h.r.kind = "cancel"
  <2>1. CASE End(w)
    BY <2>1, IdleReqType DEF End
  <2>2. CASE PmsCancels(w)
    BY <2>2, CancelMove
  <2>3. CASE PmsBooks(w) /\ ~End(w)
    <3>1. PICK b : req' = [req EXCEPT ![w].pc = "record", ![w].booking = b]
      BY <2>3, PmsAnswer
    <3>2. PICK h : h = [req[w] EXCEPT !.pc = "record", !.booking = b]
      OBVIOUS
    <3>3. req' = [req EXCEPT ![w] = h] /\ h.pc = "record" /\ h.index = req[w].index
      BY <1>1, <3>1, <3>2 DEF HandlerRecord
    <3>4. req[w].index = 0
      BY <2>3, HandlerType DEF PmsBooks, HandlerSound
    <3> QED
      BY <3>3, <3>4
  <2> QED
    BY <2>1, <2>2, <2>3 DEF CallFails
<1>3. ~HandlerHas(h, k)
  BY <1>2 DEF HandlerHas
<1> QED
  BY <1>1, <1>2, <1>3, ReliedQuiet

(* A stay is answered for when the call of its key has written its row.    *)
LEMMA ReliedRecords ==
  ASSUME StoreInv, DirectInv, CallsMatch, NEW w \in Workers, NEW k, StayRecorded(w)
  PROVE  Relied(k)' => Relied(k)
<1>1. PICK old \in HandlerRecord : old = req[w]
  BY HandlerType
<1>2. /\ UNCHANGED <<seenKeys, idem, answers>> /\ old.pc = "record"
      /\ job[w].pc = "done" /\ job' = [job EXCEPT ![w] = IdleJob]
  BY <1>1 DEF StayRecorded, Return
<1>3. job[w].call = StayCall(w) /\ job[w].call.op # "cancel"
  BY <1>1, <1>2 DEF CallsMatch, JobOf, StayCall
<1>4. PICK h :
        /\ req' = [req EXCEPT ![w] = h]
        /\ \/ h = IdleReq
           \/ /\ h.r = old.r /\ h.index = old.index + 1
              /\ h.pending = (old.pending \/ job[w].outcome = "error")
              /\ h.pc = IF old.index + 1 # old.r.stays THEN "record"
                        ELSE IF old.r.kind = "create" THEN "put" ELSE "reply"
  BY <1>1, StayMove
<1>5. ASSUME HandlerHas(h, k) PROVE Relied(k)
  <2>1. /\ h.r = old.r /\ h.index = old.index + 1 /\ old.r.kind = "create"
        /\ ~old.pending /\ job[w].outcome # "error"
    BY <1>4, <1>5, IdleReqType DEF HandlerHas
  <2>2. PICK i \in 0..old.index : k = ReservationKey(old.r, i)
    <3>1. old.index \in Nat /\ old.r.stays \in Nat
      BY <1>1, <1>2, HandlerType, RequestType DEF HandlerRecord
    <3>2. CASE h.pc = "record"
      BY <1>5, <2>1, <3>1, <3>2 DEF HandlerHas
    <3>3. CASE h.pc # "record"
      <4>1. old.index + 1 = old.r.stays /\ k \in KeysOf(old.r)
        BY <1>4, <1>5, <2>1, <3>3, IdleReqType DEF HandlerHas
      <4> QED
        BY <3>1, <4>1 DEF KeysOf
    <3> QED
      BY <3>2, <3>3
  <2>3. CASE i = old.index
    <3>1. job[w].call.key = k
      BY <1>1, <1>3, <2>2, <2>3 DEF StayCall
    <3>2. JobHas(job[w], k)
      BY <1>2, <1>3, <2>1, <3>1 DEF JobHas
    <3> QED
      BY <3>2 DEF Relied
  <2>4. CASE i # old.index
    <3>1. i \in 0..(old.index - 1)
      BY <2>2, <2>4 DEF HandlerRecord
    <3>2. HandlerHas(old, k)
      BY <1>2, <2>1, <2>2, <3>1 DEF HandlerHas
    <3> QED
      BY <1>1, <3>2 DEF Relied
  <2> QED
    BY <2>3, <2>4
<1>6. \A v \in Workers : JobHas(job'[v], k) => JobHas(job[v], k)
  BY <1>2, JobPhase DEF StoreInv, TypeOK
<1>7. \A q \in Requests : CacheHas(q, k)' => Relied(k)
  BY <1>2 DEF CacheHas, Relied, KeysOf, ReservationKey, Scope
<1>8. \A a \in answers' : (~a.pending /\ k \in KeysOf(a.r)) => Relied(k)
  BY <1>2 DEF Relied
<1> QED
  BY <1>2, <1>4, <1>5, <1>6, <1>7, <1>8, ReliedHandler

(* What is cached without a mark of reconciliation was recorded whole.     *)
LEMMA ReliedCaches ==
  ASSUME PayloadsApart, DirectInv, NEW w \in Workers, NEW k, IdemPut(w)
  PROVE  Relied(k)' => Relied(k)
<1>1. PICK r \in Requests : req[w].r = r /\ req[w].pc = "put" /\ r.kind = "create"
  BY HandlerType DEF IdemPut, HandlerSound
<1>2. UNCHANGED <<seenKeys, job, answers>> /\ req[w] \in HandlerRecord
      /\ idem \in [Scopes -> IdemRecord \cup {None}]
  BY DEF IdemPut, resVars, DirectInv, DirectShape
<1>3. PICK h : h = [req[w] EXCEPT !.pc = "reply"]
  OBVIOUS
<1>4. /\ req' = [req EXCEPT ![w] = h]
      /\ h.pc = "reply" /\ h.r = r /\ h.pending = req[w].pending
  BY <1>1, <1>2, <1>3 DEF IdemPut, Step, HandlerRecord
<1>5. HandlerHas(h, k) => Relied(k)
  BY <1>1, <1>4 DEF HandlerHas, Relied
<1>6. PICK record : record = [hash |-> r.hash, booking |-> req[w].booking,
                              pending |-> req[w].pending]
  OBVIOUS
<1>7. UNCHANGED idem \/ idem' = [idem EXCEPT ![Scope(r)] = record]
  BY <1>1, <1>6 DEF IdemPut
<1>8. ASSUME NEW q \in Requests, CacheHas(q, k)' PROVE Relied(k)
  <2>1. /\ q.kind = "create" /\ k \in KeysOf(q) /\ idem'[Scope(q)] # None
        /\ idem'[Scope(q)].hash = q.hash /\ ~idem'[Scope(q)].pending
    BY <1>8 DEF CacheHas, KeysOf, ReservationKey, Scope
  <2>2. CASE idem'[Scope(q)] = idem[Scope(q)]
    BY <2>1, <2>2 DEF CacheHas, Relied
  <2>3. CASE idem'[Scope(q)] # idem[Scope(q)]
    <3>1. Scope(q) = Scope(r) /\ idem'[Scope(q)] = record
      BY <1>2, <1>7, <2>3, RequestType
    <3>2. q.stays = r.stays /\ q.key = r.key /\ ~req[w].pending
      BY <1>1, <1>6, <2>1, <3>1 DEF PayloadsApart, Scope
    <3>3. k \in KeysOf(r)
      BY <2>1, <3>2 DEF KeysOf, ReservationKey
    <3>4. HandlerHas(req[w], k)
      BY <1>1, <3>2, <3>3 DEF HandlerHas
    <3> QED
      BY <3>4 DEF Relied
  <2> QED
    BY <2>2, <2>3
<1>9. \A a \in answers' : (~a.pending /\ k \in KeysOf(a.r)) => Relied(k)
  BY <1>2 DEF Relied
<1> QED
  BY <1>2, <1>4, <1>5, <1>8, <1>9, ReliedHandler

LEMMA ReliedReplies ==
  ASSUME StoreInv, DirectInv, NEW w \in Workers, NEW k, Reply(w) \/ RowReleased(w)
  PROVE  Relied(k)' => Relied(k)
<1>1. UNCHANGED <<seenKeys, idem>> /\ (UNCHANGED job \/ job' = [job EXCEPT ![w] = IdleJob])
  BY DEF Reply, RowReleased, Return, resVars
<1>2. \A v \in Workers : JobHas(job'[v], k) => JobHas(job[v], k)
  BY <1>1, JobPhase DEF StoreInv, TypeOK
<1>3. \A q \in Requests : CacheHas(q, k)' => Relied(k)
  BY <1>1 DEF CacheHas, Relied, KeysOf, ReservationKey, Scope
<1>4. PICK h : req' = [req EXCEPT ![w] = h] /\ (h.pc = "idle" \/ h.r.kind = "cancel")
  BY CancelMove, IdleReqType DEF Reply, End
<1>5. ~HandlerHas(h, k)
  BY <1>4 DEF HandlerHas
<1>6. ASSUME NEW a \in answers', ~a.pending, k \in KeysOf(a.r) PROVE Relied(k)
  <2>1. CASE a \in answers
    BY <1>6, <2>1 DEF Relied
  <2>2. CASE a \notin answers
    <3>1. /\ req[w].pc = "reply" /\ req[w].r.kind = "create"
          /\ a = [r |-> req[w].r, booking |-> req[w].booking,
                  pending |-> req[w].pending]
      BY <2>2 DEF Reply, RowReleased
    <3>2. a.r = req[w].r /\ a.pending = req[w].pending
      BY <3>1
    <3>3. HandlerHas(req[w], k)
      BY <1>6, <3>1, <3>2 DEF HandlerHas
    <3> QED
      BY <3>3 DEF Relied
  <2> QED
    BY <2>1, <2>2
<1> QED
  BY <1>1, <1>2, <1>3, <1>4, <1>5, <1>6, ReliedHandler

(* The store itself: a key is used for a duplicate when it was seen, and   *)
(* for a saved stay when its row was inserted.                             *)
LEMMA ReliedServes ==
  ASSUME StoreInv, DirectInv, CallsMatch, NEW w \in Workers, ServiceStep(w),
         UNCHANGED directVars, NEW k, Relied(k)'
  PROVE  \/ Relied(k)
         \/ SaveInserts(w) /\ job[w].call.op # "cancel" /\ k = job[w].call.key
<1>1. PICK j : job' = [job EXCEPT ![w] = j] /\ Follows(w, job[w], j)
  BY CallFollows
<1>2. \/ UNCHANGED seenKeys
      \/ /\ job[w].pc = "mark"
         /\ seenKeys' = seenKeys \cup ({job[w].call.key} \ {None})
  BY StoreGrows
<1>3. \A v \in Workers : job'[v] = IF v = w THEN j ELSE job[v]
  BY <1>1 DEF StoreInv, TypeOK
<1>4. UNCHANGED <<req, idem, answers>>
  BY DEF directVars
<1>5. job[w].pc \in {"mark", "publish"} => job[w].call.op # "cancel"
  BY JobType DEF JobSound
<1>6. CASE JobHas(j, k)
  <2>1. /\ job[w].call.op # "cancel" /\ job[w].call.key = k
        /\ \/ SaveUpdates(w) \/ SaveInserts(w)
           \/ job[w].pc \in {"mark", "publish"}
           \/ k \in seenKeys
    BY <1>1, <1>6, JobType DEF JobHas, Follows, JobSound
  <2>2. ~SaveUpdates(w)
    <3>1. job[w].call = StayCall(w)
      BY <1>1, <2>1 DEF CallsMatch, JobOf, Follows
    <3>2. External(job[w].call.conn, job[w].call.ext) = {}
      BY <3>1 DEF External, StayCall
    <3> QED
      BY <3>2, JobType DEF SaveUpdates, JobSound
  <2> QED
    BY <2>1, <2>2 DEF Relied, JobHas
<1>7. CASE k \in seenKeys'
  BY <1>2, <1>5, <1>7 DEF Relied, JobHas
<1>8. CASE \/ \E v \in Workers \ {w} : JobHas(job[v], k)
           \/ \E v \in Workers : HandlerHas(req[v], k)
           \/ \E q \in Requests : CacheHas(q, k)
           \/ \E a \in answers : ~a.pending /\ k \in KeysOf(a.r)
  BY <1>8 DEF Relied
<1>9. \/ k \in seenKeys'
      \/ \E v \in Workers : JobHas(job'[v], k) \/ HandlerHas(req[v], k)
      \/ \E q \in Requests : CacheHas(q, k)
      \/ \E a \in answers : ~a.pending /\ k \in KeysOf(a.r)
  BY <1>4 DEF Relied, JobHas, HandlerHas, CacheHas, KeysOf, ReservationKey, Scope
<1> QED
  BY <1>3, <1>6, <1>7, <1>8, <1>9

LEMMA ReliedStep ==
  ASSUME PayloadsApart, StoreInv, DirectInv, CallsMatch, [DirectNext]_vars,
         NEW k, Relied(k)'
  PROVE  \/ Relied(k)
         \/ \E w \in Workers : /\ ServiceStep(w) /\ UNCHANGED directVars
                               /\ SaveInserts(w)
                               /\ job[w].call.op # "cancel" /\ k = job[w].call.key
<1>1. CASE UNCHANGED <<seenKeys, job, req, answers>> /\ (UNCHANGED idem \/ \E s \in Scopes : ExpireIdem(s))
  <2>1. \A q \in Requests : CacheHas(q, k)' => CacheHas(q, k)
    <3>1. CASE UNCHANGED idem
      BY <3>1 DEF CacheHas, KeysOf, ReservationKey, Scope
    <3>2. ASSUME NEW s \in Scopes, ExpireIdem(s), NEW q \in Requests, CacheHas(q, k)'
          PROVE  CacheHas(q, k)
      <4>1. idem' = [idem EXCEPT ![s] = None] /\ idem \in [Scopes -> IdemRecord \cup {None}]
        BY <3>2 DEF ExpireIdem, DirectInv, DirectShape
      <4>2. idem'[Scope(q)] = idem[Scope(q)]
        BY <3>2, <4>1, RequestType DEF CacheHas, Scope
      <4> QED
        BY <3>2, <4>2 DEF CacheHas, KeysOf, ReservationKey, Scope
    <3> QED
      BY <1>1, <3>1, <3>2
  <2> QED
    BY <1>1, <2>1 DEF Relied, JobHas, HandlerHas, KeysOf, ReservationKey
<1>2. CASE ProcessRestart
  <2>1. /\ seenKeys' = {} /\ UNCHANGED <<idem, answers>>
        /\ \A w \in Workers : job'[w] = IdleJob /\ req'[w] = IdleReq
    BY <1>2 DEF ProcessRestart, Restart
  <2>2. ~HandlerHas(IdleReq, k)
    BY IdleReqType DEF HandlerHas
  <2> QED
    BY <2>1, <2>2, JobPhase
    DEF Relied, JobHas, HandlerHas, CacheHas, KeysOf, ReservationKey, Scope
<1>3. ASSUME NEW w \in Workers, RecordStay(w) \/ ReleaseRow(w) PROVE Relied(k)
  <2>1. PICK j : job' = [job EXCEPT ![w] = j] /\ j.pc \in {"check", "read"}
    <3>1. CASE RecordStay(w)
      <4>1. PICK j : j = [IdleJob EXCEPT !.pc = "check", !.call = StayCall(w)]
        OBVIOUS
      <4>2. job' = [job EXCEPT ![w] = j] /\ j.pc = "check"
        BY <3>1, <4>1 DEF RecordStay, StartPersist, IdleJob
      <4> QED
        BY <4>2
    <3>2. CASE ReleaseRow(w)
      <4>1. PICK j : j = [IdleJob EXCEPT !.pc = "read", !.id = req[w].row,
                                         !.call.op = "cancel"]
        OBVIOUS
      <4>2. job' = [job EXCEPT ![w] = j] /\ j.pc = "read"
        BY <3>2, <4>1 DEF ReleaseRow, StartCancel, IdleJob
      <4> QED
        BY <4>2
    <3> QED
      BY <1>3, <3>1, <3>2
  <2>2. UNCHANGED <<seenKeys, req, idem, answers>>
    BY <1>3 DEF RecordStay, ReleaseRow, StartPersist, StartCancel, directVars
  <2>3. \A v \in Workers : job'[v] = IF v = w THEN j ELSE job[v]
    BY <2>1 DEF StoreInv, TypeOK
  <2>4. ~JobHas(j, k)
    BY <2>1 DEF JobHas
  <2>5. \A v \in Workers : JobHas(job'[v], k) => JobHas(job[v], k)
    BY <2>3, <2>4
  <2>6. \/ k \in seenKeys
        \/ \E v \in Workers : JobHas(job'[v], k) \/ HandlerHas(req[v], k)
        \/ \E q \in Requests : CacheHas(q, k)
        \/ \E a \in answers : ~a.pending /\ k \in KeysOf(a.r)
    BY <2>2 DEF Relied, JobHas, HandlerHas, CacheHas, KeysOf, ReservationKey, Scope
  <2> QED
    BY <2>5, <2>6 DEF Relied
<1>4. ASSUME NEW w \in Workers, ServiceStep(w), UNCHANGED directVars
      PROVE  \/ Relied(k)
             \/ SaveInserts(w) /\ job[w].call.op # "cancel" /\ k = job[w].call.key
  BY <1>4, ReliedServes
<1>5. CASE UNCHANGED vars \/ (\E p \in Properties : ToggleEngine(p))
           \/ (\E s \in Scopes : ExpireIdem(s))
  BY <1>1, <1>5 DEF vars, directVars, resVars, ToggleEngine, ExpireIdem
<1>6. CASE \E r \in Requests : Arrive(r)
  BY <1>6, ReliedArrives DEF Arrive
<1>7. ASSUME NEW w \in Workers,
             \/ IdemGet(w) \/ CallFails(w) \/ PmsBooks(w) \/ PmsCancels(w)
             \/ StayRecorded(w) \/ IdemPut(w) \/ Reply(w) \/ RowReleased(w)
      PROVE  Relied(k)
  BY <1>7, ReliedGets, ReliedPasses, ReliedRecords, ReliedCaches, ReliedReplies
<1> QED
  BY <1>2, <1>3, <1>4, <1>5, <1>6, <1>7 DEF DirectNext, HandlerStep

(* What a step does to the bookings of the PMS and to the rows.            *)
LEMMA DirectGrows ==
  ASSUME StoreInv, DirectInv, [DirectNext]_vars
  PROVE  /\ PmsGrow /\ RowsGrow
         /\ \/ DOMAIN rows' = DOMAIN rows
            \/ \E w \in Workers :
                 /\ ServiceStep(w) /\ SaveInserts(w) /\ UNCHANGED directVars
                 /\ DOMAIN rows' = DOMAIN rows \cup {Len(rows) + 1}
                 /\ Len(rows) + 1 \notin DOMAIN rows
                 /\ rows'[Len(rows) + 1].ext = job[w].call.ext
<1>1. PmsGrow
  <2>1. CASE UNCHANGED pms
    BY <2>1 DEF PmsGrow
  <2>2. ASSUME NEW w \in Workers, PmsBooks(w) PROVE PmsGrow
    BY <2>2, PmsAnswer
  <2> QED
    BY <2>1, <2>2
    DEF DirectNext, Arrive, HandlerStep, ArriveCreate, ArriveMirror, ArriveCancel,
        IdemGet, CallFails, RecordStay, StayRecorded, IdemPut, PmsCancels, ReleaseRow,
        RowReleased, Reply, ExpireIdem, ToggleEngine, ProcessRestart, vars, directVars
<1>2. CASE UNCHANGED rows
  BY <1>1, <1>2 DEF RowsGrow
<1>3. ASSUME NEW w \in Workers, ServiceStep(w), UNCHANGED directVars
      PROVE  /\ RowsGrow
             /\ \/ DOMAIN rows' = DOMAIN rows
                \/ /\ SaveInserts(w)
                   /\ DOMAIN rows' = DOMAIN rows \cup {Len(rows) + 1}
                   /\ Len(rows) + 1 \notin DOMAIN rows
                   /\ rows'[Len(rows) + 1].ext = job[w].call.ext
  BY <1>3, StoreGrows
<1>4. UNCHANGED rows \/ \E w \in Workers : ServiceStep(w) /\ UNCHANGED directVars
  BY DEF DirectNext, Arrive, HandlerStep, ArriveCreate, ArriveMirror, ArriveCancel,
         IdemGet, CallFails, PmsBooks, RecordStay, StayRecorded, IdemPut, PmsCancels,
         ReleaseRow, RowReleased, Reply, ExpireIdem, ToggleEngine, ProcessRestart,
         StartPersist, StartCancel, Return, Restart, vars, resVars
<1> QED
  BY <1>1, <1>2, <1>3, <1>4

(* A row is inserted by a stay only: the row a cancellation names exists,  *)
(* and Save refuses to insert it again.                                    *)
LEMMA StayInserts ==
  ASSUME StoreInv, DirectInv, CallsMatch, NEW w \in Workers, SaveInserts(w)
  PROVE  /\ req[w].pc = "record" /\ job[w].call = StayCall(w)
         /\ job[w].call.op # "cancel"
<1>1. job[w].pc = "write" /\ job[w].id \notin DOMAIN rows
  BY DEF SaveInserts, InsertRefused
<1> QED
  BY <1>1 DEF CallsMatch, JobOf, StayCall

(* An inserted row is a booking of every request that uses its key.        *)
LEMMA InsertOwned ==
  ASSUME PmsDedupes, KeysApart, StoreInv, DirectInv, CallsMatch,
         NEW w \in Workers, SaveInserts(w),
         NEW q \in Requests, q.kind = "create", job[w].call.key \in KeysOf(q)
  PROVE  Made(q, job[w].call.ext)
<1>1. /\ req[w].pc = "record" /\ job[w].call = StayCall(w)
  BY StayInserts
<1>2. PICK r \in Requests : r = req[w].r
  BY <1>1, HandlerType
<1>3. /\ job[w].call.key = ReservationKey(r, req[w].index)
      /\ job[w].call.ext = req[w].booking
  BY <1>1, <1>2 DEF StayCall
<1>4. req[w].index \in 0..(r.stays - 1) /\ r.kind # "cancel"
  BY <1>1, <1>2, HandlerType, RequestType DEF HandlerSound, HandlerRecord
<1>5. job[w].call.key \in KeysOf(r)
  BY <1>3, <1>4 DEF KeysOf
<1>6. r.kind = "create" /\ Scope(q) = Scope(r)
  BY <1>4, <1>5 DEF KeysApart
<1>7. Made(r, req[w].booking)
  BY <1>1, <1>2, <1>6, HandlerType DEF HandlerSound
<1> QED
  BY <1>3, <1>6, <1>7 DEF Made

LEMMA RecordedStep ==
  ASSUME PmsDedupes, KeysApart, PayloadsApart, StoreInv, DirectInv, CallsMatch,
         RecordedInv, [DirectNext]_vars
  PROVE  RecordedInv'
<1>1. PICK f \in [DOMAIN rows -> Keys \cup {None}] : RecordedUnder(f)
  BY DEF RecordedInv
<1>2. PmsGrow /\ RowsGrow
  BY DirectGrows
<1>3. ASSUME NEW i \in DOMAIN rows, NEW q \in Requests, q.kind = "create",
             f[i] \in KeysOf(q), NEW b, b = rows'[i].ext
      PROVE  Made(q, b)'
  <2>1. b = rows[i].ext
    BY <1>2, <1>3 DEF RowsGrow
  <2>2. Made(q, b)
    BY <1>1, <1>3, <2>1 DEF RecordedUnder
  <2> QED
    BY <1>2, <2>2, MadeStays
<1>4. CASE DOMAIN rows' = DOMAIN rows
  <2>1. ASSUME NEW k \in Keys \cup {None}, Relied(k)'
        PROVE  \E i \in DOMAIN rows' : f[i] = k
    <3>1. \A w \in Workers : ~(ServiceStep(w) /\ SaveInserts(w))
      <4>1. rows \in Seq(Row)
        BY DEF StoreInv, TypeOK
      <4> QED
        BY <1>4, <4>1 DEF SaveInserts
    <3>2. Relied(k)
      BY <2>1, <3>1, ReliedStep
    <3> QED
      BY <1>1, <1>4, <3>2 DEF RecordedUnder
  <2>2. RecordedUnder(f)'
    BY <1>3, <1>4, <2>1 DEF RecordedUnder, Made, KeysOf, ReservationKey, Scope, Relied,
       JobHas, HandlerHas, CacheHas
  <2> QED
    BY <1>4, <2>2 DEF RecordedInv
<1>5. ASSUME NEW w \in Workers, ServiceStep(w), SaveInserts(w), UNCHANGED directVars,
             DOMAIN rows' = DOMAIN rows \cup {Len(rows) + 1},
             Len(rows) + 1 \notin DOMAIN rows,
             rows'[Len(rows) + 1].ext = job[w].call.ext
      PROVE  RecordedInv'
  <2>1. PICK n, k : n = Len(rows) + 1 /\ k = job[w].call.key
    OBVIOUS
  <2>g. PICK g : g = [i \in DOMAIN rows' |-> IF i = n THEN k ELSE f[i]]
    OBVIOUS
  <2>2. k \in Keys \cup {None}
    BY <2>1, JobType DEF CallRecord
  <2>3. /\ g \in [DOMAIN rows' -> Keys \cup {None}]
        /\ n \in DOMAIN rows' /\ g[n] = k
        /\ \A i \in DOMAIN rows : i \in DOMAIN rows' /\ g[i] = f[i]
        /\ \A i \in DOMAIN rows' : i = n \/ i \in DOMAIN rows
    BY <1>1, <1>5, <2>1, <2>2, <2>g
  <2>4. ASSUME NEW i \in DOMAIN rows', NEW q \in Requests, q.kind = "create",
               g[i] \in KeysOf(q), NEW b, b = rows'[i].ext
        PROVE  Made(q, b)'
    <3>1. CASE i \in DOMAIN rows
      BY <1>3, <2>3, <2>4, <3>1
    <3>2. CASE i = n
      <4>1. b = job[w].call.ext
        BY <1>5, <2>1, <2>4, <3>2
      <4>2. Made(q, b)
        BY <1>5, <2>1, <2>3, <2>4, <3>2, <4>1, InsertOwned
      <4> QED
        BY <1>2, <4>2, MadeStays
    <3> QED
      BY <2>3, <3>1, <3>2
  <2>5. ASSUME NEW l \in Keys \cup {None}, Relied(l)'
        PROVE  \E i \in DOMAIN rows' : g[i] = l
    <3>1. Relied(l) \/ l = k
      <4>1. ASSUME NEW v \in Workers, SaveInserts(v), ServiceStep(v), UNCHANGED directVars,
                   l = job[v].call.key, job[v].call.op # "cancel"
            PROVE  l = k
        <5>1. v = w
          <6>1. job' # job /\ job \in [Workers -> JobRecord]
            <7>1. PICK j : job' = [job EXCEPT ![v] = j] /\ Follows(v, job[v], j)
              BY <4>1, CallFollows
            <7>2. job[v].pc = "write" /\ j.pc # "write"
              BY <4>1, <7>1 DEF SaveInserts, Follows
            <7> QED
              BY <7>1, <7>2 DEF StoreInv, TypeOK
          <6>2. \E j : job' = [job EXCEPT ![v] = j]
            BY <4>1, CallFollows
          <6>3. \E j : job' = [job EXCEPT ![w] = j]
            BY <1>5, CallFollows
          <6> QED
            BY <6>1, <6>2, <6>3
        <5> QED
          BY <2>1, <4>1, <5>1
      <4> QED
        BY <2>5, <4>1, ReliedStep
    <3> QED
      BY <1>1, <2>3, <3>1 DEF RecordedUnder
  <2>6. RecordedUnder(g)'
    BY <2>4, <2>5 DEF RecordedUnder, Made, KeysOf, ReservationKey, Scope, Relied,
       JobHas, HandlerHas, CacheHas
  <2> QED
    BY <2>3, <2>6 DEF RecordedInv
<1> QED
  BY <1>4, <1>5, DirectGrows

(* The stays of a request have keys of their own.                          *)
LEMMA KeysTellStays ==
  ASSUME NEW r \in Requests, NEW i \in 0..(r.stays - 1), NEW j \in 0..(r.stays - 1),
         ReservationKey(r, i) = ReservationKey(r, j)
  PROVE  i = j
<1>1. r.stays \in Nat \ {0}
  BY RequestType
<1>2. CASE r.stays = 1
  BY <1>1, <1>2
<1>3. CASE r.stays # 1
  BY <1>3 DEF ReservationKey
<1> QED
  BY <1>2, <1>3

(* Rows under each key of an answered request are rows of its booking, and *)
(* there are as many as it has stays.                                      *)
LEMMA RecordedCounts ==
  ASSUME PmsDedupes, StoreInv, DirectInv, RecordedInv
  PROVE  RecordedOrPending
<1>1. PICK f \in [DOMAIN rows -> Keys \cup {None}] : RecordedUnder(f)
  BY DEF RecordedInv
<1> SUFFICES ASSUME NEW a \in answers, ~a.pending
             PROVE  Cardinality(StoredStays(a.booking)) >= a.r.stays
  BY DEF RecordedOrPending
<1>2. PICK r \in Requests : r = a.r /\ r.kind = "create" /\ Made(r, a.booking)
  BY DEF DirectInv, DirectShape, AnswersSound
<1>3. r.stays \in Nat \ {0} /\ pms \in Seq(PmsBooking) /\ rows \in Seq(Row)
  BY RequestType DEF DirectInv, DirectShape, StoreInv, TypeOK
<1>4. PICK S, T : S = 0..(r.stays - 1) /\ T = StoredStays(a.booking)
  OBVIOUS
<1>5. ASSUME NEW i \in S
      PROVE  \E m \in T : f[m] = ReservationKey(r, i)
  <2>1. ReservationKey(r, i) \in Keys \cup {None}
    <3>1. a.booking \in Externals
      BY <1>2, <1>3, DirectAssumption DEF Made, DirectInv, PmsSound
    <3>2. PICK c : c = [op |-> "record", conn |-> None, ext |-> a.booking,
                        status |-> "confirmed", key |-> ReservationKey(r, i)]
      OBVIOUS
    <3>3. c \in StayCalls
      BY <1>2, <1>4, <3>1, <3>2 DEF StayCalls
    <3>4. c \in CallRecord /\ c.key = ReservationKey(r, i)
      BY <3>2, <3>3, StayAssumption, ReservationAssumption
    <3> QED
      BY <3>4 DEF CallRecord
  <2>2. Relied(ReservationKey(r, i)) /\ ReservationKey(r, i) \in KeysOf(r)
    BY <1>2, <1>4 DEF Relied, KeysOf
  <2>3. PICK m \in DOMAIN rows : f[m] = ReservationKey(r, i)
    BY <1>1, <2>1, <2>2 DEF RecordedUnder
  <2>4. Made(r, rows[m].ext)
    BY <1>1, <1>2, <2>2, <2>3 DEF RecordedUnder
  <2>5. rows[m].ext = a.booking
    BY <1>2, <2>4 DEF Made, DirectInv, PmsSound
  <2> QED
    BY <1>4, <2>3, <2>5 DEF StoredStays
<1> DEFINE row == [i \in S |-> CHOOSE m \in T : f[m] = ReservationKey(r, i)]
<1>6. row \in [S -> T] /\ \A i \in S : f[row[i]] = ReservationKey(r, i)
  BY <1>5
<1> HIDE DEF row
<1>7. row \in Injection(S, T)
  BY <1>4, <1>6, KeysTellStays DEF Injection, IsInjective
<1>8. IsFiniteSet(T)
  <2>1. T \subseteq 1..Len(rows) /\ Len(rows) \in Int
    BY <1>3, <1>4 DEF StoredStays
  <2>2. IsFiniteSet(1..Len(rows))
    BY <2>1, FS_Interval
  <2> QED
    BY <2>1, <2>2, FS_Subset
<1>9. Cardinality(S) <= Cardinality(T)
  BY <1>7, <1>8, FS_Injection
<1>10. Cardinality(S) = r.stays
  <2>1. 0 \in Int /\ r.stays - 1 \in Int /\ ~(0 > r.stays - 1)
    BY <1>3
  <2>2. Cardinality(0..(r.stays - 1)) = (r.stays - 1) - 0 + 1
    BY <2>1, FS_Interval
  <2> QED
    BY <1>3, <1>4, <2>2
<1>11. Cardinality(T) \in Nat
  BY <1>8, FS_CardinalityType
<1> QED
  BY <1>2, <1>3, <1>4, <1>9, <1>10, <1>11

(* The store under the handlers keeps its own invariant.                   *)
LEMMA DirectStore == DirectSpec => []StoreInv
BY DirectRunsStore, StoreInvariant, PTL

LEMMA CallsAlwaysMatch == DirectSpec => []CallsMatch
<1>1. DirectInit => CallsMatch
  BY JobPhase DEF DirectInit, ResInit, CallsMatch, JobOf
<1>2. StoreInv /\ DirectInv /\ CallsMatch /\ [DirectNext]_vars => CallsMatch'
  BY CallsMatchStep
<1> QED
  BY <1>1, <1>2, DirectStore, DirectInvariant, PTL DEF DirectSpec

(* A guest who is told that a booking is complete, without the mark of a   *)
(* reconciliation to come, has a canonical reservation for every stay,     *)
(* whatever was repeated, failed, expired, restarted or lost before        *)
(* (createBooking, persistReservation).  It takes a PMS that honours keys, *)
(* clients that use a key for one booking, and a fingerprint that tells    *)
(* payloads apart.                                                         *)
THEOREM AnswersRecorded ==
  ASSUME PmsDedupes, KeysApart, PayloadsApart
  PROVE  DirectSpec => []RecordedOrPending
<1>1. DirectInit => RecordedInv
  <2> SUFFICES ASSUME DirectInit PROVE RecordedInv
    OBVIOUS
  <2>1. /\ rows = <<>> /\ seenKeys = {} /\ answers = {}
        /\ job = [w \in Workers |-> IdleJob] /\ req = [w \in Workers |-> IdleReq]
        /\ idem = [s \in Scopes |-> None]
    BY DEF DirectInit, ResInit
  <2>2. \A k : ~HandlerHas(IdleReq, k)
    BY IdleReqType DEF HandlerHas
  <2>3. \A q \in Requests : idem[Scope(q)] = None
    BY <2>1, RequestType
  <2>4. \A k : ~Relied(k)
    BY <2>1, <2>2, <2>3, JobPhase DEF Relied, CacheHas
  <2>5. DOMAIN rows = {}
    BY <2>1
  <2>6. PICK f : f = [i \in DOMAIN rows |-> None]
    OBVIOUS
  <2>7. f \in [DOMAIN rows -> Keys \cup {None}] /\ RecordedUnder(f)
    BY <2>4, <2>5, <2>6 DEF RecordedUnder
  <2> QED
    BY <2>7 DEF RecordedInv
<1>2. StoreInv /\ DirectInv /\ CallsMatch /\ RecordedInv /\ [DirectNext]_vars
        => RecordedInv'
  BY RecordedStep
<1>3. StoreInv /\ DirectInv /\ RecordedInv => RecordedOrPending
  BY RecordedCounts
<1> QED
  BY <1>1, <1>2, <1>3, DirectStore, DirectInvariant, CallsAlwaysMatch, PTL
  DEF DirectSpec

-----------------------------------------------------------------------------
(* Mirrored bookings are not the ones the PMS makes for this program.      *)
MirrorsApart ==
  \A r \in Requests : r.kind = "mirror" => r.booking \notin 1..MaxBookings

(* Handler w records the stays of booking b it has made.                   *)
Recording(w, b) ==
  req[w].pc = "record" /\ req[w].r.kind = "create" /\ req[w].booking = b

(* Handler w is past the write of its stay x.                              *)
Past(w, x) ==
  \/ x < req[w].index
  \/ x = req[w].index /\ job[w].pc \in {"mark", "publish", "done"}

(* Each booking has the one handler that made it.                          *)
HoldersApart ==
  \A v, w \in Workers, b \in 1..MaxBookings :
    (Recording(v, b) /\ Recording(w, b)) => v = w

(* f[i] is the stay that row i records: one row per stay of a booking, and *)
(* no row of a stay its handler has yet to write.                          *)
StayRows(f) ==
  \A i \in DOMAIN rows : rows[i].ext \in 1..MaxBookings =>
    /\ rows[i].ext \in DOMAIN pms
    /\ \A r \in Requests : r.kind = "create" /\ Made(r, rows[i].ext) => f[i] < r.stays
    /\ \A j \in DOMAIN rows : (rows[j].ext = rows[i].ext /\ f[j] = f[i]) => j = i
    /\ \A w \in Workers : Recording(w, rows[i].ext) => Past(w, f[i])
InsertedOnce ==
  HoldersApart /\ \E f \in [DOMAIN rows -> Nat] : StayRows(f)

(* A handler that records was recording before, or has just made the       *)
(* booking; it never goes back to a stay.                                  *)
LEMMA RecordingStays ==
  ASSUME PmsDedupes = FALSE, StoreInv, DirectInv, CallsMatch, [DirectNext]_vars,
         NEW w \in Workers, NEW b \in DOMAIN pms, Recording(w, b)'
  PROVE  Recording(w, b) /\ \A x \in Nat : Past(w, x) => Past(w, x)'
<1>a. /\ req \in [Workers -> HandlerRecord] /\ job \in [Workers -> JobRecord]
      /\ pms \in Seq(PmsBooking)
  BY DEF DirectInv, DirectShape, StoreInv, TypeOK
<1>b. req'[w].pc = "record" /\ req'[w].r.kind = "create" /\ req'[w].booking = b
  BY DEF Recording
<1>1. CASE req'[w] = req[w] /\ job'[w] = job[w]
  BY <1>1 DEF Recording, Past
<1>2. ASSUME NEW v \in Workers, NEW r \in Requests,
             \/ ArriveCreate(v, r)
             \/ ArriveMirror(v, r)
             \/ \E row \in 0..MaxRows : ArriveCancel(v, r, row)
      PROVE  req'[w] = req[w] /\ job'[w] = job[w]
  <2>1. PICK h : /\ req' = [req EXCEPT ![v] = h]
                 /\ \/ h = req[v]
                    \/ h.pc \in {"get", "cancel"}
                    \/ h.r = r /\ r.kind = "mirror"
    BY <1>2, ArriveMove
  <2>2. UNCHANGED job
    BY <1>2 DEF ArriveCreate, ArriveMirror, ArriveCancel, resVars
  <2>3. CASE v = w
    <3>1. req'[w] = h
      BY <1>a, <2>1, <2>3
    <3> QED
      BY <1>b, <2>1, <2>2, <2>3, <3>1
  <2> QED
    BY <1>a, <2>1, <2>2, <2>3
<1>3. ASSUME NEW v \in Workers, PmsBooks(v) PROVE req'[w] = req[w] /\ job'[w] = job[w]
  <2>1. PICK c \in Nat :
          /\ \/ req' = [req EXCEPT ![v].pc = "record", ![v].booking = c] /\ NoFault
             \/ End(v)
          /\ UNCHANGED pms \/ c = Len(pms) + 1
    BY <1>3, PmsAnswer
  <2>2. c = Len(pms) + 1
    <3>1. ~UNCHANGED pms
      <4>1. PICK r : pms' = Append(pms, [scope |-> Scope(r), hash |-> r.hash])
        BY <1>3 DEF PmsBooks, PriorBookings
      <4>2. PICK new : new = [scope |-> Scope(r), hash |-> r.hash]
        OBVIOUS
      <4>3. Len(Append(pms, new)) # Len(pms)
        BY <1>a
      <4> QED
        BY <4>1, <4>2, <4>3
    <3> QED
      BY <2>1, <3>1
  <2>3. c # b
    BY <1>a, <2>2
  <2>4. CASE End(v)
    BY <1>a, <1>b, <1>3, <2>4, IdleReqType DEF End, PmsBooks, resVars
  <2>5. CASE req' = [req EXCEPT ![v].pc = "record", ![v].booking = c]
    <3>1. v # w
      <4>1. req'[v].booking = c
        BY <1>a, <2>5 DEF HandlerRecord
      <4> QED
        BY <1>b, <2>3, <4>1
    <3> QED
      BY <1>a, <1>3, <2>5, <3>1 DEF PmsBooks, resVars
  <2> QED
    BY <2>1, <2>4, <2>5
<1>4. ASSUME NEW v \in Workers, StayRecorded(v)
      PROVE  Recording(w, b) /\ \A x \in Nat : Past(w, x) => Past(w, x)'
  <2>1. PICK h :
          /\ req' = [req EXCEPT ![v] = h]
          /\ \/ h = IdleReq
             \/ /\ h.r = req[v].r /\ h.booking = req[v].booking
                /\ h.index = req[v].index + 1
    BY <1>4, StayMove
  <2>2. job[v].pc = "done" /\ req[v].pc = "record" /\ job' = [job EXCEPT ![v] = IdleJob]
        /\ req[v].index \in Nat
    BY <1>a, <1>4 DEF StayRecorded, Return, HandlerRecord
  <2>3. CASE v # w
    BY <1>1, <1>a, <2>1, <2>2, <2>3
  <2>4. CASE v = w
    <3>1. req'[w] = h /\ h.pc = "record"
      BY <1>a, <1>b, <2>1, <2>4
    <3>2. Recording(w, b) /\ req'[w].index = req[w].index + 1
      BY <1>b, <2>1, <2>2, <2>4, <3>1, IdleReqType DEF Recording
    <3>3. \A x \in Nat : x <= req[w].index => x < req'[w].index
      BY <2>2, <2>4, <3>2
    <3> QED
      BY <2>2, <2>4, <3>2, <3>3 DEF Past
  <2> QED
    BY <2>3, <2>4
<1>5. ASSUME NEW v \in Workers, ServiceStep(v), UNCHANGED directVars
      PROVE  Recording(w, b) /\ \A x \in Nat : Past(w, x) => Past(w, x)'
  <2>1. PICK j \in JobRecord : job' = [job EXCEPT ![v] = j] /\ Follows(v, job[v], j)
    BY <1>5, CallFollows
  <2>2. UNCHANGED req
    BY <1>5 DEF directVars
  <2>3. job[w].pc \in {"mark", "publish", "done"} => job'[w].pc \in {"mark", "publish", "done"}
    <3>1. CASE v = w /\ job[w].pc \in {"mark", "publish", "done"}
      <4>1. job'[w] = j /\ job[w].pc \in {"mark", "publish"}
        BY <1>a, <2>1, <3>1 DEF Follows
      <4> QED
        BY <2>1, <3>1, <4>1 DEF Follows, SaveUpdates, SaveInserts, JobRecord, Phases
    <3>2. CASE v # w
      BY <1>a, <2>1, <3>2
    <3> QED
      BY <3>1, <3>2
  <2> QED
    BY <2>2, <2>3 DEF Recording, Past
<1>6. ASSUME NEW v \in Workers, RecordStay(v) \/ ReleaseRow(v)
      PROVE  Recording(w, b) /\ \A x \in Nat : Past(w, x) => Past(w, x)'
  <2>1. job[v].pc = "idle" /\ UNCHANGED req /\ \E j : job' = [job EXCEPT ![v] = j]
    BY <1>6 DEF RecordStay, ReleaseRow, StartPersist, StartCancel, directVars
  <2>2. CASE v = w
    BY <2>1, <2>2 DEF Recording, Past
  <2>3. CASE v # w
    BY <1>a, <1>1, <2>1, <2>3
  <2> QED
    BY <2>2, <2>3
<1>7. ASSUME NEW v \in Workers,
             IdemGet(v) \/ CallFails(v) \/ IdemPut(v) \/ PmsCancels(v) \/ RowReleased(v)
             \/ Reply(v)
      PROVE  req'[w] = req[w] /\ job'[w] = job[w]
  <2>1. \A u \in Workers \ {v} : req'[u] = req[u] /\ job'[u] = job[u]
    BY <1>a, <1>7
    DEF IdemGet, CallFails, IdemPut, PmsCancels, RowReleased, Reply, Return, End, Step,
        Replay, resVars
  <2>2. req'[v].pc # "record"
    <3>1. CASE End(v)
      BY <1>a, <3>1, IdleReqType DEF End
    <3>2. ASSUME NEW pc, Step(v, pc), pc # "record" PROVE req'[v].pc # "record"
      BY <1>a, <3>2 DEF Step, HandlerRecord
    <3>3. CASE PmsCancels(v) \/ RowReleased(v)
      BY <1>a, <3>3, CancelMove
    <3>4. CASE IdemGet(v)
      <4>1. PICK record : Step(v, "pms") \/ Replay(v, record) \/ End(v)
        BY <3>4 DEF IdemGet
      <4>2. CASE Replay(v, record)
        BY <1>a, <4>2 DEF Replay, HandlerRecord
      <4> QED
        BY <3>1, <3>2, <4>1, <4>2
    <3> QED
      BY <1>7, <3>1, <3>2, <3>3, <3>4 DEF CallFails, IdemPut, Reply
  <2> QED
    BY <1>b, <2>1, <2>2
<1>8. CASE ProcessRestart
  BY <1>b, <1>8, IdleReqType DEF ProcessRestart
<1>9. CASE UNCHANGED vars \/ (\E s \in Scopes : ExpireIdem(s))
           \/ (\E p \in Properties : ToggleEngine(p))
  BY <1>1, <1>9 DEF vars, directVars, resVars, ExpireIdem, ToggleEngine
<1> QED
  BY <1>1, <1>2, <1>3, <1>4, <1>5, <1>6, <1>7, <1>8, <1>9
  DEF DirectNext, Arrive, HandlerStep

(* A booking that is made anew has neither a handler nor a row.            *)
LEMMA HoldersStep ==
  ASSUME PmsDedupes = FALSE, StoreInv, DirectInv, DirectInv', CallsMatch, HoldersApart,
         [DirectNext]_vars
  PROVE  HoldersApart'
<1>1. SUFFICES ASSUME NEW v \in Workers, NEW w \in Workers, NEW b \in 1..MaxBookings,
                      Recording(v, b)', Recording(w, b)'
               PROVE  v = w
  BY DEF HoldersApart, Recording
<1>2. CASE b \in DOMAIN pms
  BY <1>1, <1>2, RecordingStays DEF HoldersApart
<1>3. CASE b \notin DOMAIN pms
  <2>1. ASSUME NEW u \in Workers, Recording(u, b)' PROVE b \in DOMAIN pms' /\ ~UNCHANGED pms
    <3>1. /\ req'[u].pc = "record" /\ req'[u].r.kind = "create" /\ req'[u].booking = b
          /\ HandlerSound(req[u])'
      BY <2>1 DEF Recording, DirectInv
    <3>2. b \in DOMAIN pms'
      BY <3>1 DEF HandlerSound, Made
    <3> QED
      BY <1>3, <3>2
  <2>2. PICK u \in Workers : PmsBooks(u)
    BY <1>1, <2>1
    DEF DirectNext, Arrive, HandlerStep, ArriveCreate, ArriveMirror, ArriveCancel,
        IdemGet, CallFails, RecordStay, StayRecorded, IdemPut, PmsCancels, ReleaseRow,
        RowReleased, Reply, ExpireIdem, ToggleEngine, ProcessRestart, vars, directVars
  <2>3. \A t \in Workers \ {u} : req'[t] = req[t]
    BY <2>2 DEF PmsBooks, End, DirectInv, DirectShape
  <2>4. ASSUME NEW t \in Workers, Recording(t, b)' PROVE t = u
    <3>1. CASE t # u
      <4>1. Recording(t, b)
        BY <2>3, <2>4, <3>1 DEF Recording
      <4>2. b \in DOMAIN pms
        BY <4>1, HandlerType DEF Recording, HandlerSound, Made
      <4> QED
        BY <1>3, <4>2
    <3> QED
      BY <3>1
  <2> QED
    BY <1>1, <2>4
<1> QED
  BY <1>2, <1>3

(* A row that was there is still a row of its stay.                        *)
LEMMA OldRowStays ==
  ASSUME PmsDedupes = FALSE, StoreInv, DirectInv, CallsMatch, [DirectNext]_vars,
         PmsGrow, RowsGrow, NEW f \in [DOMAIN rows -> Nat], StayRows(f),
         NEW i \in DOMAIN rows, NEW b \in 1..MaxBookings, rows'[i].ext = b
  PROVE  /\ b \in DOMAIN pms'
         /\ \A r \in Requests : r.kind = "create" /\ Made(r, b)' => f[i] < r.stays
         /\ \A j \in DOMAIN rows : (rows'[j].ext = b /\ f[j] = f[i]) => j = i
         /\ \A w \in Workers : Recording(w, b)' => Past(w, f[i])'
<1>1. rows[i].ext = b /\ \A j \in DOMAIN rows : rows'[j].ext = rows[j].ext
  BY DEF RowsGrow
<1>2. /\ b \in DOMAIN pms
      /\ \A r \in Requests : r.kind = "create" /\ Made(r, b) => f[i] < r.stays
      /\ \A j \in DOMAIN rows : (rows[j].ext = b /\ f[j] = f[i]) => j = i
      /\ \A w \in Workers : Recording(w, b) => Past(w, f[i])
  BY <1>1 DEF StayRows
<1>3. \A r \in Requests : Made(r, b)' => Made(r, b)
  BY <1>2 DEF Made, PmsGrow
<1>4. \A w \in Workers : Recording(w, b)' => Past(w, f[i])'
  <2>1. f[i] \in Nat
    OBVIOUS
  <2> QED
    BY <1>2, <2>1, RecordingStays
<1> QED
  BY <1>1, <1>2, <1>3, <1>4 DEF PmsGrow

(* A handler inserts the row of the stay it has come to, once.             *)
LEMMA NewRowStay ==
  ASSUME PmsDedupes = FALSE, MirrorsApart, PayloadsApart, StoreInv, DirectInv,
         CallsMatch, HoldersApart, NEW w \in Workers, SaveInserts(w),
         NEW b \in 1..MaxBookings, job[w].call.ext = b
  PROVE  /\ b \in DOMAIN pms
         /\ \A r \in Requests : r.kind = "create" /\ Made(r, b) => req[w].index < r.stays
         /\ Recording(w, b) /\ ~Past(w, req[w].index)
         /\ \A v \in Workers : Recording(v, b) => v = w
         /\ job'[w].pc \in {"mark", "done"}
<1>1. /\ req[w].pc = "record" /\ job[w].call = StayCall(w) /\ job[w].pc = "write"
  BY StayInserts DEF SaveInserts
<1>2. PICK q \in Requests : q = req[w].r
  BY <1>1, HandlerType
<1>3. /\ req[w].booking = b /\ req[w].index < q.stays /\ q.kind # "cancel"
      /\ q.kind = "mirror" => b = q.booking
      /\ q.kind = "create" => Made(q, b)
      /\ req[w].index \in Nat
  BY <1>1, <1>2, HandlerType DEF StayCall, HandlerSound, HandlerRecord
<1>4. q.kind = "create"
  BY <1>3, RequestType DEF MirrorsApart, Kinds
<1>5. Recording(w, b)
  BY <1>1, <1>2, <1>3, <1>4 DEF Recording
<1>6. ASSUME NEW r \in Requests, r.kind = "create", Made(r, b)
      PROVE  req[w].index < r.stays
  <2>1. Scope(q) = Scope(r) /\ q.hash = r.hash
    BY <1>3, <1>4, <1>6 DEF Made
  <2> QED
    BY <1>3, <1>4, <1>6, <2>1 DEF PayloadsApart
<1>7. ~Past(w, req[w].index)
  BY <1>1, <1>3 DEF Past
<1>8. job'[w].pc \in {"mark", "done"}
  BY <1>1 DEF SaveInserts, AfterSave, StayCall, Finish, StoreInv, TypeOK, JobRecord
<1> QED
  BY <1>3, <1>4, <1>5, <1>6, <1>7, <1>8 DEF Made, HoldersApart

LEMMA InsertedOnceStep ==
  ASSUME PmsDedupes = FALSE, MirrorsApart, PayloadsApart, StoreInv, DirectInv,
         DirectInv', CallsMatch, InsertedOnce, [DirectNext]_vars
  PROVE  InsertedOnce'
<1>1. PICK f \in [DOMAIN rows -> Nat] : StayRows(f)
  BY DEF InsertedOnce
<1>2. PmsGrow /\ RowsGrow
  BY DirectGrows
<1>3. HoldersApart'
  BY HoldersStep DEF InsertedOnce
<1>4. CASE DOMAIN rows' = DOMAIN rows
  <2>1. ASSUME NEW i \in DOMAIN rows', NEW b \in 1..MaxBookings, rows'[i].ext = b
        PROVE  /\ b \in DOMAIN pms'
               /\ \A r \in Requests : r.kind = "create" /\ Made(r, b)' => f[i] < r.stays
               /\ \A j \in DOMAIN rows : (rows'[j].ext = b /\ f[j] = f[i]) => j = i
               /\ \A w \in Workers : Recording(w, b)' => Past(w, f[i])'
    BY <1>1, <1>2, <1>4, <2>1, OldRowStays
  <2>2. StayRows(f)'
    BY <1>4, <2>1 DEF StayRows, Made, Scope, Recording, Past
  <2> QED
    BY <1>3, <1>4, <2>2 DEF InsertedOnce
<1>5. ASSUME NEW w \in Workers, ServiceStep(w), SaveInserts(w), UNCHANGED directVars,
             DOMAIN rows' = DOMAIN rows \cup {Len(rows) + 1},
             Len(rows) + 1 \notin DOMAIN rows,
             rows'[Len(rows) + 1].ext = job[w].call.ext
      PROVE  InsertedOnce'
  <2>1. PICK n, x : n = Len(rows) + 1 /\ x = req[w].index
    OBVIOUS
  <2>2. x \in Nat /\ UNCHANGED <<req, pms>>
    BY <1>5, <2>1, HandlerType DEF HandlerRecord, directVars
  <2>3. PICK g : g = [i \in DOMAIN rows' |-> IF i = n THEN x ELSE f[i]]
    OBVIOUS
  <2>4. /\ g \in [DOMAIN rows' -> Nat]
        /\ n \in DOMAIN rows' /\ g[n] = x /\ n \notin DOMAIN rows
        /\ \A i \in DOMAIN rows : i \in DOMAIN rows' /\ g[i] = f[i]
        /\ \A i \in DOMAIN rows' : i = n \/ i \in DOMAIN rows
    BY <1>1, <1>5, <2>1, <2>2, <2>3
  <2>5. ASSUME NEW b \in 1..MaxBookings, rows'[n].ext = b
        PROVE  /\ b \in DOMAIN pms'
               /\ \A r \in Requests : r.kind = "create" /\ Made(r, b)' => x < r.stays
               /\ \A j \in DOMAIN rows : rows'[j].ext = b => f[j] # x
               /\ \A v \in Workers : Recording(v, b)' => Past(v, x)'
    <3>1. job[w].call.ext = b
      BY <1>5, <2>1, <2>5
    <3>2. /\ b \in DOMAIN pms
          /\ \A r \in Requests : r.kind = "create" /\ Made(r, b) => x < r.stays
          /\ \A j \in DOMAIN rows : rows[j].ext = b => f[j] # x
          /\ \A v \in Workers : Recording(v, b) => v = w
          /\ Past(w, x)'
      <4>1. HoldersApart
        BY DEF InsertedOnce
      <4>2. /\ b \in DOMAIN pms
            /\ \A r \in Requests : r.kind = "create" /\ Made(r, b) => req[w].index < r.stays
            /\ Recording(w, b) /\ ~Past(w, req[w].index)
            /\ \A v \in Workers : Recording(v, b) => v = w
            /\ job'[w].pc \in {"mark", "done"}
        BY <1>5, <3>1, <4>1, NewRowStay
      <4>3. Past(w, x)'
        BY <2>1, <2>2, <4>2 DEF Past
      <4>4. ASSUME NEW j \in DOMAIN rows, rows[j].ext = b PROVE f[j] # x
        BY <1>1, <2>1, <4>2, <4>4 DEF StayRows
      <4> QED
        BY <2>1, <4>2, <4>3, <4>4
    <3>3. \A j \in DOMAIN rows : rows'[j].ext = rows[j].ext
      BY <1>2 DEF RowsGrow
    <3> QED
      BY <2>2, <3>2, <3>3 DEF Made, Recording
  <2>6. ASSUME NEW i \in DOMAIN rows', NEW b \in 1..MaxBookings, rows'[i].ext = b
        PROVE  /\ b \in DOMAIN pms'
               /\ \A r \in Requests : r.kind = "create" /\ Made(r, b)' => g[i] < r.stays
               /\ \A j \in DOMAIN rows' : (rows'[j].ext = b /\ g[j] = g[i]) => j = i
               /\ \A v \in Workers : Recording(v, b)' => Past(v, g[i])'
    <3>1. CASE i = n
      BY <2>4, <2>5, <2>6, <3>1
    <3>2. CASE i \in DOMAIN rows
      <4>1. /\ b \in DOMAIN pms'
            /\ \A r \in Requests : r.kind = "create" /\ Made(r, b)' => f[i] < r.stays
            /\ \A j \in DOMAIN rows : (rows'[j].ext = b /\ f[j] = f[i]) => j = i
            /\ \A v \in Workers : Recording(v, b)' => Past(v, f[i])'
        BY <1>1, <1>2, <2>6, <3>2, OldRowStays
      <4>2. g[i] = f[i]
        BY <2>4, <3>2
      <4>3. ASSUME NEW j \in DOMAIN rows', rows'[j].ext = b, g[j] = g[i] PROVE j = i
        <5>1. CASE j = n
          BY <2>4, <2>5, <2>6, <3>2, <4>2, <4>3, <5>1
        <5>2. CASE j \in DOMAIN rows
          BY <2>4, <4>1, <4>2, <4>3, <5>2
        <5> QED
          BY <2>4, <5>1, <5>2
      <4> QED
        BY <4>1, <4>2, <4>3
    <3> QED
      BY <2>4, <3>1, <3>2
  <2>7. StayRows(g)'
    BY <2>6 DEF StayRows, Made, Scope, Recording, Past
  <2> QED
    BY <1>3, <2>4, <2>7 DEF InsertedOnce
<1> QED
  BY <1>4, <1>5, DirectGrows

(* Rows of one booking that stand for different stays below n are at most  *)
(* n.                                                                      *)
LEMMA StaysBound ==
  ASSUME StoreInv, NEW b, NEW n \in Nat \ {0}, NEW f,
         \A i \in StoredStays(b) : f[i] \in 0..(n - 1),
         \A i, j \in StoredStays(b) : f[i] = f[j] => i = j
  PROVE  Cardinality(StoredStays(b)) <= n
<1>1. PICK S, T : S = StoredStays(b) /\ T = 0..(n - 1)
  OBVIOUS
<1>2. PICK g : g = [i \in S |-> f[i]]
  OBVIOUS
<1>3. g \in Injection(S, T)
  BY <1>1, <1>2 DEF Injection, IsInjective
<1>4. IsFiniteSet(T) /\ Cardinality(T) = n
  <2>1. 0 \in Int /\ n - 1 \in Int /\ ~(0 > n - 1)
    OBVIOUS
  <2>2. IsFiniteSet(0..(n - 1)) /\ Cardinality(0..(n - 1)) = (n - 1) - 0 + 1
    BY <2>1, FS_Interval
  <2> QED
    BY <1>1, <2>2
<1>5. Cardinality(S) <= Cardinality(T)
  BY <1>3, <1>4, FS_Injection
<1> QED
  BY <1>1, <1>4, <1>5

LEMMA InsertedOnceCounts ==
  ASSUME PmsDedupes = FALSE, StoreInv, DirectInv, InsertedOnce,
         NEW r \in Requests, r.kind = "create"
  PROVE  NoDuplicateOf(r)
<1>1. PICK f \in [DOMAIN rows -> Nat] : StayRows(f)
  BY DEF InsertedOnce
<1>2. ASSUME NEW b \in Own(r) PROVE Cardinality(StoredStays(b)) <= r.stays
  <2>1. Made(r, b) /\ b \in 1..MaxBookings
    BY <1>2, DirectAssumption DEF Own, Made, DirectInv, DirectShape, PmsSound
  <2>2. r.stays \in Nat \ {0}
    BY RequestType
  <2>3. ASSUME NEW i \in StoredStays(b)
        PROVE  /\ f[i] \in 0..(r.stays - 1)
               /\ \A j \in StoredStays(b) : f[i] = f[j] => i = j
    <3>1. i \in DOMAIN rows /\ rows[i].ext = b /\ f[i] \in Nat
      BY <1>1 DEF StoredStays
    <3>2. f[i] < r.stays /\ \A j \in DOMAIN rows : (rows[j].ext = b /\ f[j] = f[i]) => j = i
      BY <1>1, <2>1, <3>1 DEF StayRows
    <3> QED
      BY <2>2, <3>1, <3>2 DEF StoredStays
  <2> QED
    BY <2>2, <2>3, StaysBound
<1> QED
  BY <1>2 DEF NoDuplicateOf

LEMMA InsertedOnceAlways ==
  ASSUME PmsDedupes = FALSE, MirrorsApart, PayloadsApart
  PROVE  DirectSpec => []InsertedOnce
<1>1. DirectInit => InsertedOnce
  <2> SUFFICES ASSUME DirectInit PROVE InsertedOnce
    OBVIOUS
  <2>1. rows = <<>> /\ req = [w \in Workers |-> IdleReq]
    BY DEF DirectInit, ResInit
  <2>2. HoldersApart
    BY <2>1, IdleReqType DEF HoldersApart, Recording
  <2>3. PICK f : f = [i \in DOMAIN rows |-> 0]
    OBVIOUS
  <2>4. f \in [DOMAIN rows -> Nat] /\ StayRows(f)
    BY <2>1, <2>3 DEF StayRows
  <2> QED
    BY <2>2, <2>4 DEF InsertedOnce
<1>2. StoreInv /\ DirectInv /\ DirectInv' /\ CallsMatch /\ InsertedOnce /\ [DirectNext]_vars
        => InsertedOnce'
  BY InsertedOnceStep
<1> QED
  BY <1>1, <1>2, DirectStore, DirectInvariant, CallsAlwaysMatch, PTL DEF DirectSpec

(* A booking the storefront makes is recorded at most once per stay, by    *)
(* the one handler that made it, whatever requests overlap, are repeated,  *)
(* fail, expire or restart (createBooking, persistReservation), with a PMS *)
(* that books anew for each attempt.                                       *)
THEOREM CreatedStaysOnce ==
  ASSUME PmsDedupes = FALSE, MirrorsApart, PayloadsApart
  PROVE  DirectSpec => [](\A r \in Requests : r.kind = "create" => NoDuplicateOf(r))
<1>1. StoreInv /\ DirectInv /\ InsertedOnce
        => \A r \in Requests : r.kind = "create" => NoDuplicateOf(r)
  BY InsertedOnceCounts
<1> QED
  BY <1>1, InsertedOnceAlways, DirectStore, DirectInvariant, PTL

-----------------------------------------------------------------------------
(* One request is served at a time, to its end, by a process and a         *)
(* database that stay up.                                                  *)
Undisturbed == OneByOne /\ MaxRestarts = 0 /\ ~DbMayFail

(* Whoever mirrors a booking does so under the same key, for the same      *)
(* stays.                                                                  *)
MirrorsKeyed ==
  \A q, r \in Requests : (q.kind = "mirror" /\ r.kind = "mirror") =>
    /\ q.booking = r.booking => q.key = r.key /\ q.stays = r.stays
    /\ \A i \in 0..(r.stays - 1) : ReservationKey(r, i) # None

(* persist will not write under key k any more.                            *)
KeyTaken(k) ==
  k \in seenKeys \/ \E w \in Workers : job[w].pc = "mark" /\ job[w].call.key = k

(* A call that is about to write found its key unused, and it still is.    *)
KeysFresh ==
  \A w \in Workers :
    (job[w].pc \in {"lookup", "write"} /\ job[w].call.op # "cancel")
      => job[w].call.key \notin seenKeys

(* f[i] is the stay of a mirrored booking that row i records: its key is   *)
(* taken.                                                                  *)
MirrorRows(f) ==
  \A i \in DOMAIN rows, r \in Requests :
    (r.kind = "mirror" /\ rows[i].ext = r.booking) =>
      /\ f[i] < r.stays
      /\ KeyTaken(ReservationKey(r, f[i]))
      /\ \A j \in DOMAIN rows : (rows[j].ext = rows[i].ext /\ f[j] = f[i]) => j = i
MirroredOnce ==
  KeysFresh /\ \E f \in [DOMAIN rows -> Nat] : MirrorRows(f)

LEMMA SeenGrows ==
  ASSUME NEW w \in Workers, ServiceStep(w)
  PROVE  /\ seenKeys \subseteq seenKeys'
         /\ job[w].pc # "mark" => UNCHANGED seenKeys
         /\ job[w].pc = "mark" => seenKeys' = seenKeys \cup ({job[w].call.key} \ {None})
BY DEF ServiceStep, CheckKey, CancelRead, SaveLookup, SaveUpdates, SaveInserts,
       SaveFails, MarkSeen, Publish, CancelReread

(* What a step of the only handler does to its call and to the keys.       *)
LEMMA CallMoves ==
  ASSUME Undisturbed, StoreInv, DirectInv, [DirectNext]_vars, NEW w \in Workers
  PROVE  \/ UNCHANGED <<job, seenKeys>>
         \/ job'[w].pc \notin {"lookup", "write"} /\ job[w].pc # "mark" /\ UNCHANGED seenKeys
         \/ ServiceStep(w) /\ \E j \in JobRecord : job'[w] = j /\ Follows(w, job[w], j)
<1>1. job \in [Workers -> JobRecord] /\ restarts \in Nat
  BY DEF StoreInv, TypeOK
<1>2. \A v \in Workers : v = w
  BY DEF Undisturbed, OneByOne
<1>3. CASE ServiceStep(w)
  <2>1. PICK j \in JobRecord : job' = [job EXCEPT ![w] = j] /\ Follows(w, job[w], j)
    BY <1>3, CallFollows
  <2> QED
    BY <1>1, <1>3, <2>1
<1>4. CASE Return(w)
  BY <1>1, <1>4, JobPhase DEF Return
<1>5. CASE RecordStay(w) \/ ReleaseRow(w)
  <2>1. CASE StartPersist(w, StayCall(w))
    <3>1. PICK c : c = StayCall(w)
      OBVIOUS
    <3>2. job'[w].pc = "check"
      BY <1>1, <2>1, <3>1 DEF StartPersist, IdleJob
    <3> QED
      BY <2>1, <3>2 DEF StartPersist
  <2>2. CASE StartCancel(w, req[w].row)
    <3>1. job'[w].pc = "read"
      BY <1>1, <2>2 DEF StartCancel, IdleJob
    <3> QED
      BY <2>2, <3>1 DEF StartCancel
  <2> QED
    BY <1>5, <2>1, <2>2 DEF RecordStay, ReleaseRow
<1>6. ~ProcessRestart
  BY <1>1 DEF ProcessRestart, Restart, Undisturbed
<1>7. \/ UNCHANGED <<job, seenKeys>>
      \/ ServiceStep(w) \/ Return(w) \/ RecordStay(w) \/ ReleaseRow(w)
  BY <1>2, <1>6
  DEF DirectNext, Arrive, HandlerStep, ArriveCreate, ArriveMirror, ArriveCancel,
      IdemGet, CallFails, PmsBooks, StayRecorded, IdemPut, PmsCancels, RowReleased,
      Reply, ExpireIdem, ToggleEngine, vars, resVars
<1> QED
  BY <1>3, <1>4, <1>5, <1>7

(* A key that is taken stays taken.                                        *)
LEMMA TakenStays ==
  ASSUME Undisturbed, StoreInv, DirectInv, [DirectNext]_vars, NEW k, k # None,
         KeyTaken(k)
  PROVE  KeyTaken(k)'
<1>1. CASE UNCHANGED <<job, seenKeys>>
  BY <1>1 DEF KeyTaken
<1>2. CASE k \in seenKeys
  <2>1. k \in seenKeys'
    <3>1. \A w \in Workers : UNCHANGED seenKeys \/ ServiceStep(w)
      BY CallMoves
    <3>2. CASE \E w \in Workers : ServiceStep(w)
      BY <1>2, <3>2, SeenGrows
    <3>3. CASE Workers = {}
      BY <1>2, <3>3
      DEF DirectNext, Arrive, HandlerStep, ExpireIdem, ToggleEngine, ProcessRestart,
          Restart, Undisturbed, StoreInv, TypeOK, vars, resVars
    <3> QED
      BY <1>2, <3>1, <3>2, <3>3
  <2> QED
    BY <2>1 DEF KeyTaken
<1>3. ASSUME NEW w \in Workers, job[w].pc = "mark", job[w].call.key = k
      PROVE  KeyTaken(k)'
  <2>1. CASE ServiceStep(w)
    <3>1. k \in seenKeys'
      BY <1>3, <2>1, SeenGrows
    <3> QED
      BY <3>1 DEF KeyTaken
  <2> QED
    BY <1>1, <1>3, <2>1, CallMoves
<1> QED
  BY <1>2, <1>3 DEF KeyTaken

LEMMA FreshStays ==
  ASSUME Undisturbed, StoreInv, DirectInv, KeysFresh, [DirectNext]_vars
  PROVE  KeysFresh'
<1> SUFFICES ASSUME NEW w \in Workers, job'[w].pc \in {"lookup", "write"},
                    job'[w].call.op # "cancel"
             PROVE  job'[w].call.key \notin seenKeys'
  BY DEF KeysFresh
<1>1. CASE UNCHANGED <<job, seenKeys>>
  BY <1>1 DEF KeysFresh
<1>2. ASSUME NEW j \in JobRecord, ServiceStep(w), job'[w] = j, Follows(w, job[w], j)
      PROVE  job'[w].call.key \notin seenKeys'
  <2>1. /\ job[w].pc \in {"check", "read", "lookup"}
        /\ job[w].call.op # "cancel" /\ j.call.key = job[w].call.key
    BY <1>2 DEF Follows
  <2>2. UNCHANGED seenKeys
    BY <1>2, <2>1, SeenGrows
  <2>3. job[w].call.key \notin seenKeys
    <3>1. CASE job[w].pc = "lookup"
      BY <2>1, <3>1 DEF KeysFresh
    <3>2. CASE job[w].pc = "check"
      BY <1>2, <3>2, ReservationAssumption DEF Follows, StoreInv, TypeOK
    <3>3. job[w].pc # "read"
      BY <2>1, JobType DEF JobSound
    <3> QED
      BY <2>1, <3>1, <3>2, <3>3
  <2> QED
    BY <1>2, <2>1, <2>2, <2>3
<1> QED
  BY <1>1, <1>2, CallMoves

(* The only handler inserts the row of a mirrored booking only when no row *)
(* records that stay, and then has its key.                                *)
LEMMA MirrorInserts ==
  ASSUME Undisturbed, MirrorsApart, MirrorsKeyed, StoreInv, DirectInv, CallsMatch,
         KeysFresh, NEW f \in [DOMAIN rows -> Nat], MirrorRows(f),
         NEW w \in Workers, SaveInserts(w),
         NEW r \in Requests, r.kind = "mirror", job[w].call.ext = r.booking
  PROVE  /\ req[w].index < r.stays
         /\ \A k : k = ReservationKey(r, req[w].index) => k # None /\ KeyTaken(k)'
         /\ \A i \in DOMAIN rows : rows[i].ext = r.booking => f[i] # req[w].index
<1>1. /\ req[w].pc = "record" /\ job[w].call = StayCall(w) /\ job[w].pc = "write"
      /\ job[w].call.op # "cancel"
  BY StayInserts DEF SaveInserts
<1>2. PICK q \in Requests : q = req[w].r
  BY <1>1, HandlerType
<1>3. /\ req[w].booking = r.booking /\ req[w].index < q.stays /\ q.kind # "cancel"
      /\ q.kind = "mirror" => r.booking = q.booking
      /\ q.kind = "create" => Made(q, r.booking)
      /\ req[w].index \in Nat
  BY <1>1, <1>2, HandlerType DEF StayCall, HandlerSound, HandlerRecord
<1>4. q.kind = "mirror"
  <2>1. ~Made(q, r.booking)
    <3>1. r.booking \notin 1..MaxBookings
      BY DEF MirrorsApart
    <3>2. pms \in Seq(PmsBooking) /\ Len(pms) <= MaxBookings /\ MaxBookings \in Nat
      BY DirectAssumption DEF DirectInv, DirectShape, PmsSound
    <3>3. DOMAIN pms \subseteq 1..MaxBookings
      BY <3>2
    <3> QED
      BY <3>1, <3>3 DEF Made
  <2> QED
    BY <1>2, <1>3, <2>1, RequestType DEF Kinds
<1>5. q.key = r.key /\ q.stays = r.stays /\ r.stays \in Nat \ {0}
  BY <1>3, <1>4, RequestType DEF MirrorsKeyed
<1>6. PICK k : k = ReservationKey(r, req[w].index)
  OBVIOUS
<1>7. job[w].call.key = k
  BY <1>1, <1>2, <1>5, <1>6 DEF StayCall, ReservationKey
<1>8. ~KeyTaken(k)
  <2>1. k \notin seenKeys
    BY <1>1, <1>7 DEF KeysFresh
  <2>2. \A v \in Workers : job[v].pc # "mark"
    BY <1>1 DEF Undisturbed, OneByOne
  <2> QED
    BY <2>1, <2>2 DEF KeyTaken
<1>9. KeyTaken(k)'
  <2>1. job' = [job EXCEPT ![w].pc = "mark", ![w].returned = Len(rows) + 1]
    BY <1>1 DEF SaveInserts, AfterSave, Undisturbed
  <2>2. job'[w].pc = "mark" /\ job'[w].call = job[w].call
    BY <2>1 DEF StoreInv, TypeOK, JobRecord
  <2> QED
    BY <1>7, <2>2 DEF KeyTaken
<1>10. ASSUME NEW i \in DOMAIN rows, rows[i].ext = r.booking, f[i] = req[w].index
       PROVE  FALSE
  BY <1>6, <1>8, <1>10 DEF MirrorRows
<1>11. k # None
  BY <1>3, <1>5, <1>6 DEF MirrorsKeyed
<1> QED
  BY <1>3, <1>5, <1>6, <1>9, <1>10, <1>11

LEMMA MirroredOnceStep ==
  ASSUME Undisturbed, MirrorsApart, MirrorsKeyed, StoreInv, DirectInv, CallsMatch,
         MirroredOnce, [DirectNext]_vars
  PROVE  MirroredOnce'
<1>1. PICK f \in [DOMAIN rows -> Nat] : MirrorRows(f)
  BY DEF MirroredOnce
<1>2. KeysFresh /\ KeysFresh'
  BY FreshStays DEF MirroredOnce
<1>3. RowsGrow
  BY DirectGrows
<1>4. ASSUME NEW i \in DOMAIN rows, NEW r \in Requests, r.kind = "mirror",
             rows'[i].ext = r.booking
      PROVE  /\ f[i] < r.stays
             /\ KeyTaken(ReservationKey(r, f[i]))'
             /\ \A j \in DOMAIN rows : (rows'[j].ext = r.booking /\ f[j] = f[i]) => j = i
  <2>1. rows[i].ext = r.booking /\ \A j \in DOMAIN rows : rows'[j].ext = rows[j].ext
    BY <1>3, <1>4 DEF RowsGrow
  <2>2. PICK k : k = ReservationKey(r, f[i])
    OBVIOUS
  <2>3. /\ f[i] < r.stays /\ KeyTaken(k)
        /\ \A j \in DOMAIN rows : (rows[j].ext = r.booking /\ f[j] = f[i]) => j = i
    BY <1>1, <1>4, <2>1, <2>2 DEF MirrorRows
  <2>4. k # None
    <3>1. f[i] \in 0..(r.stays - 1)
      BY <1>1, <2>3, RequestType
    <3> QED
      BY <1>4, <2>2, <3>1 DEF MirrorsKeyed
  <2>5. KeyTaken(k)'
    BY <2>3, <2>4, TakenStays
  <2> QED
    BY <2>1, <2>2, <2>3, <2>5 DEF KeyTaken, ReservationKey
<1>5. CASE DOMAIN rows' = DOMAIN rows
  <2>1. MirrorRows(f)'
    BY <1>4, <1>5 DEF MirrorRows, KeyTaken, ReservationKey
  <2> QED
    BY <1>2, <1>5, <2>1 DEF MirroredOnce
<1>6. ASSUME NEW w \in Workers, SaveInserts(w), UNCHANGED directVars,
             DOMAIN rows' = DOMAIN rows \cup {Len(rows) + 1},
             Len(rows) + 1 \notin DOMAIN rows,
             rows'[Len(rows) + 1].ext = job[w].call.ext
      PROVE  MirroredOnce'
  <2>1. PICK n, x : n = Len(rows) + 1 /\ x = req[w].index
    OBVIOUS
  <2>2. x \in Nat
    BY <2>1, HandlerType DEF HandlerRecord
  <2>3. PICK g : g = [i \in DOMAIN rows' |-> IF i = n THEN x ELSE f[i]]
    OBVIOUS
  <2>4. /\ g \in [DOMAIN rows' -> Nat]
        /\ n \in DOMAIN rows' /\ g[n] = x /\ n \notin DOMAIN rows
        /\ \A i \in DOMAIN rows : i \in DOMAIN rows' /\ g[i] = f[i]
        /\ \A i \in DOMAIN rows' : i = n \/ i \in DOMAIN rows
    BY <1>1, <1>6, <2>1, <2>2, <2>3
  <2>5. ASSUME NEW r \in Requests, r.kind = "mirror", rows'[n].ext = r.booking
        PROVE  /\ x < r.stays
               /\ KeyTaken(ReservationKey(r, x))'
               /\ \A j \in DOMAIN rows : rows'[j].ext = r.booking => f[j] # x
    <3>1. job[w].call.ext = r.booking
      BY <1>6, <2>1, <2>5
    <3>2. PICK k : k = ReservationKey(r, x)
      OBVIOUS
    <3>3. /\ req[w].index < r.stays
          /\ \A y : y = ReservationKey(r, req[w].index) => y # None /\ KeyTaken(y)'
          /\ \A i \in DOMAIN rows : rows[i].ext = r.booking => f[i] # req[w].index
      BY <1>1, <1>2, <1>6, <2>5, <3>1, MirrorInserts
    <3>4. KeyTaken(k)'
      BY <2>1, <3>2, <3>3
    <3> QED
      BY <1>3, <2>1, <3>2, <3>3, <3>4 DEF RowsGrow, KeyTaken, ReservationKey
  <2>6. ASSUME NEW i \in DOMAIN rows', NEW r \in Requests, r.kind = "mirror",
               rows'[i].ext = r.booking
        PROVE  /\ g[i] < r.stays
               /\ KeyTaken(ReservationKey(r, g[i]))'
               /\ \A j \in DOMAIN rows' : (rows'[j].ext = r.booking /\ g[j] = g[i]) => j = i
    <3>1. CASE i = n
      BY <2>4, <2>5, <2>6, <3>1
    <3>2. CASE i \in DOMAIN rows
      <4>1. /\ f[i] < r.stays
            /\ KeyTaken(ReservationKey(r, f[i]))'
            /\ \A j \in DOMAIN rows : (rows'[j].ext = r.booking /\ f[j] = f[i]) => j = i
        BY <1>4, <2>6, <3>2
      <4>2. g[i] = f[i]
        BY <2>4, <3>2
      <4>3. ASSUME NEW j \in DOMAIN rows', rows'[j].ext = r.booking, g[j] = g[i]
            PROVE  j = i
        <5>1. CASE j = n
          BY <2>4, <2>5, <2>6, <3>2, <4>2, <4>3, <5>1
        <5>2. CASE j \in DOMAIN rows
          BY <2>4, <4>1, <4>2, <4>3, <5>2
        <5> QED
          BY <2>4, <5>1, <5>2
      <4> QED
        BY <4>1, <4>2, <4>3
    <3> QED
      BY <2>4, <3>1, <3>2
  <2>7. MirrorRows(g)'
    BY <2>6 DEF MirrorRows, KeyTaken, ReservationKey
  <2> QED
    BY <1>2, <2>4, <2>7 DEF MirroredOnce
<1> QED
  BY <1>5, <1>6, DirectGrows

LEMMA MirroredOnceCounts ==
  ASSUME StoreInv, MirroredOnce, NEW r \in Requests, r.kind # "create"
  PROVE  NoDuplicateOf(r)
<1>1. PICK f \in [DOMAIN rows -> Nat] : MirrorRows(f)
  BY DEF MirroredOnce
<1>2. ASSUME NEW b \in Own(r) PROVE Cardinality(StoredStays(b)) <= r.stays
  <2>1. b = r.booking /\ r.kind = "mirror"
    BY <1>2 DEF Own
  <2>2. r.stays \in Nat \ {0}
    BY RequestType
  <2>3. ASSUME NEW i \in StoredStays(b)
        PROVE  /\ f[i] \in 0..(r.stays - 1)
               /\ \A j \in StoredStays(b) : f[i] = f[j] => i = j
    <3>1. i \in DOMAIN rows /\ rows[i].ext = b /\ f[i] \in Nat
      BY <1>1 DEF StoredStays
    <3>2. f[i] < r.stays /\ \A j \in DOMAIN rows : (rows[j].ext = b /\ f[j] = f[i]) => j = i
      BY <1>1, <2>1, <3>1 DEF MirrorRows
    <3> QED
      BY <2>2, <3>1, <3>2 DEF StoredStays
  <2> QED
    BY <2>2, <2>3, StaysBound
<1> QED
  BY <1>2 DEF NoDuplicateOf

(* A booking has one row per stay, however often its request is repeated:  *)
(* the key in the process's memory does it for a mirrored booking, when    *)
(* requests come one at a time and nothing stops between the INSERT and    *)
(* the key (persist); the booking made anew does it for the others.        *)
THEOREM NoDuplicates ==
  ASSUME PmsDedupes = FALSE, MirrorsApart, PayloadsApart, Undisturbed, MirrorsKeyed
  PROVE  DirectSpec => []NoDuplicateRow
<1>1. DirectInit => MirroredOnce
  <2> SUFFICES ASSUME DirectInit PROVE MirroredOnce
    OBVIOUS
  <2>1. rows = <<>> /\ job = [w \in Workers |-> IdleJob]
    BY DEF DirectInit, ResInit
  <2>2. KeysFresh
    BY <2>1, JobPhase DEF KeysFresh
  <2>3. PICK f : f = [i \in DOMAIN rows |-> 0]
    OBVIOUS
  <2>4. f \in [DOMAIN rows -> Nat] /\ MirrorRows(f)
    BY <2>1, <2>3 DEF MirrorRows
  <2> QED
    BY <2>2, <2>4 DEF MirroredOnce
<1>2. StoreInv /\ DirectInv /\ CallsMatch /\ MirroredOnce /\ [DirectNext]_vars
        => MirroredOnce'
  BY MirroredOnceStep
<1>3. StoreInv /\ DirectInv /\ InsertedOnce /\ MirroredOnce => NoDuplicateRow
  BY InsertedOnceCounts, MirroredOnceCounts DEF NoDuplicateRow
<1> QED
  BY <1>1, <1>2, <1>3, InsertedOnceAlways, DirectStore, DirectInvariant,
     CallsAlwaysMatch, PTL DEF DirectSpec
=============================================================================
