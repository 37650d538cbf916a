------------------------------ MODULE OtaFetch ------------------------------
(***************************************************************************)
(* Pulling bookings from the sales channels: the integration service's     *)
(* fetch_channel_reservations over the channel service and the canonical   *)
(* reservation store (module Reservations).                                *)
(*                                                                         *)
(* A channel of Connections keeps its own bookings, which guests make and  *)
(* cancel at any time.  A fetch copies the list of active channels, pulls  *)
(* each one in turn and ingests what it pulled, one booking after the      *)
(* other, while other fetches, guests and operators go on.                 *)
(***************************************************************************)
EXTENDS Reservations

CONSTANTS
  FetchKeys,     (* idempotency_key values of requests; Blank is one       *)
  NumbersOf,     (* NumbersOf[c]: the confirmation numbers channel c uses  *)
  Blank,         (* the key of a request that sends none                   *)
  ChannelMayFail,(* a pull may fail                                        *)
  MaxFetches     (* bound: fetch requests                                  *)

ASSUME FetchAssumption ==
  /\ Blank \in FetchKeys
  /\ NumbersOf \in [Connections -> SUBSET Externals]
  /\ ChannelMayFail \in BOOLEAN
  /\ MaxFetches \in Nat

VARIABLES
  ota,       (* ota[c][e]: channel c's booking e                           *)
  active,    (* active[c]: channel c is active, not paused                 *)
  fetch,     (* fetch[w]: the fetch worker w runs                          *)
  fetches,   (* fetch requests so far (bound)                              *)
  used       (* history: the keys sent to this process so far              *)

fetchVars == <<ota, active, fetch, fetches, used>>
vars == <<resVars, fetchVars>>

-----------------------------------------------------------------------------
Pulled == [conn : Connections, ext : Externals, status : Statuses]
FetchPhases == {"idle", "pull", "ingest", "done"}

(* todo: the channels still to pull; queue: the bookings still to ingest;  *)
(* current: the one being ingested; seen: all this fetch was given; and,   *)
(* history, alone: no other fetch overlaps it, fresh: none sent its key    *)
(* before.                                                                 *)
FetchRecord ==
  [pc : FetchPhases, key : FetchKeys, todo : SUBSET Connections,
   queue : SUBSET Pulled, current : Pulled \cup {None}, seen : SUBSET Pulled,
   alone : BOOLEAN, fresh : BOOLEAN]

IdleFetch == [pc |-> "idle", key |-> Blank, todo |-> {}, queue |-> {},
              current |-> None, seen |-> {}, alone |-> FALSE, fresh |-> FALSE]

(* Mutant: all the bookings of a request share its key.                    *)
IngestKeyOfRequest(key, b) == <<key, CHOOSE e \in Externals : TRUE>>

(* Mutant: the request's key is left out.                                  *)
IngestKeyOfBooking(key, b) == <<Blank, b.ext>>

(* The key of an ingest: the request's key, ":", the confirmation number.  *)
IngestKey(key, b) == <<key, b.ext>>

(* The persist calls a fetch can make.                                     *)
IngestCalls ==
  {[op |-> "ingest", conn |-> b.conn, ext |-> b.ext, status |-> b.status,
    key |-> IngestKey(k, b)]
     : b \in {x \in Pulled : x.ext \in NumbersOf[x.conn]}, k \in FetchKeys}

ASSUME IngestAssumption == IngestCalls \subseteq Calls /\ None \notin Pulled

FetchInit ==
  /\ ResInit
  /\ ota = [c \in Connections |-> [e \in Externals |-> "none"]]
  /\ active = [c \in Connections |-> TRUE]
  /\ fetch = [w \in Workers |-> IdleFetch]
  /\ fetches = 0
  /\ used = {}

(* A guest books at a channel, or cancels there.                           *)
GuestActs(c, e) ==
  /\ e \in NumbersOf[c]
  /\ ota[c][e] # "cancelled"
  /\ ota' = [ota EXCEPT ![c][e] =
               IF @ = "none" THEN "confirmed" ELSE "cancelled"]
  /\ UNCHANGED <<resVars, active, fetch, fetches, used>>

(* pause_channel and resume_channel.                                       *)
SetChannelState(c) ==
  /\ active' = [active EXCEPT ![c] = ~@]
  /\ UNCHANGED <<resVars, ota, fetch, fetches, used>>

(* A request arrives; ListChannels is read once, paused channels skipped.  *)
StartFetch(w, key) ==
  /\ fetch[w].pc = "idle"
  /\ fetches < MaxFetches
  /\ fetch' = [v \in Workers |->
       IF v = w
       THEN [IdleFetch EXCEPT
               !.pc = "pull", !.key = key,
               !.todo = {c \in Connections : active[c]},
               !.alone = \A u \in Workers : fetch[u].pc = "idle",
               !.fresh = key \notin used]
       ELSE [fetch[v] EXCEPT !.alone = FALSE]]
  /\ fetches' = fetches + 1
  /\ used' = used \cup {key}
  /\ UNCHANGED <<resVars, ota, active>>

(* Mutant: a pull keeps every revision of a booking, not only the last.    *)
RevisionsAt(c) ==
  {[conn |-> c, ext |-> e, status |-> st]
     : e \in {x \in Externals : ota[c][x] # "none"}, st \in Statuses}
    \ {[conn |-> c, ext |-> e, status |-> "cancelled"]
         : e \in {x \in Externals : ota[c][x] = "confirmed"}}

(* What a channel answers: its bookings as they are now.                   *)
BookingsAt(c) ==
  {[conn |-> c, ext |-> e, status |-> ota[c][e]]
     : e \in {x \in Externals : ota[c][x] # "none"}}

(* FetchReservations of the next channel; a failing channel is reported in *)
(* fetch_errors and the fetch goes on with the others.                     *)
PullChannel(w) ==
  /\ fetch[w].pc = "pull"
  /\ \E c \in fetch[w].todo :
       \/ fetch' = [fetch EXCEPT ![w].pc = "ingest", ![w].todo = @ \ {c},
                                 ![w].queue = BookingsAt(c),
                                 ![w].seen = @ \cup BookingsAt(c)]
       \/ /\ ChannelMayFail
          /\ fetch' = [fetch EXCEPT ![w].todo = @ \ {c}]
  /\ UNCHANGED <<resVars, ota, active, fetches, used>>

FinishFetch(w) ==
  /\ fetch[w].pc = "pull" /\ fetch[w].todo = {}
  /\ fetch' = [fetch EXCEPT ![w].pc = "done"]
  /\ UNCHANGED <<resVars, ota, active, fetches, used>>

(* Mutant: every booking is filed under the first channel of the list.     *)
IngestNextAtFirst(w) ==
  /\ fetch[w].pc = "ingest" /\ fetch[w].current = None
  /\ \E b \in fetch[w].queue :
       /\ StartPersist(w, [op |-> "ingest",
                           conn |-> CHOOSE c \in Connections : TRUE,
                           ext |-> b.ext, status |-> b.status,
                           key |-> IngestKey(fetch[w].key, b)])
       /\ fetch' = [fetch EXCEPT ![w].current = b, ![w].queue = @ \ {b}]
  /\ UNCHANGED <<ota, active, fetches, used>>

(* IngestReservation for the next pulled booking.                          *)
IngestNext(w) ==
  /\ fetch[w].pc = "ingest" /\ fetch[w].current = None
  /\ \E b \in fetch[w].queue :
       /\ StartPersist(w, [op |-> "ingest", conn |-> b.conn, ext |-> b.ext,
                           status |-> b.status,
                           key |-> IngestKey(fetch[w].key, b)])
       /\ fetch' = [fetch EXCEPT ![w].current = b, ![w].queue = @ \ {b}]
  /\ UNCHANGED <<ota, active, fetches, used>>

(* It returns: an error is logged and the loop goes on.                    *)
IngestReturns(w) ==
  /\ fetch[w].pc = "ingest" /\ job[w].pc = "done"
  /\ fetch' = [fetch EXCEPT ![w].current = None]
  /\ Return(w)
  /\ UNCHANGED <<ota, active, fetches, used>>

(* The channel's bookings are ingested: on to the next channel.            *)
NextChannel(w) ==
  /\ fetch[w].pc = "ingest"
  /\ fetch[w].current = None /\ fetch[w].queue = {}
  /\ fetch' = [fetch EXCEPT ![w].pc = "pull"]
  /\ UNCHANGED <<resVars, ota, active, fetches, used>>

(* The answer has left.                                                    *)
EndFetch(w) ==
  /\ fetch[w].pc = "done"
  /\ fetch' = [fetch EXCEPT ![w] = IdleFetch]
  /\ UNCHANGED <<resVars, ota, active, fetches, used>>

FetchRestart ==
  /\ Restart
  /\ fetch' = [w \in Workers |-> IdleFetch]
  /\ used' = {}
  /\ UNCHANGED <<ota, active, fetches>>

FetchStep(w) ==
  \/ PullChannel(w)
  \/ IngestNext(w)
  \/ ServiceStep(w) /\ UNCHANGED fetchVars
  \/ IngestReturns(w)
  \/ NextChannel(w)
  \/ FinishFetch(w)
  \/ EndFetch(w)

FetchNext ==
  \/ \E c \in Connections, e \in Externals : GuestActs(c, e)
  \/ \E c \in Connections : SetChannelState(c)
  \/ \E w \in Workers, k \in FetchKeys : StartFetch(w, k)
  \/ \E w \in Workers : FetchStep(w)
  \/ FetchRestart

FetchSpec == FetchInit /\ [][FetchNext]_vars

-----------------------------------------------------------------------------
(* Properties.                                                             *)

(* Fetches have the shape fetchChannelReservations gives them, and a       *)
(* worker calls the store only while it ingests a booking.                 *)
FetchTypeOK ==
  /\ ota \in [Connections -> [Externals -> Statuses \cup {"none"}]]
  /\ active \in [Connections -> BOOLEAN]
  /\ fetch \in [Workers -> FetchRecord]
  /\ \A w \in Workers : job[w].pc # "idle" <=> fetch[w].current # None
  /\ used \subseteq FetchKeys

(* The store never claims more than the channels said: a stored booking    *)
(* exists at its own channel, and a cancelled one is cancelled there.      *)
StoreFollowsChannels ==
  \A i \in DOMAIN rows :
    LET there == ota[rows[i].conn][rows[i].ext] IN
      /\ there # "none"
      /\ rows[i].status = "cancelled" => there = "cancelled"

Finished(w) == fetch[w].pc = "done"

(* What a finished fetch was given is stored ("Pull from OTAs -> persist"  *)
(* of fetch_channel_reservations), also while other fetches run.           *)
FetchStores ==
  \A w \in Workers : Finished(w) =>
    \A b \in fetch[w].seen : Stored(b.conn, b.ext)

(* The store shows every booking a fetch was given as the channel gave it. *)
UpToDate(w) ==
  \A b \in fetch[w].seen :
    \E i \in External(b.conn, b.ext) : rows[i].status = b.status

(* A fetch that overlaps no other and has a key of its own brings the      *)
(* store up to date, cancellations and repeated pulls included.            *)
LoneFetchBringsUpToDate ==
  \A w \in Workers :
    (Finished(w) /\ fetch[w].alone /\ fetch[w].fresh) => UpToDate(w)

(* A cancellation the store has taken over is not lost: only a fetch that  *)
(* overlaps another, and so may have pulled before the other one stored    *)
(* the cancellation, can put a cancelled row back to confirmed.            *)
CancelledStays ==
  [][\A i \in DOMAIN rows :
       (rows[i].status = "cancelled" /\ rows'[i].status # "cancelled")
         => \E w \in Workers : /\ job[w].pc = "write" /\ job[w].found = i
                              /\ ~fetch[w].alone]_vars
=============================================================================
