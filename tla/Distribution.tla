---------------------------- MODULE Distribution ----------------------------
(***************************************************************************)
(* push_availability and push_rates for one property: the inventory and    *)
(* the rates of the Channel Manager on their way to the OTAs.              *)
(*                                                                         *)
(* A push reads the inventory (or saves the rates), lists the channels of  *)
(* the property and dispatches to one active channel after the other.  A   *)
(* dispatch opens a sync job, calls the OTA and closes the job, whatever   *)
(* changed since the list was read: this module composes the pushes with   *)
(* the writers of Inventory and the admins of Channels, and an OTA may     *)
(* refuse a call, lose its answer, or take it later than it was sent.      *)
(***************************************************************************)
EXTENDS Inventory, Channels

CONSTANTS
  Pushes,    (* push requests (bound: each runs once)                      *)
  Rooms,     (* room types with rates, on one stay date                    *)
  RoomsOf,   (* RoomsOf[p]: the room types in push p's well-formed rates   *)
  Prop,      (* the property                                               *)
  Capable,   (* connections whose provider's adapter can push              *)
  MaxLate    (* calls without an answer still under way at a time (bound)  *)

ASSUME DistributionAssumption ==
  /\ RoomsOf \in [Pushes -> SUBSET Rooms]
  /\ Prop \in Props /\ Capable \subseteq Conns
  /\ NoId \notin Pushes /\ MaxLate \in Nat
  /\ Opening # NoBatch

VARIABLES
  ratePoint, (* the rate point of the plan BAR: who wrote it               *)
  push,      (* push[p]: the request p                                     *)
  jobs,      (* rows of channel.sync_jobs                                  *)
  wire,      (* calls whose answer was lost and that the OTA may yet take  *)
  ota,       (* ota[c]: what the OTA behind connection c shows             *)
  past,      (* history: the updates of every state the inventory was in   *)
  saved,     (* history: pushes whose rates were committed                 *)
  taken,     (* history: pairs of push and connection the OTA took         *)
  alone      (* history: availability pushes that nothing overlapped yet   *)

distVars == <<ratePoint, push, jobs, wire, ota, past, saved, taken, alone>>
vars == <<invVars, chVars, distVars>>

-----------------------------------------------------------------------------
(* What a channel is told of a day: the row without its version.           *)
Updates == [Days -> [available : Batches \cup {NoBatch},
                     limits : Batches \cup {NoBatch}]]

InventoryToChannelUpdates(days) ==
  [d \in Days |-> [available |-> days[d].available, limits |-> days[d].limits]]

(* at: the channel being dispatched to, or NoId.  opened: history, the     *)
(* connections that had an active channel at some time of the push.        *)
PushState ==
  [pc : {"idle", "save", "list", "next", "call", "close", "done", "gone"},
   kind : {"availability", "rates"}, data : Updates,
   todo : SUBSET Channel, at : Channel \cup {NoId}, good : BOOLEAN,
   failed : Nat, opened : SUBSET Conns]

Job == [push : Pushes, chan : Chans, conn : Conns,
        type : {"inventory_push", "pricing_push"},
        status : {"running", "succeeded", "failed"}]

OtaState == [availability : Updates,
             rates : [Rooms -> Pushes \cup {NoId}]]

(* Days of which nothing is known.                                         *)
Unsold ==
  [d \in Days |-> [available |-> NoBatch, limits |-> NoBatch]]

ActiveConns(rows) ==
  {r.conn : r \in {x \in rows : x.prop = Prop /\ x.status = "active"}}

InProgress(p) == push[p].pc \notin {"idle", "done", "gone"}

DistInit ==
  /\ InvInit /\ ChInit
  /\ ratePoint = NoId
  /\ push = [p \in Pushes |->
       [pc |-> "idle", kind |-> "rates", data |-> Unsold, todo |-> {},
        at |-> NoId, good |-> FALSE, failed |-> 0, opened |-> {}]]
  /\ jobs = {}
  /\ wire = {}
  /\ ota = [c \in Conns |-> [availability |-> Unsold,
                             rates |-> [r \in Rooms |-> NoId]]]
  /\ past = {InventoryToChannelUpdates(inventory)}
  /\ saved = {}
  /\ taken = {}
  /\ alone = {}

Others(p) == {q \in Pushes \ {p} :
  push[q].kind = "availability" /\ (InProgress(q) \/ \E c \in Conns : <<q, c>> \in wire)}

-----------------------------------------------------------------------------
(* Mutant: a day is taken from what an earlier read saw.                   *)
PushRememberedDay(p) ==
  /\ push[p].pc = "idle"
  /\ \E i \in past, d \in Days : push' = [push EXCEPT ![p] =
       [push[p] EXCEPT !.pc = "list", !.kind = "availability",
                       !.data = [InventoryToChannelUpdates(inventory) EXCEPT ![d] = i[d]],
                       !.opened = ActiveConns(channels)]]
  /\ alone' = IF Others(p) = {} THEN {p} ELSE {}
  /\ UNCHANGED <<invVars, chVars, ratePoint, jobs, wire, ota, past, saved, taken>>

(* Mutant: the range that is read ends a day early.                        *)
PushShortRange(p) ==
  /\ push[p].pc = "idle"
  /\ \E d \in Days : push' = [push EXCEPT ![p] =
       [push[p] EXCEPT !.pc = "list", !.kind = "availability",
                       !.data = [InventoryToChannelUpdates(inventory)
                                   EXCEPT ![d] = Unsold[d]],
                       !.opened = ActiveConns(channels)]]
  /\ alone' = IF Others(p) = {} THEN {p} ELSE {}
  /\ UNCHANGED <<invVars, chVars, ratePoint, jobs, wire, ota, past, saved, taken>>

(* push_availability reads the days of its range in one query.             *)
PushAvailability(p) ==
  /\ push[p].pc = "idle"
  /\ push' = [push EXCEPT ![p] =
       [push[p] EXCEPT !.pc = "list", !.kind = "availability",
                       !.data = InventoryToChannelUpdates(inventory),
                       !.opened = ActiveConns(channels)]]
  /\ alone' = IF Others(p) = {} THEN {p} ELSE {}
  /\ UNCHANGED <<invVars, chVars, ratePoint, jobs, wire, ota, past, saved, taken>>

(* push_rates passes over malformed rates (a request without rates is      *)
(* refused, and left out).  With none left there is nothing to save, and   *)
(* an empty update goes to the channels.                                   *)
PushRates(p) ==
  /\ push[p].pc = "idle"
  /\ push' = [push EXCEPT ![p] =
       [push[p] EXCEPT !.pc = IF RoomsOf[p] = {} THEN "list" ELSE "save",
                       !.kind = "rates", !.opened = ActiveConns(channels)]]
  /\ UNCHANGED <<invVars, chVars, ratePoint, jobs, wire, ota, past, saved, taken,
                 alone>>

(* Mutant: a failed save is logged and the push goes on.                   *)
SaveRatesOrGoOn(p) ==
  /\ push[p].pc = "save"
  /\ \/ saved' = saved \cup {p} /\ ratePoint' = p
     \/ UNCHANGED <<saved, ratePoint>>
  /\ push' = [push EXCEPT ![p].pc = "list"]
  /\ UNCHANGED <<invVars, chVars, jobs, wire, ota, past, taken, alone>>

(* SaveBatch, one transaction: every room type of the organisation uses    *)
(* the plan BAR, so the rates of one day meet in one rate point.           *)
SaveRates(p) ==
  /\ push[p].pc = "save"
  /\ saved' = saved \cup {p}
  /\ ratePoint' = p
  /\ push' = [push EXCEPT ![p].pc = "list"]
  /\ UNCHANGED <<invVars, chVars, jobs, wire, ota, past, taken, alone>>

(* The save, or the list of channels, fails: nothing is sent.              *)
PushFails(p) ==
  /\ push[p].pc \in {"save", "list"}
  /\ push' = [push EXCEPT ![p].pc = "gone"]
  /\ UNCHANGED <<invVars, chVars, ratePoint, jobs, wire, ota, past, saved, taken,
                 alone>>

(* Mutant: paused channels are pushed to as well.                          *)
ListAllChannels(p) ==
  /\ push[p].pc = "list"
  /\ push' = [push EXCEPT ![p] =
       [push[p] EXCEPT !.pc = "next", !.todo = ListChannelsByProperty(Prop)]]
  /\ UNCHANGED <<invVars, chVars, ratePoint, jobs, wire, ota, past, saved, taken,
                 alone>>

(* The channels are listed once; those not active are passed over.         *)
ListChannels(p) ==
  /\ push[p].pc = "list"
  /\ push' = [push EXCEPT ![p] =
       [push[p] EXCEPT !.pc = "next",
                       !.todo = {r \in ListChannelsByProperty(Prop) : r.status = "active"}]]
  /\ UNCHANGED <<invVars, chVars, ratePoint, jobs, wire, ota, past, saved, taken,
                 alone>>

(* Mutant: a job type that the table does not know.                        *)
JobTypeOfAction(p) ==
  IF push[p].kind = "rates" THEN "rates_push" ELSE "inventory_push"

JobType(p) == IF push[p].kind = "rates" THEN "pricing_push" ELSE "inventory_push"

(* INSERT of the sync job; its connection must exist.                      *)
CreateSyncJob(p, r) ==
  jobs \cup {[push |-> p, chan |-> r.id, conn |-> r.conn, type |-> JobType(p),
              status |-> "running"]}

(* UPDATE of the sync job; none if it went with its connection.            *)
UpdateSyncJobStatus(p, r, s) ==
  {IF j.push = p /\ j.chan = r.id THEN [j EXCEPT !.status = s] ELSE j : j \in jobs}

(* One more channel of the loop failed before the OTA was called.          *)
Skip(p, r) ==
  push' = [push EXCEPT ![p] =
    [push[p] EXCEPT !.todo = @ \ {r}, !.failed = @ + 1]]

(* dispatch up to the call: without the connection, an adapter that can    *)
(* push, or the row of the sync job, the channel counts as failed.         *)
OpenJob(p) ==
  /\ push[p].pc = "next"
  /\ \E r \in push[p].todo :
       \/ /\ GetConnectionByID(r.conn) # {} /\ r.conn \in Capable
          /\ jobs' = CreateSyncJob(p, r)
          /\ push' = [push EXCEPT ![p] = [push[p] EXCEPT !.pc = "call", !.at = r]]
       \/ Skip(p, r) /\ UNCHANGED jobs
  /\ UNCHANGED <<invVars, chVars, ratePoint, wire, ota, past, saved, taken, alone>>

(* The OTA takes what push p sends over connection c: the days that have a *)
(* row, or the rates.                                                      *)
Shown(p, c) ==
  IF push[p].kind = "availability"
  THEN [ota EXCEPT ![c].availability =
         [d \in Days |-> IF push[p].data[d].available # NoBatch
                         THEN push[p].data[d] ELSE ota[c].availability[d]]]
  ELSE [ota EXCEPT ![c].rates =
         [r \in Rooms |-> IF r \in RoomsOf[p] THEN p ELSE ota[c].rates[r]]]

(* Mutant: the adapter does not look at the status of the answer.          *)
CallAdapterUnchecked(p) ==
  LET c == push[p].at.conn IN
  /\ push[p].pc = "call"
  /\ push' = [push EXCEPT ![p] = [push[p] EXCEPT !.pc = "close", !.good = TRUE]]
  /\ \/ ota' = Shown(p, c) /\ taken' = taken \cup {<<p, c>>}
     \/ UNCHANGED <<ota, taken>>
  /\ UNCHANGED <<invVars, chVars, ratePoint, jobs, wire, past, saved, alone>>

(* The OTA may still get the call of push p over connection c, or never.   *)
LoseAnswer(p, c) ==
  \/ UNCHANGED wire
  \/ Cardinality(wire) < MaxLate /\ wire' = wire \cup {<<p, c>>}

(* The adapter's POST: the OTA takes it and answers below 400, or the      *)
(* adapter returns an error, and the OTA may have got the call or may      *)
(* still get it.                                                           *)
CallAdapter(p) ==
  LET c == push[p].at.conn IN
  /\ push[p].pc = "call"
  /\ \/ /\ ota' = Shown(p, c)
        /\ taken' = taken \cup {<<p, c>>}
        /\ push' = [push EXCEPT ![p] = [push[p] EXCEPT !.pc = "close", !.good = TRUE]]
        /\ UNCHANGED wire
     \/ /\ LoseAnswer(p, c)
        /\ push' = [push EXCEPT ![p] = [push[p] EXCEPT !.pc = "close", !.good = FALSE]]
        /\ UNCHANGED <<ota, taken>>
  /\ UNCHANGED <<invVars, chVars, ratePoint, jobs, past, saved, alone>>

(* A call whose answer was lost arrives after all.                         *)
ArriveLate(p, c) ==
  /\ <<p, c>> \in wire
  /\ wire' = wire \ {<<p, c>>}
  /\ ota' = Shown(p, c)
  /\ taken' = taken \cup {<<p, c>>}
  /\ UNCHANGED <<invVars, chVars, ratePoint, push, jobs, past, saved, alone>>

(* dispatch after the call.  An error of the update is dropped, and the    *)
(* job stays running.                                                      *)
CloseJob(p) ==
  LET r == push[p].at IN
  /\ push[p].pc = "close"
  /\ jobs' \in {jobs, UpdateSyncJobStatus(p, r,
                       IF push[p].good THEN "succeeded" ELSE "failed")}
  /\ push' = [push EXCEPT ![p] =
       [push[p] EXCEPT !.pc = "next", !.at = NoId, !.good = FALSE, !.todo = @ \ {r},
                       !.failed = IF push[p].good THEN @ ELSE @ + 1]]
  /\ UNCHANGED <<invVars, chVars, ratePoint, wire, ota, past, saved, taken, alone>>

AnswerPush(p) ==
  /\ push[p].pc = "next" /\ push[p].todo = {}
  /\ push' = [push EXCEPT ![p].pc = "done"]
  /\ UNCHANGED <<invVars, chVars, ratePoint, jobs, wire, ota, past, saved, taken,
                 alone>>

(* The client hangs up, or the process stops: what the request does next   *)
(* fails with its context, and the OTA may still get the call under way.   *)
HangUpPush(p) ==
  /\ InProgress(p)
  /\ IF push[p].pc = "call" THEN LoseAnswer(p, push[p].at.conn) ELSE UNCHANGED wire
  /\ push' = [push EXCEPT ![p] = [push[p] EXCEPT !.pc = "gone", !.at = NoId, !.good = FALSE,
                                                !.todo = {}]]
  /\ UNCHANGED <<invVars, chVars, ratePoint, jobs, ota, past, saved, taken, alone>>

PushStep(p) ==
  \/ PushAvailability(p) \/ PushRates(p) \/ SaveRates(p) \/ PushFails(p)
  \/ ListChannels(p) \/ OpenJob(p) \/ CallAdapter(p) \/ CloseJob(p)
  \/ AnswerPush(p) \/ HangUpPush(p)
  \/ \E c \in Conns : ArriveLate(p, c)

(* A step of a writer: its history is the inventory's past.                *)
WriterStep ==
  /\ InvNext
  /\ past' = past \cup {InventoryToChannelUpdates(inventory')}
  /\ alone' = IF inventory' = inventory THEN alone ELSE {}
  /\ UNCHANGED <<chVars, ratePoint, push, jobs, wire, ota, saved, taken>>

(* A step of an admin: a deleted connection takes its jobs with it.        *)
AdminsStep(a) ==
  /\ \/ AdminStep(a) /\ UNCHANGED jobs
     \/ \E c \in Conns :
          /\ DeleteConnection(a, c)
          /\ jobs' = IF connections' = connections THEN jobs ELSE Cascade(jobs, c)
  /\ push' = [p \in Pushes |->
       IF InProgress(p)
       THEN [push[p] EXCEPT !.opened = @ \cup ActiveConns(channels')] ELSE push[p]]
  /\ alone' = IF channels' = channels THEN alone ELSE {}
  /\ UNCHANGED <<invVars, ratePoint, wire, ota, past, saved, taken>>

Next ==
  \/ \E p \in Pushes : PushStep(p)
  \/ WriterStep
  \/ \E a \in Admins : AdminsStep(a)

Spec == DistInit /\ [][Next]_vars

-----------------------------------------------------------------------------
(* Every variable stays in its type.                                       *)
TypeOK ==
  /\ InvTypeOK /\ ChTypeOK
  /\ ratePoint \in Pushes \cup {NoId}
  /\ push \in [Pushes -> PushState]
  /\ jobs \subseteq Job
  /\ wire \subseteq Pushes \X Conns /\ taken \subseteq Pushes \X Conns
  /\ ota \in [Conns -> OtaState]
  /\ past \subseteq Updates
  /\ saved \subseteq Pushes /\ alone \subseteq Pushes

(* No OTA shows a rate that the Channel Manager has not recorded: the save *)
(* comes first, and a failed save stops the push.                          *)
RatesRecordedFirst ==
  \A c \in Conns, r \in Rooms : ota[c].rates[r] # NoId => ota[c].rates[r] \in saved

(* What an OTA shows is the inventory of one moment, if maybe an earlier   *)
(* one: batches are written and read as a whole, never a day of one and a  *)
(* day of another.  (All days have rows here: Opening is a batch.)         *)
OtaShowsOneMoment == \A c \in Conns : ota[c].availability \in past \cup {Unsold}

(* An OTA gets something over a connection only from a push during which   *)
(* the property had an active channel on it: what was paused or            *)
(* disconnected before a push began is left alone by it.                   *)
ReachesOnlyActive == \A x \in taken : x[2] \in push[x[1]].opened

(* The jobs tell what happened: succeeded only if the OTA took the call,   *)
(* and no call without a job, unless its connection was deleted.           *)
JobsTellTheTruth ==
  /\ \A j \in jobs : j.status = "succeeded" => <<j.push, j.conn>> \in taken
  /\ \A x \in taken :
       \/ \E j \in jobs : j.push = x[1] /\ j.conn = x[2]
       \/ GetConnectionByID(x[2]) = {}

(* A push that answers without a failure, with no other push of            *)
(* availability on its way and neither inventory nor channels changed      *)
(* since it read them, leaves every active channel up to date.             *)
LonePushBringsUpToDate ==
  \A p \in alone :
    push[p].pc = "done" /\ push[p].failed = 0 =>
      \A c \in ActiveConns(channels) :
        ota[c].availability = InventoryToChannelUpdates(inventory)
=============================================================================
