--------------------------- MODULE OtaFetchProofs ---------------------------
(***************************************************************************)
(* Proofs about OtaFetch for every set of workers, channels, confirmation  *)
(* numbers and request keys, and every number of fetches and restarts.     *)
(***************************************************************************)
EXTENDS OtaFetch, ReservationsProofs

(* The fetches and the channels by themselves.                             *)
FetchShape ==
  /\ ota \in [Connections -> [Externals -> Statuses \cup {"none"}]]
  /\ active \in [Connections -> BOOLEAN]
  /\ fetch \in [Workers -> FetchRecord]
  /\ used \subseteq FetchKeys

(* A booking is one its channel has, cancelled only if it is there.        *)
Told(b) ==
  /\ b.ext \in NumbersOf[b.conn]
  /\ ota[b.conn][b.ext] # "none"
  /\ b.status = "cancelled" => ota[b.conn][b.ext] = "cancelled"

ToldFetch(f) ==
  /\ f.queue \subseteq f.seen
  /\ f.current # None => f.current \in f.seen
  /\ \A b \in f.seen : Told(b)

(* Channels use their own numbers, and fetches carry what they were told.  *)
FetchInv ==
  /\ FetchShape
  /\ \A c \in Connections, e \in Externals :
       ota[c][e] # "none" => e \in NumbersOf[c]
  /\ \A w \in Workers : ToldFetch(fetch[w])

-----------------------------------------------------------------------------
LEMMA IdleFetchType ==
  /\ IdleFetch \in FetchRecord
  /\ IdleFetch.pc = "idle" /\ IdleFetch.queue = {} /\ IdleFetch.seen = {}
  /\ IdleFetch.current = None
BY FetchAssumption DEF IdleFetch, FetchRecord, FetchPhases

LEMMA FetchInvInit == FetchInit => FetchInv
<1> SUFFICES ASSUME FetchInit PROVE FetchInv
  OBVIOUS
<1>1. fetch = [w \in Workers |-> IdleFetch]
  BY DEF FetchInit
<1>2. \A w \in Workers : ToldFetch(fetch[w])
  BY <1>1, IdleFetchType DEF ToldFetch
<1> QED
  BY <1>1, <1>2, IdleFetchType DEF FetchInit, FetchInv, FetchShape

(* A step of one fetch leaves the others alone.                            *)
LEMMA OneFetch ==
  ASSUME FetchInv, NEW w \in Workers, NEW f \in FetchRecord,
         fetch' = [fetch EXCEPT ![w] = f], ToldFetch(f),
         UNCHANGED <<ota, active, used>>
  PROVE  FetchInv'
<1>1. fetch' \in [Workers -> FetchRecord]
  BY DEF FetchInv, FetchShape
<1>2. ASSUME NEW v \in Workers PROVE ToldFetch(fetch[v])'
  <2>1. fetch'[v] = f \/ fetch'[v] = fetch[v]
    BY DEF FetchInv, FetchShape
  <2>2. ToldFetch(fetch'[v])
    BY <2>1 DEF FetchInv
  <2> QED
    BY <2>2 DEF ToldFetch, Told
<1> QED
  BY <1>1, <1>2 DEF FetchInv, FetchShape

LEMMA FetchType ==
  ASSUME FetchInv, NEW w \in Workers
  PROVE  fetch[w] \in FetchRecord /\ ToldFetch(fetch[w])
BY DEF FetchInv, FetchShape

(* What a channel answers is what it has.                                  *)
LEMMA AnswersAreTold ==
  ASSUME FetchInv, NEW c \in Connections, NEW b \in BookingsAt(c)
  PROVE  b \in Pulled /\ Told(b)
<1>1. PICK e \in Externals :
        ota[c][e] # "none" /\ b = [conn |-> c, ext |-> e, status |-> ota[c][e]]
  BY DEF BookingsAt
<1>2. ota[c][e] \in Statuses
  BY <1>1 DEF FetchInv, FetchShape
<1> QED
  BY <1>1, <1>2 DEF FetchInv, Pulled, Told

LEMMA GuestActsStep ==
  ASSUME FetchInv, NEW c \in Connections, NEW e \in Externals, GuestActs(c, e)
  PROVE  FetchInv'
<1> DEFINE new == IF ota[c][e] = "none" THEN "confirmed" ELSE "cancelled"
<1>1. /\ e \in NumbersOf[c] /\ ota[c][e] # "cancelled"
      /\ ota' = [ota EXCEPT ![c][e] = new]
      /\ UNCHANGED <<active, fetch, used>>
  BY DEF GuestActs
<1>2. ota \in [Connections -> [Externals -> Statuses \cup {"none"}]]
  BY DEF FetchInv, FetchShape
<1>3. new \in Statuses
  BY DEF Statuses
<1>4. \A d \in Connections, x \in Externals :
        ota'[d][x] = IF d = c /\ x = e THEN new ELSE ota[d][x]
  BY <1>1, <1>2
<1>5. ota' \in [Connections -> [Externals -> Statuses \cup {"none"}]]
  BY <1>1, <1>2, <1>3
<1>6. ota[c][e] # "none" => new = "cancelled"
  OBVIOUS
<1>7. new # "none"
  OBVIOUS
<1> HIDE DEF new
<1>8. ASSUME NEW b \in Pulled, Told(b) PROVE Told(b)'
  <2>1. b.conn \in Connections /\ b.ext \in Externals
    BY DEF Pulled
  <2> QED
    BY <1>1, <1>4, <1>6, <1>7, <1>8, <2>1 DEF Told
<1>9. ASSUME NEW w \in Workers PROVE ToldFetch(fetch[w])'
  <2>1. fetch[w].seen \subseteq Pulled
    BY FetchType DEF FetchRecord
  <2> QED
    BY <1>1, <1>8, <2>1, FetchType DEF ToldFetch
<1> QED
  BY <1>1, <1>4, <1>5, <1>7, <1>9 DEF FetchInv, FetchShape

LEMMA StartFetchStep ==
  ASSUME FetchInv, NEW w \in Workers, NEW key \in FetchKeys, StartFetch(w, key)
  PROVE  FetchInv'
<1> DEFINE lone == \A u \in Workers : fetch[u].pc = "idle"
           f == [IdleFetch EXCEPT !.pc = "pull", !.key = key,
                   !.todo = {c \in Connections : active[c]}, !.alone = lone,
                   !.fresh = key \notin used]
<1>1. f \in FetchRecord /\ ToldFetch(f)
  BY IdleFetchType DEF FetchRecord, FetchPhases, ToldFetch, IdleFetch
<1>2. fetch' = [v \in Workers |-> IF v = w THEN f
                                  ELSE [fetch[v] EXCEPT !.alone = FALSE]]
  BY DEF StartFetch
<1> HIDE DEF f
<1>3. \A v \in Workers : [fetch[v] EXCEPT !.alone = FALSE] \in FetchRecord
                         /\ ToldFetch([fetch[v] EXCEPT !.alone = FALSE])
  BY FetchType DEF FetchRecord, ToldFetch
<1>4. fetch' \in [Workers -> FetchRecord] /\ \A v \in Workers : ToldFetch(fetch'[v])
  BY <1>1, <1>2, <1>3
<1>5. UNCHANGED <<ota, active>> /\ used' \subseteq FetchKeys
  BY DEF StartFetch, FetchInv, FetchShape
<1>6. \A v \in Workers : ToldFetch(fetch[v])'
  BY <1>4, <1>5 DEF ToldFetch, Told
<1> QED
  BY <1>4, <1>5, <1>6 DEF FetchInv, FetchShape

LEMMA PullChannelStep ==
  ASSUME FetchInv, NEW w \in Workers, PullChannel(w)
  PROVE  FetchInv'
<1>1. UNCHANGED <<ota, active, used>>
  BY DEF PullChannel
<1>2. ASSUME NEW c \in fetch[w].todo,
             fetch' = [fetch EXCEPT ![w].pc = "ingest", ![w].todo = @ \ {c},
                                    ![w].queue = BookingsAt(c),
                                    ![w].seen = @ \cup BookingsAt(c)]
      PROVE  FetchInv'
  <2> DEFINE f == [fetch[w] EXCEPT !.pc = "ingest", !.todo = @ \ {c},
                     !.queue = BookingsAt(c), !.seen = @ \cup BookingsAt(c)]
  <2>1. c \in Connections
    BY FetchType DEF FetchRecord
  <2>2. BookingsAt(c) \subseteq Pulled /\ \A b \in BookingsAt(c) : Told(b)
    BY <2>1, AnswersAreTold
  <2>3. f \in FetchRecord
    BY <2>2, FetchType DEF FetchRecord, FetchPhases
  <2>4. ToldFetch(f)
    BY <2>2, FetchType DEF ToldFetch, FetchRecord
  <2>5. fetch' = [fetch EXCEPT ![w] = f]
    BY <1>2
  <2> QED
    BY <1>1, <2>3, <2>4, <2>5, OneFetch
<1>3. ASSUME NEW c \in fetch[w].todo,
             fetch' = [fetch EXCEPT ![w].todo = @ \ {c}]
      PROVE  FetchInv'
  <2> DEFINE f == [fetch[w] EXCEPT !.todo = @ \ {c}]
  <2>1. f \in FetchRecord /\ ToldFetch(f)
    BY FetchType DEF FetchRecord, ToldFetch
  <2>2. fetch' = [fetch EXCEPT ![w] = f]
    BY <1>3
  <2> QED
    BY <1>1, <2>1, <2>2, OneFetch
<1> QED
  BY <1>2, <1>3 DEF PullChannel

LEMMA IngestNextStep ==
  ASSUME FetchInv, NEW w \in Workers, IngestNext(w)
  PROVE  /\ FetchInv'
         /\ \E c \in Calls : StartPersist(w, c)
<1>1. PICK b \in fetch[w].queue :
        /\ StartPersist(w, [op |-> "ingest", conn |-> b.conn, ext |-> b.ext,
                            status |-> b.status,
                            key |-> IngestKey(fetch[w].key, b)])
        /\ fetch' = [fetch EXCEPT ![w].current = b, ![w].queue = @ \ {b}]
  BY DEF IngestNext
<1> DEFINE f == [fetch[w] EXCEPT !.current = b, !.queue = @ \ {b}]
<1>2. b \in Pulled /\ b \in fetch[w].seen /\ Told(b) /\ fetch[w].key \in FetchKeys
  BY FetchType DEF FetchRecord, ToldFetch
<1>3. f \in FetchRecord /\ ToldFetch(f)
  BY <1>2, FetchType DEF FetchRecord, ToldFetch
<1>4. fetch' = [fetch EXCEPT ![w] = f] /\ UNCHANGED <<ota, active, used>>
  BY <1>1 DEF IngestNext
<1>5. b.ext \in NumbersOf[b.conn]
  BY <1>2 DEF Told
<1>6. [op |-> "ingest", conn |-> b.conn, ext |-> b.ext, status |-> b.status,
       key |-> IngestKey(fetch[w].key, b)] \in Calls
  BY <1>2, <1>5, IngestAssumption DEF IngestCalls
<1> QED
  BY <1>1, <1>3, <1>4, <1>6, OneFetch

(* Steps that change how far one fetch is.                                 *)
LEMMA MoveStep ==
  ASSUME FetchInv, NEW w \in Workers,
         IngestReturns(w) \/ NextChannel(w) \/ FinishFetch(w) \/ EndFetch(w)
  PROVE  FetchInv'
<1>1. UNCHANGED <<ota, active, used>>
  BY DEF IngestReturns, NextChannel, FinishFetch, EndFetch
<1>2. CASE IngestReturns(w)
  <2> DEFINE f == [fetch[w] EXCEPT !.current = None]
  <2>1. f \in FetchRecord /\ ToldFetch(f) /\ fetch' = [fetch EXCEPT ![w] = f]
    BY <1>2, FetchType DEF IngestReturns, FetchRecord, ToldFetch
  <2> QED
    BY <1>1, <2>1, OneFetch
<1>3. CASE NextChannel(w) \/ FinishFetch(w)
  <2>1. PICK pc \in {"pull", "done"} : fetch' = [fetch EXCEPT ![w].pc = pc]
    BY <1>3 DEF NextChannel, FinishFetch
  <2> DEFINE f == [fetch[w] EXCEPT !.pc = pc]
  <2>2. f \in FetchRecord /\ ToldFetch(f) /\ fetch' = [fetch EXCEPT ![w] = f]
    BY <2>1, FetchType DEF FetchRecord, FetchPhases, ToldFetch
  <2> QED
    BY <1>1, <2>2, OneFetch
<1>4. CASE EndFetch(w)
  <2>1. IdleFetch \in FetchRecord /\ ToldFetch(IdleFetch)
    BY IdleFetchType DEF ToldFetch
  <2> QED
    BY <1>1, <1>4, <2>1, OneFetch DEF EndFetch
<1> QED
  BY <1>2, <1>3, <1>4

LEMMA FetchRestartStep == FetchInv /\ FetchRestart => FetchInv'
<1> SUFFICES ASSUME FetchInv, FetchRestart PROVE FetchInv'
  OBVIOUS
<1>1. fetch' = [w \in Workers |-> IdleFetch] /\ used' = {} /\ UNCHANGED <<ota, active>>
  BY DEF FetchRestart
<1>2. \A w \in Workers : ToldFetch(fetch[w])'
  BY <1>1, IdleFetchType DEF ToldFetch
<1> QED
  BY <1>1, <1>2, IdleFetchType DEF FetchInv, FetchShape

LEMMA FetchInvStep == FetchInv /\ [FetchNext]_vars => FetchInv'
<1> SUFFICES ASSUME FetchInv, [FetchNext]_vars PROVE FetchInv'
  OBVIOUS
<1>1. ASSUME NEW c \in Connections, SetChannelState(c) PROVE FetchInv'
  <2>1. active' \in [Connections -> BOOLEAN] /\ UNCHANGED <<ota, fetch, used>>
    BY <1>1 DEF SetChannelState, FetchInv, FetchShape
  <2> QED
    BY <2>1 DEF FetchInv, FetchShape, ToldFetch, Told
<1>2. CASE UNCHANGED fetchVars
  BY <1>2 DEF fetchVars, FetchInv, FetchShape, ToldFetch, Told
<1>3. ASSUME NEW w \in Workers, FetchStep(w) PROVE FetchInv'
  BY <1>2, <1>3, PullChannelStep, IngestNextStep, MoveStep DEF FetchStep
<1>4. CASE UNCHANGED vars
  BY <1>2, <1>4 DEF vars
<1> QED
  BY <1>1, <1>3, <1>4, GuestActsStep, StartFetchStep, FetchRestartStep DEF FetchNext

(* Every step of the fetches is a step of the store, or leaves it alone.   *)
LEMMA StoreStep == FetchInv /\ [FetchNext]_vars => [ResNext]_resVars
<1> SUFFICES ASSUME FetchInv, [FetchNext]_vars PROVE [ResNext]_resVars
  OBVIOUS
<1>1. ASSUME NEW w \in Workers, FetchStep(w) PROVE [ResNext]_resVars
  <2>1. CASE IngestNext(w)
    BY <2>1, IngestNextStep DEF ResNext
  <2>2. CASE ServiceStep(w)
    BY <2>2 DEF ResNext
  <2>3. CASE IngestReturns(w)
    BY <2>3 DEF ResNext, IngestReturns
  <2> QED
    BY <1>1, <2>1, <2>2, <2>3
    DEF FetchStep, PullChannel, NextChannel, FinishFetch, EndFetch
<1>2. CASE FetchRestart
  BY <1>2 DEF FetchRestart, ResNext
<1> QED
  BY <1>1, <1>2 DEF FetchNext, GuestActs, SetChannelState, StartFetch, vars

-----------------------------------------------------------------------------
(* What is proved of the store holds under fetches.                        *)
LEMMA FetchRunsStore == FetchSpec => ResSpec
<1>1. FetchInit => ResInit
  BY DEF FetchInit
<1> QED
  BY <1>1, FetchInvInit, FetchInvStep, StoreStep, PTL DEF FetchSpec, ResSpec

-----------------------------------------------------------------------------
(* The call a fetch makes for a booking.                                   *)
CallFor(b, key) ==
  [op |-> "ingest", conn |-> b.conn, ext |-> b.ext, status |-> b.status,
   key |-> IngestKey(key, b)]

(* The call a worker runs is the one of the booking it ingests.            *)
Serves(w) ==
  /\ job[w].pc # "idle" <=> fetch[w].current # None
  /\ fetch[w].current # None =>
       /\ fetch[w].pc = "ingest"
       /\ job[w].call = CallFor(fetch[w].current, fetch[w].key)
       /\ job[w].id = 0

(* Every row is a channel's: fetches are the only callers here.            *)
RowsOfChannels ==
  \A i \in DOMAIN rows : rows[i].conn \in Connections /\ rows[i].ext \in Externals

FollowInv ==
  /\ StoreInv /\ FetchInv
  /\ \A w \in Workers : Serves(w)
  /\ RowsOfChannels
  /\ StoreFollowsChannels

(* A step of an ingest call goes on with it, and what it changes in the    *)
(* table is the row of its booking.                                        *)
LEMMA IngestCallStep ==
  ASSUME StoreInv, NEW w \in Workers, ServiceStep(w), job[w].call.op = "ingest"
  PROVE  /\ job[w].pc # "idle" /\ job'[w].pc # "idle"
         /\ job'[w].call = job[w].call /\ job'[w].id = job[w].id
         /\ \A v \in Workers \ {w} : job'[v] = job[v]
         /\ \A i \in DOMAIN rows' :
              \/ i \in DOMAIN rows /\ rows'[i] = rows[i]
              \/ /\ rows'[i].conn = job[w].call.conn
                 /\ rows'[i].ext = job[w].call.ext
                 /\ rows'[i].status = job[w].call.status
<1> DEFINE c == job[w].call
<1>1. job \in [Workers -> JobRecord] /\ job[w] \in JobRecord /\ JobSound(job[w])
  BY JobType DEF StoreInv, TypeOK
<1>2. ~CancelRead(w) /\ ~CancelReread(w)
  <2>1. job[w].pc # "read" /\ job[w].pc # "reread"
    BY <1>1 DEF JobSound
  <2> QED
    BY <2>1 DEF CancelRead, CancelReread
<1>3. ASSUME NEW pc, pc # "idle", Goto(w, pc) PROVE
        job'[w].pc # "idle" /\ job'[w].call = c /\ job'[w].id = job[w].id
        /\ \A v \in Workers \ {w} : job'[v] = job[v]
  BY <1>1, <1>3 DEF Goto, JobRecord
<1>4. ASSUME NEW o, NEW r, Finish(w, o, r) PROVE
        job'[w].pc # "idle" /\ job'[w].call = c /\ job'[w].id = job[w].id
        /\ \A v \in Workers \ {w} : job'[v] = job[v]
  BY <1>1, <1>4 DEF Finish, JobRecord
<1>5. CASE CheckKey(w)
  <2>1. job[w].pc = "check" /\ UNCHANGED rows
    BY <1>5 DEF CheckKey
  <2>2. Finish(w, "duplicate", 0) \/ Goto(w, "lookup")
    BY <1>5 DEF CheckKey
  <2> QED
    BY <1>3, <1>4, <2>1, <2>2
<1>6. CASE SaveLookup(w)
  <2>1. PICK f : job' = [job EXCEPT ![w].pc = "write", ![w].found = f]
    BY <1>6 DEF SaveLookup
  <2> QED
    BY <1>1, <1>6, <2>1 DEF SaveLookup, JobRecord
<1>7. CASE SaveUpdates(w)
  <2> DEFINE n == job[w].found
  <2>1. /\ job[w].pc = "write" /\ n # 0
        /\ rows' = [rows EXCEPT ![n].status = c.status]
    BY <1>7 DEF SaveUpdates
  <2>2. rows \in Seq(Row) /\ n \in External(c.conn, c.ext)
    BY <1>1, <2>1 DEF JobSound, StoreInv, TypeOK
  <2>3. n \in DOMAIN rows /\ rows[n] \in Row
        /\ rows[n].conn = c.conn /\ rows[n].ext = c.ext
    BY <2>2 DEF External
  <2>4. \A i \in DOMAIN rows' :
          \/ i \in DOMAIN rows /\ rows'[i] = rows[i]
          \/ rows'[i].conn = c.conn /\ rows'[i].ext = c.ext
             /\ rows'[i].status = c.status
    BY <2>1, <2>2, <2>3 DEF Row
  <2>5. \/ job' = [job EXCEPT ![w].pc = AfterSave(w), ![w].returned = job[w].id]
        \/ Finish(w, "error", 0)
    BY <1>7 DEF SaveUpdates
  <2> QED
    BY <1>1, <1>4, <2>1, <2>4, <2>5 DEF AfterSave, JobRecord
<1>8. CASE SaveInserts(w)
  <2>1. /\ job[w].pc = "write"
        /\ rows' = Append(rows, [conn |-> c.conn, ext |-> c.ext,
                                 status |-> c.status])
    BY <1>8 DEF SaveInserts
  <2>2. rows \in Seq(Row)
    BY DEF StoreInv, TypeOK
  <2>3. \A i \in DOMAIN rows' :
          \/ i \in DOMAIN rows /\ rows'[i] = rows[i]
          \/ rows'[i] = [conn |-> c.conn, ext |-> c.ext, status |-> c.status]
    BY <2>1, <2>2
  <2>4. \/ job' = [job EXCEPT ![w].pc = AfterSave(w),
                             ![w].returned = Len(rows) + 1]
        \/ Finish(w, "error", 0)
    BY <1>8 DEF SaveInserts
  <2> QED
    BY <1>1, <1>4, <2>1, <2>3, <2>4 DEF AfterSave, JobRecord
<1>9. CASE SaveFails(w)
  <2>1. job[w].pc # "idle" /\ UNCHANGED rows /\ Finish(w, "error", 0)
    BY <1>9 DEF SaveFails
  <2> QED
    BY <1>4, <2>1
<1>10. CASE MarkSeen(w)
  <2>1. job[w].pc # "idle" /\ UNCHANGED rows /\ Goto(w, "publish")
    BY <1>10 DEF MarkSeen
  <2> QED
    BY <1>3, <2>1
<1>11. CASE Publish(w)
  <2>1. job[w].pc # "idle" /\ UNCHANGED rows /\ Finish(w, "saved", job[w].returned)
    BY <1>11 DEF Publish
  <2> QED
    BY <1>4, <2>1
<1> QED
  BY <1>2, <1>5, <1>6, <1>7, <1>8, <1>9, <1>10, <1>11 DEF ServiceStep

LEMMA FollowInit == FetchInit => FollowInv
<1> SUFFICES ASSUME FetchInit PROVE FollowInv
  OBVIOUS
<1>1. ResInit /\ rows = <<>> /\ job = [w \in Workers |-> IdleJob]
      /\ fetch = [w \in Workers |-> IdleFetch] /\ IdleJob.pc = "idle"
  BY DEF FetchInit, ResInit, IdleJob
<1>2. \A w \in Workers : Serves(w)
  BY <1>1, IdleFetchType DEF Serves
<1> QED
  BY <1>1, <1>2, StoreInvInit, FetchInvInit DEF FollowInv, StoreFollowsChannels, RowsOfChannels

(* Steps of guests, operators and fetches that leave the store alone.      *)
LEMMA FollowQuiet ==
  ASSUME FollowInv, StoreInv', FetchInv', UNCHANGED <<rows, job>>,
         \A w \in Workers : /\ fetch'[w].current = fetch[w].current
                            /\ fetch[w].current # None =>
                                 /\ fetch'[w].key = fetch[w].key
                                 /\ fetch'[w].pc = fetch[w].pc,
         \A c \in Connections, e \in Externals :
           /\ ota[c][e] # "none" => ota'[c][e] # "none"
           /\ ota[c][e] = "cancelled" => ota'[c][e] = "cancelled"
  PROVE  FollowInv'
<1>1. \A w \in Workers : Serves(w)'
  BY DEF FollowInv, Serves
<1>2. RowsOfChannels' /\ StoreFollowsChannels'
  BY DEF FollowInv, RowsOfChannels, StoreFollowsChannels
<1> QED
  BY <1>1, <1>2 DEF FollowInv

(* The call of a booking starts.                                           *)
LEMMA FollowIngestNext ==
  ASSUME FollowInv, StoreInv', FetchInv', NEW w \in Workers, IngestNext(w)
  PROVE  FollowInv'
<1>1. PICK b \in fetch[w].queue :
        /\ StartPersist(w, CallFor(b, fetch[w].key))
        /\ fetch' = [fetch EXCEPT ![w].current = b, ![w].queue = @ \ {b}]
  BY DEF IngestNext, CallFor
<1>2. fetch \in [Workers -> FetchRecord] /\ fetch[w] \in FetchRecord
      /\ job \in [Workers -> JobRecord] /\ b \in Pulled
  BY <1>1 DEF FollowInv, FetchInv, FetchShape, FetchRecord, StoreInv, TypeOK
<1>3. b # None
  BY <1>2, IngestAssumption
<1>4. /\ fetch'[w].current = b /\ fetch'[w].key = fetch[w].key
      /\ fetch'[w].pc = "ingest"
      /\ \A v \in Workers \ {w} : fetch'[v] = fetch[v]
  BY <1>1, <1>2 DEF FetchRecord, IngestNext
<1>5. /\ job'[w].pc = "check" /\ job'[w].call = CallFor(b, fetch[w].key)
      /\ job'[w].id = 0
      /\ \A v \in Workers \ {w} : job'[v] = job[v]
  BY <1>1, <1>2 DEF StartPersist, IdleJob
<1>6. ASSUME NEW v \in Workers PROVE Serves(v)'
  <2>1. CASE v = w
    BY <1>3, <1>4, <1>5, <2>1 DEF Serves
  <2>2. CASE v # w
    BY <1>4, <1>5, <2>2 DEF Serves, FollowInv
  <2> QED
    BY <2>1, <2>2
<1>7. UNCHANGED <<rows, ota>>
  BY <1>1 DEF IngestNext, StartPersist
<1> QED
  BY <1>6, <1>7 DEF FollowInv, RowsOfChannels, StoreFollowsChannels

(* The call of a booking goes on.                                          *)
LEMMA FollowService ==
  ASSUME FollowInv, StoreInv', FetchInv', NEW w \in Workers, ServiceStep(w),
         UNCHANGED fetchVars
  PROVE  FollowInv'
<1>1. job[w].pc # "idle"
  BY DEF ServiceStep, CheckKey, CancelRead, SaveLookup, SaveUpdates, SaveInserts,
         SaveFails, MarkSeen, Publish, CancelReread
<1> DEFINE b == fetch[w].current
<1>2. /\ b # None /\ job[w].call = CallFor(b, fetch[w].key) /\ job[w].id = 0
  BY <1>1 DEF FollowInv, Serves
<1>3. b \in Pulled /\ Told(b)
  BY <1>2, FetchType DEF FollowInv, FetchRecord, ToldFetch
<1>4. job[w].call.op = "ingest" /\ job[w].call.conn = b.conn
      /\ job[w].call.ext = b.ext /\ job[w].call.status = b.status
  BY <1>2 DEF CallFor
<1>5. /\ job'[w].pc # "idle" /\ job'[w].call = job[w].call /\ job'[w].id = 0
      /\ \A v \in Workers \ {w} : job'[v] = job[v]
      /\ \A i \in DOMAIN rows' :
           \/ i \in DOMAIN rows /\ rows'[i] = rows[i]
           \/ /\ rows'[i].conn = b.conn /\ rows'[i].ext = b.ext
              /\ rows'[i].status = b.status
  BY <1>2, <1>4, IngestCallStep DEF FollowInv
<1>6. UNCHANGED <<fetch, ota>>
  BY DEF fetchVars
<1>7. ASSUME NEW v \in Workers PROVE Serves(v)'
  BY <1>1, <1>2, <1>5, <1>6 DEF Serves, FollowInv
<1>8. b.conn \in Connections /\ b.ext \in Externals
  BY <1>3 DEF Pulled
<1>9. RowsOfChannels'
  BY <1>5, <1>8 DEF FollowInv, RowsOfChannels
<1>10. StoreFollowsChannels'
  BY <1>3, <1>5, <1>6 DEF FollowInv, StoreFollowsChannels, Told
<1> QED
  BY <1>7, <1>9, <1>10 DEF FollowInv

(* The call of a booking returns.                                          *)
LEMMA FollowReturns ==
  ASSUME FollowInv, StoreInv', FetchInv', NEW w \in Workers, IngestReturns(w)
  PROVE  FollowInv'
<1>1. fetch \in [Workers -> FetchRecord] /\ job \in [Workers -> JobRecord]
  BY DEF FollowInv, FetchInv, FetchShape, StoreInv, TypeOK
<1>2. /\ fetch'[w].current = None /\ job'[w].pc = "idle"
      /\ \A v \in Workers \ {w} : fetch'[v] = fetch[v] /\ job'[v] = job[v]
      /\ UNCHANGED <<rows, ota>>
  BY <1>1 DEF IngestReturns, Return, IdleJob, FetchRecord
<1>3. ASSUME NEW v \in Workers PROVE Serves(v)'
  BY <1>2 DEF Serves, FollowInv
<1> QED
  BY <1>2, <1>3 DEF FollowInv, RowsOfChannels, StoreFollowsChannels

(* The process stops and starts again.                                     *)
LEMMA FollowRestart ==
  ASSUME FollowInv, StoreInv', FetchInv', FetchRestart
  PROVE  FollowInv'
<1>1. /\ fetch' = [w \in Workers |-> IdleFetch] /\ job' = [w \in Workers |-> IdleJob]
      /\ UNCHANGED <<rows, ota>> /\ IdleJob.pc = "idle"
  BY DEF FetchRestart, Restart, IdleJob
<1>2. \A w \in Workers : Serves(w)'
  BY <1>1, IdleFetchType DEF Serves
<1> QED
  BY <1>1, <1>2 DEF FollowInv, RowsOfChannels, StoreFollowsChannels

(* A fetch that ingests nothing at the moment moves on.                    *)
LEMMA FollowMove ==
  ASSUME FollowInv, StoreInv', FetchInv', NEW w \in Workers,
         PullChannel(w) \/ NextChannel(w) \/ FinishFetch(w) \/ EndFetch(w)
  PROVE  FollowInv'
<1>1. fetch \in [Workers -> FetchRecord] /\ Serves(w) /\ UNCHANGED <<rows, job, ota>>
  BY DEF FollowInv, FetchInv, FetchShape, PullChannel, NextChannel, FinishFetch,
         EndFetch, resVars
<1>2. fetch[w].current = None
  BY <1>1 DEF Serves, PullChannel, NextChannel, FinishFetch, EndFetch
<1>3. fetch'[w].current = None /\ \A v \in Workers \ {w} : fetch'[v] = fetch[v]
  <2>1. fetch[w] \in FetchRecord
    BY <1>1
  <2>2. CASE PullChannel(w)
    <3>1. PICK c \in fetch[w].todo :
            \/ fetch' = [fetch EXCEPT ![w].pc = "ingest", ![w].todo = @ \ {c},
                                      ![w].queue = BookingsAt(c),
                                      ![w].seen = @ \cup BookingsAt(c)]
            \/ fetch' = [fetch EXCEPT ![w].todo = @ \ {c}]
      BY <2>2 DEF PullChannel
    <3>2. \A v \in Workers \ {w} : fetch'[v] = fetch[v]
      BY <1>1, <3>1
    <3>3. fetch'[w].current = fetch[w].current
      BY <1>1, <2>1, <3>1 DEF FetchRecord
    <3> QED
      BY <1>2, <3>2, <3>3
  <2>3. CASE NextChannel(w) \/ FinishFetch(w)
    BY <1>1, <1>2, <2>1, <2>3 DEF NextChannel, FinishFetch, FetchRecord
  <2>4. CASE EndFetch(w)
    BY <1>1, <2>4, IdleFetchType DEF EndFetch
  <2> QED
    BY <2>2, <2>3, <2>4
<1> QED
  BY <1>1, <1>2, <1>3, FollowQuiet

(* Guests, operators and the start of a fetch.                             *)
LEMMA FollowOutside ==
  ASSUME FollowInv, StoreInv', FetchInv',
         \/ \E c \in Connections, e \in Externals : GuestActs(c, e)
         \/ \E c \in Connections : SetChannelState(c)
         \/ \E w \in Workers, k \in FetchKeys : StartFetch(w, k)
  PROVE  FollowInv'
<1>1. fetch \in [Workers -> FetchRecord]
      /\ ota \in [Connections -> [Externals -> Statuses \cup {"none"}]]
  BY DEF FollowInv, FetchInv, FetchShape
<1>2. ASSUME NEW c \in Connections, NEW e \in Externals, GuestActs(c, e)
      PROVE  FollowInv'
  <2> DEFINE new == IF ota[c][e] = "none" THEN "confirmed" ELSE "cancelled"
  <2>1. UNCHANGED <<rows, job, fetch>> /\ ota' = [ota EXCEPT ![c][e] = new]
        /\ ota[c][e] # "cancelled"
    BY <1>2 DEF GuestActs, resVars
  <2>2. \A d \in Connections, x \in Externals :
          ota'[d][x] = IF d = c /\ x = e THEN new ELSE ota[d][x]
    BY <1>1, <2>1
  <2>3. new # "none"
    OBVIOUS
  <2> HIDE DEF new
  <2> QED
    BY <2>1, <2>2, <2>3, FollowQuiet
<1>3. ASSUME NEW c \in Connections, SetChannelState(c) PROVE FollowInv'
  <2>1. UNCHANGED <<rows, job, fetch, ota>>
    BY <1>3 DEF SetChannelState, resVars
  <2> QED
    BY <2>1, FollowQuiet
<1>4. ASSUME NEW w \in Workers, NEW k \in FetchKeys, StartFetch(w, k)
      PROVE  FollowInv'
  <2>1. UNCHANGED <<rows, job, ota>> /\ fetch[w].pc = "idle"
    BY <1>4 DEF StartFetch, resVars
  <2>2. fetch[w].current = None
    BY <2>1 DEF FollowInv, Serves
  <2>3. fetch'[w].current = None
    BY <1>4, IdleFetchType DEF StartFetch, IdleFetch
  <2>4. ASSUME NEW v \in Workers \ {w} PROVE
          fetch'[v].current = fetch[v].current /\ fetch'[v].key = fetch[v].key
          /\ fetch'[v].pc = fetch[v].pc
    <3>1. fetch'[v] = [fetch[v] EXCEPT !.alone = FALSE] /\ fetch[v] \in FetchRecord
      BY <1>1, <1>4 DEF StartFetch
    <3> QED
      BY <3>1 DEF FetchRecord
  <2> QED
    BY <2>1, <2>2, <2>3, <2>4, FollowQuiet
<1> QED
  BY <1>2, <1>3, <1>4

LEMMA FollowInvStep == FollowInv /\ [FetchNext]_vars => FollowInv'
<1> SUFFICES ASSUME FollowInv, [FetchNext]_vars PROVE FollowInv'
  OBVIOUS
<1>1. FetchInv' /\ StoreInv'
  BY FetchInvStep, StoreStep, StoreInvStep DEF FollowInv
<1>2. ASSUME NEW w \in Workers, FetchStep(w) PROVE FollowInv'
  BY <1>1, <1>2, FollowMove, FollowIngestNext, FollowService, FollowReturns
  DEF FetchStep
<1>3. CASE UNCHANGED vars
  <2>1. UNCHANGED <<rows, job, fetch, ota>>
    BY <1>3 DEF vars, resVars, fetchVars
  <2> QED
    BY <1>1, <2>1, FollowQuiet
<1> QED
  BY <1>1, <1>2, <1>3, FollowOutside, FollowRestart DEF FetchNext

(* What fetches carry, store calls hold and rows say was told by a channel *)
(* (fetchChannelReservations, FetchReservations).                          *)
THEOREM FollowInvariant == FetchSpec => []FollowInv
BY FollowInit, FollowInvStep, PTL DEF FetchSpec

(* The store never claims more than the channels said, whatever fetches,   *)
(* guests, operators and restarts do, and whichever saves fail.            *)
THEOREM FetchFollows == FetchSpec => []StoreFollowsChannels
<1>1. FollowInv => StoreFollowsChannels
  BY DEF FollowInv
<1> QED
  BY <1>1, FollowInvariant, PTL

(* Fetches keep their shape, and a worker calls the store exactly while it *)
(* ingests a booking.                                                      *)
THEOREM FetchTypeCorrect == FetchSpec => []FetchTypeOK
<1>1. FollowInv => FetchTypeOK
  BY DEF FollowInv, FetchInv, FetchShape, Serves, FetchTypeOK
<1> QED
  BY <1>1, FollowInvariant, PTL

-----------------------------------------------------------------------------
(* A call that ended left its booking stored.                              *)
EndsStored(j) ==
  (j.pc = "done" /\ j.call.op = "ingest") => Stored(j.call.conn, j.call.ext)

(* What a fetch was given is stored, being ingested or waiting.            *)
Accounted(f) ==
  /\ f.pc # "ingest" => f.queue = {} /\ f.current = None
  /\ \A b \in f.seen :
       b \in f.queue \/ b = f.current \/ Stored(b.conn, b.ext)

StoresInv ==
  /\ FollowInv
  /\ \A w \in Workers : EndsStored(job[w]) /\ Accounted(fetch[w])

(* No step of the store removes a row or makes it another booking's.       *)
LEMMA RowsStay == StoreInv /\ [ResNext]_resVars => RowsGrow
<1> SUFFICES ASSUME StoreInv, [ResNext]_resVars PROVE RowsGrow
  OBVIOUS
<1>1. rows \in Seq(Row) /\ job \in [Workers -> JobRecord]
  BY DEF StoreInv, TypeOK
<1>2. ASSUME NEW w \in Workers, SaveUpdates(w) PROVE RowsGrow
  <2> DEFINE s == job[w].call.status
             n == job[w].found
  <2>1. rows' = [rows EXCEPT ![n].status = s]
    BY <1>2 DEF SaveUpdates
  <2> HIDE DEF s, n
  <2> QED
    BY <1>1, <2>1 DEF RowsGrow, Row
<1>3. ASSUME NEW w \in Workers, SaveInserts(w) PROVE RowsGrow
  <2> DEFINE r == [conn |-> job[w].call.conn, ext |-> job[w].call.ext,
                   status |-> job[w].call.status]
  <2>1. rows' = Append(rows, r)
    BY <1>3 DEF SaveInserts
  <2> HIDE DEF r
  <2> QED
    BY <1>1, <2>1 DEF RowsGrow
<1>4. CASE UNCHANGED rows
  BY <1>4 DEF RowsGrow
<1>5. ASSUME NEW w \in Workers, ServiceStep(w) PROVE RowsGrow
  BY <1>2, <1>3, <1>4, <1>5
  DEF ServiceStep, CheckKey, CancelRead, SaveLookup, SaveFails, MarkSeen, Publish,
      CancelReread
<1> QED
  BY <1>4, <1>5 DEF ResNext, StartPersist, StartCancel, Return, Restart, resVars

(* Without failures of the database, each step of an ingest call leaves    *)
(* EndsStored as it is.                                                    *)
LEMMA IngestCallEnds ==
  ASSUME KeysNameOneBooking, DbMayFail = FALSE, StoreInv,
         NEW w \in Workers, ServiceStep(w), RowsGrow,
         job[w].call.op = "ingest", job[w].id = 0
  PROVE  EndsStored(job[w])'
<1>1. job \in [Workers -> JobRecord] /\ job[w] \in JobRecord /\ JobSound(job[w])
      /\ rows \in Seq(Row)
  BY JobType DEF StoreInv, TypeOK
<1> SUFFICES ASSUME NEW c \in CallRecord, job[w].call = c
             PROVE  job'[w].pc = "done" => Stored(c.conn, c.ext)'
  <2>1. PICK c \in CallRecord : job[w].call = c
    BY <1>1 DEF JobRecord
  <2>2. job'[w].call = c
    BY <2>1, IngestCallStep
  <2>3. job'[w].pc = "done" => Stored(c.conn, c.ext)'
    BY <2>1
  <2> QED
    BY <2>2, <2>3 DEF EndsStored, Stored
<1>2. Stored(c.conn, c.ext) => Stored(c.conn, c.ext)'
  BY StoredRemains
<1>3. CASE CheckKey(w)
  <2>1. CASE Goto(w, "lookup")
    BY <1>1, <2>1 DEF Goto, JobRecord
  <2>2. CASE ~Goto(w, "lookup")
    <3>1. c \in Calls /\ c.key # None /\ c.key \in seenKeys
      BY <1>1, <1>3, <2>2 DEF CheckKey, JobSound
    <3> QED
      BY <1>2, <3>1, KeysNameOneBooking DEF StoreInv, SeenBacked
  <2> QED
    BY <2>1, <2>2
<1>4. CASE SaveLookup(w)
  <2>1. job'[w].pc = "write"
    BY <1>1, <1>4 DEF SaveLookup, JobRecord
  <2> QED
    BY <2>1
<1>5. CASE SaveUpdates(w) \/ SaveInserts(w)
  <2>1. job'[w].pc = "mark"
    BY <1>1, <1>5 DEF SaveUpdates, SaveInserts, AfterSave, JobRecord
  <2> QED
    BY <2>1
<1>6. CASE SaveFails(w)
  <2>1. InsertRefused(c, job[w].id)
    BY <1>6 DEF SaveFails
  <2>2. 0 \notin DOMAIN rows
    BY <1>1
  <2>3. External(c.conn, c.ext) # {}
    BY <2>1, <2>2 DEF InsertRefused
  <2> QED
    BY <1>2, <2>3 DEF External, Stored
<1>7. CASE MarkSeen(w)
  <2>1. job'[w].pc = "publish"
    BY <1>1, <1>7 DEF MarkSeen, Goto, JobRecord
  <2> QED
    BY <2>1
<1>8. CASE Publish(w)
  BY <1>1, <1>2, <1>8 DEF Publish, JobSound
<1>9. ~CancelRead(w) /\ ~CancelReread(w)
  BY <1>1 DEF CancelRead, CancelReread, JobSound
<1> QED
  BY <1>3, <1>4, <1>5, <1>6, <1>7, <1>8, <1>9 DEF ServiceStep

LEMMA StoresInit == FetchInit => StoresInv
<1> SUFFICES ASSUME FetchInit PROVE StoresInv
  OBVIOUS
<1>1. job = [w \in Workers |-> IdleJob] /\ IdleJob.pc = "idle"
      /\ fetch = [w \in Workers |-> IdleFetch]
  BY DEF FetchInit, ResInit, IdleJob
<1> QED
  BY <1>1, FollowInit, IdleFetchType DEF StoresInv, EndsStored, Accounted

(* What was accounted for still is, when rows are added.                   *)
LEMMA AccountedStays ==
  ASSUME RowsGrow, NEW f, Accounted(f)
  PROVE  Accounted(f)'
<1>1. \A b \in f.seen : Stored(b.conn, b.ext) => Stored(b.conn, b.ext)'
  BY StoredRemains
<1> QED
  BY <1>1 DEF Accounted

LEMMA EndsStoredStays ==
  ASSUME RowsGrow, NEW j, EndsStored(j)
  PROVE  EndsStored(j)'
<1>1. Stored(j.call.conn, j.call.ext) => Stored(j.call.conn, j.call.ext)'
  BY StoredRemains
<1> QED
  BY <1>1 DEF EndsStored

(* The conclusion for one step, worker by worker.                          *)
LEMMA StoresStep ==
  ASSUME KeysNameOneBooking, DbMayFail = FALSE, StoresInv, [FetchNext]_vars
  PROVE  StoresInv'
<1>1. FollowInv' /\ RowsGrow /\ StoreInv /\ FetchInv
  BY FollowInvStep, StoreStep, RowsStay DEF StoresInv, FollowInv
<1>2. /\ fetch \in [Workers -> FetchRecord] /\ job \in [Workers -> JobRecord]
  BY <1>1 DEF FetchInv, FetchShape, StoreInv, TypeOK
<1>3. ASSUME NEW v \in Workers, job'[v] = job[v] PROVE EndsStored(job[v])'
  BY <1>1, <1>3, EndsStoredStays DEF StoresInv, EndsStored
<1>4. ASSUME NEW v \in Workers, fetch'[v] = fetch[v] PROVE Accounted(fetch[v])'
  BY <1>1, <1>4, AccountedStays DEF StoresInv, Accounted
<1>5. ASSUME NEW w \in Workers, FetchStep(w),
             \A v \in Workers \ {w} : fetch'[v] = fetch[v] /\ job'[v] = job[v],
             EndsStored(job[w])', Accounted(fetch[w])'
      PROVE  StoresInv'
  BY <1>1, <1>3, <1>4, <1>5 DEF StoresInv
<1>6. ASSUME NEW w \in Workers, FetchStep(w) PROVE StoresInv'
  <2> DEFINE f == fetch[w]
  <2>1. f \in FetchRecord /\ Accounted(f) /\ Accounted(f)' \in BOOLEAN
        /\ EndsStored(job[w]) /\ Serves(w)
    BY <1>2 DEF StoresInv, FollowInv, Accounted
  <2>2. \A b \in f.seen : Stored(b.conn, b.ext) => Stored(b.conn, b.ext)'
    BY <1>1, StoredRemains
  <2>3. CASE PullChannel(w)
    <3>1. UNCHANGED <<job, rows>> /\ f.pc = "pull"
      BY <2>3 DEF PullChannel, resVars
    <3>2. PICK c \in f.todo :
            \/ fetch' = [fetch EXCEPT ![w].pc = "ingest", ![w].todo = @ \ {c},
                                      ![w].queue = BookingsAt(c),
                                      ![w].seen = @ \cup BookingsAt(c)]
            \/ fetch' = [fetch EXCEPT ![w].todo = @ \ {c}]
      BY <2>3 DEF PullChannel
    <3>3. \A v \in Workers \ {w} : fetch'[v] = fetch[v]
      BY <1>2, <3>2
    <3>4. \/ /\ fetch'[w].pc = "ingest" /\ fetch'[w].queue = BookingsAt(c)
             /\ fetch'[w].seen = f.seen \cup BookingsAt(c)
          \/ /\ fetch'[w].pc = f.pc /\ fetch'[w].queue = f.queue
             /\ fetch'[w].seen = f.seen /\ fetch'[w].current = f.current
      BY <1>2, <2>1, <3>2 DEF FetchRecord
    <3>5. f.queue = {} /\ f.current = None
      BY <2>1, <3>1 DEF Accounted
    <3>6. f.current # None => f.current \in f.seen
      BY <3>5
    <3>7. \A b \in f.seen : Stored(b.conn, b.ext)'
      <4>1. \A b \in f.seen : b # None
        BY <2>1, IngestAssumption DEF FetchRecord
      <4> QED
        BY <2>1, <2>2, <3>5, <4>1 DEF Accounted
    <3>8. Accounted(fetch[w])'
      BY <3>1, <3>4, <3>5, <3>7 DEF Accounted
    <3>9. EndsStored(job[w])'
      BY <1>3, <3>1
    <3> QED
      BY <1>5, <1>6, <3>1, <3>3, <3>8, <3>9
  <2>4. CASE IngestNext(w)
    <3>1. PICK b \in f.queue :
            /\ StartPersist(w, CallFor(b, f.key))
            /\ fetch' = [fetch EXCEPT ![w].current = b, ![w].queue = @ \ {b}]
      BY <2>4 DEF IngestNext, CallFor
    <3>2. /\ fetch'[w].pc = f.pc /\ fetch'[w].queue = f.queue \ {b}
          /\ fetch'[w].seen = f.seen /\ fetch'[w].current = b
          /\ \A v \in Workers \ {w} : fetch'[v] = fetch[v]
      BY <1>2, <2>1, <3>1 DEF FetchRecord
    <3>3. /\ job'[w].pc = "check"
          /\ \A v \in Workers \ {w} : job'[v] = job[v]
      BY <1>2, <3>1 DEF StartPersist, IdleJob
    <3>4. f.pc = "ingest" /\ f.current = None
      BY <2>4 DEF IngestNext
    <3>5. \A x \in f.seen : x # None
      BY <2>1, IngestAssumption DEF FetchRecord
    <3>6. Accounted(fetch[w])'
      BY <2>1, <2>2, <3>2, <3>4, <3>5 DEF Accounted
    <3> QED
      BY <1>5, <1>6, <3>2, <3>3, <3>6 DEF EndsStored
  <2>5. CASE ServiceStep(w) /\ UNCHANGED fetchVars
    <3>1. job[w].pc # "idle"
      BY <2>5 DEF ServiceStep, CheckKey, CancelRead, SaveLookup, SaveUpdates,
             SaveInserts, SaveFails, MarkSeen, Publish, CancelReread
    <3>2. job[w].call.op = "ingest" /\ job[w].id = 0
      BY <2>1, <3>1 DEF Serves, CallFor
    <3>3. /\ job'[w].call = job[w].call
          /\ \A v \in Workers \ {w} : job'[v] = job[v]
      BY <1>1, <2>5, <3>2, IngestCallStep
    <3>5. EndsStored(job[w])'
      BY <1>1, <2>5, <3>2, IngestCallEnds
    <3>6. UNCHANGED fetch
      BY <2>5 DEF fetchVars
    <3> QED
      BY <1>4, <1>5, <1>6, <3>3, <3>5, <3>6
  <2>6. CASE IngestReturns(w)
    <3>1. /\ fetch'[w].pc = f.pc /\ fetch'[w].queue = f.queue
          /\ fetch'[w].seen = f.seen /\ fetch'[w].current = None
          /\ \A v \in Workers \ {w} : fetch'[v] = fetch[v]
      BY <1>2, <2>1, <2>6 DEF IngestReturns, FetchRecord
    <3>2. /\ job'[w].pc = "idle" /\ \A v \in Workers \ {w} : job'[v] = job[v]
      BY <1>2, <2>6 DEF IngestReturns, Return, IdleJob
    <3>3. job[w].pc = "done" /\ f.pc = "ingest"
      BY <2>6 DEF IngestReturns
    <3>4. Stored(f.current.conn, f.current.ext)
      BY <2>1, <3>3 DEF EndsStored, Serves, CallFor
    <3>5. Accounted(fetch[w])'
      BY <2>1, <2>2, <3>1, <3>3, <3>4 DEF Accounted
    <3> QED
      BY <1>5, <1>6, <3>1, <3>2, <3>5 DEF EndsStored
  <2>7. CASE NextChannel(w) \/ FinishFetch(w)
    <3>1. PICK pc \in {"pull", "done"} : fetch' = [fetch EXCEPT ![w].pc = pc]
      BY <2>7 DEF NextChannel, FinishFetch
    <3>2. /\ fetch'[w].pc = pc /\ fetch'[w].queue = f.queue
          /\ fetch'[w].seen = f.seen /\ fetch'[w].current = f.current
          /\ \A v \in Workers \ {w} : fetch'[v] = fetch[v]
      BY <1>2, <2>1, <3>1 DEF FetchRecord
    <3>3. f.queue = {} /\ f.current = None
      BY <2>1, <2>7 DEF NextChannel, FinishFetch, Accounted
    <3>4. UNCHANGED job
      BY <2>7 DEF NextChannel, FinishFetch, resVars
    <3>5. Accounted(fetch[w])'
      BY <2>1, <2>2, <3>2, <3>3 DEF Accounted
    <3> QED
      BY <1>3, <1>5, <1>6, <3>2, <3>4, <3>5
  <2>8. CASE EndFetch(w)
    <3>1. fetch'[w] = IdleFetch /\ UNCHANGED job
          /\ \A v \in Workers \ {w} : fetch'[v] = fetch[v]
      BY <1>2, <2>8 DEF EndFetch, resVars
    <3>2. Accounted(fetch[w])'
      BY <3>1, IdleFetchType DEF Accounted
    <3> QED
      BY <1>3, <1>5, <1>6, <3>1, <3>2
  <2> QED
    BY <1>6, <2>3, <2>4, <2>5, <2>6, <2>7, <2>8 DEF FetchStep
<1>7. CASE FetchRestart
  <2>1. fetch' = [w \in Workers |-> IdleFetch] /\ job' = [w \in Workers |-> IdleJob]
        /\ IdleJob.pc = "idle"
    BY <1>7 DEF FetchRestart, Restart, IdleJob
  <2> QED
    BY <1>1, <2>1, IdleFetchType DEF StoresInv, EndsStored, Accounted
<1>8. CASE UNCHANGED <<fetch, job>>
  BY <1>1, <1>3, <1>4, <1>8 DEF StoresInv
<1>9. ASSUME NEW w \in Workers, NEW k \in FetchKeys, StartFetch(w, k)
      PROVE  StoresInv'
  <2>1. UNCHANGED job /\ fetch'[w].queue = {} /\ fetch'[w].current = None
        /\ fetch'[w].seen = {}
    BY <1>2, <1>9, IdleFetchType DEF StartFetch, resVars, IdleFetch
  <2>2. ASSUME NEW v \in Workers \ {w} PROVE
          /\ fetch'[v].pc = fetch[v].pc /\ fetch'[v].queue = fetch[v].queue
          /\ fetch'[v].current = fetch[v].current /\ fetch'[v].seen = fetch[v].seen
    <3>1. fetch'[v] = [fetch[v] EXCEPT !.alone = FALSE] /\ fetch[v] \in FetchRecord
      BY <1>2, <1>9 DEF StartFetch
    <3> QED
      BY <3>1 DEF FetchRecord
  <2>3. ASSUME NEW v \in Workers PROVE Accounted(fetch[v])'
    <3>1. CASE v = w
      BY <2>1, <3>1 DEF Accounted
    <3>2. CASE v # w
      <4>1. Accounted(fetch[v])
        BY DEF StoresInv
      <4>2. \A b \in fetch[v].seen : Stored(b.conn, b.ext) => Stored(b.conn, b.ext)'
        BY <1>1, StoredRemains
      <4> QED
        BY <2>2, <3>2, <4>1, <4>2 DEF Accounted
    <3> QED
      BY <3>1, <3>2
  <2> QED
    BY <1>1, <1>3, <2>1, <2>3 DEF StoresInv
<1> QED
  BY <1>6, <1>7, <1>8, <1>9
  DEF FetchNext, GuestActs, SetChannelState, vars, resVars, fetchVars

(* Without database failures, and when a key names one booking, all that a *)
(* finished fetch was given is stored, other fetches and restarts included.*)
THEOREM FetchesStore ==
  ASSUME KeysNameOneBooking, DbMayFail = FALSE
  PROVE  FetchSpec => []FetchStores
<1>1. StoresInv => FetchStores
  <2> SUFFICES ASSUME StoresInv, NEW w \in Workers, Finished(w),
                      NEW b \in fetch[w].seen
               PROVE  Stored(b.conn, b.ext)
    BY DEF FetchStores
  <2>1. fetch[w].pc = "done" /\ Accounted(fetch[w])
    BY DEF Finished, StoresInv
  <2>2. b # None
    BY IngestAssumption DEF StoresInv, FollowInv, FetchInv, FetchShape, FetchRecord
  <2> QED
    BY <2>1, <2>2 DEF Accounted
<1>2. StoresInv /\ [FetchNext]_vars => StoresInv'
  BY StoresStep
<1> QED
  BY <1>1, <1>2, StoresInit, PTL DEF FetchSpec

-----------------------------------------------------------------------------
(* The store shows booking b as the channel gave it.                       *)
Shows(b) == \E i \in External(b.conn, b.ext) : rows[i].status = b.status

(* Booking b of fetch f, whose call is j, is yet to be written.            *)
Waiting(f, j, b) ==
  b \in f.queue \/ (b = f.current /\ j.pc \in {"check", "lookup", "write"})

(* A fetch nobody disturbs: it is given each booking once; what waits can  *)
(* still be written under its key, what does not is shown; Save inserts    *)
(* only what is not there.                                                 *)
CleanFetch(f, j) ==
  /\ f.current \notin f.queue
  /\ \A b \in f.seen : b.conn \notin f.todo
  /\ \A a, b \in f.seen : (a.conn = b.conn /\ a.ext = b.ext) => a = b
  /\ \A b \in f.seen : IF Waiting(f, j, b) THEN IngestKey(f.key, b) \notin seenKeys
                                           ELSE Shows(b)
  /\ \A c \in f.todo : \A e \in NumbersOf[c] : <<f.key, e>> \notin seenKeys
  /\ (j.pc = "write" /\ j.found = 0) => External(j.call.conn, j.call.ext) = {}

(* A remembered key was made of the key of a request to this process.      *)
KeysUsed ==
  /\ \A k \in FetchKeys, e \in Externals : <<k, e>> \in seenKeys => k \in used
  /\ \A w \in Workers : fetch[w].pc # "idle" => fetch[w].key \in used

LoneInv ==
  /\ KeysUsed
  /\ \A w \in Workers : (fetch[w].alone /\ fetch[w].fresh) =>
       /\ CleanFetch(fetch[w], job[w])
       /\ \A v \in Workers \ {w} : fetch[v].pc = "idle"

LEMMA CleanStays ==
  ASSUME UNCHANGED <<rows, seenKeys>>, NEW f, NEW j, CleanFetch(f, j),
         NEW w, fetch'[w] = f, job'[w] = j
  PROVE  CleanFetch(fetch[w], job[w])'
BY DEF CleanFetch, Waiting, Shows, External, IngestKey

(* What a step of a fetch leaves alone.                                    *)
LEMMA FetchMoves ==
  ASSUME FollowInv, NEW w \in Workers, FetchStep(w)
  PROVE  /\ fetch[w].pc # "idle" /\ UNCHANGED used
         /\ \A v \in Workers \ {w} : fetch'[v] = fetch[v] /\ job'[v] = job[v]
         /\ \/ fetch'[w] = IdleFetch
            \/ /\ fetch'[w].key = fetch[w].key /\ fetch'[w].alone = fetch[w].alone
               /\ fetch'[w].fresh = fetch[w].fresh /\ fetch'[w].pc # "idle"
<1>1. /\ fetch \in [Workers -> FetchRecord] /\ job \in [Workers -> JobRecord]
      /\ fetch[w] \in FetchRecord /\ Serves(w)
  BY DEF FollowInv, FetchInv, FetchShape, StoreInv, TypeOK
<1>2. CASE PullChannel(w)
  <2>1. PICK c \in fetch[w].todo :
          \/ fetch' = [fetch EXCEPT ![w].pc = "ingest", ![w].todo = @ \ {c},
                                    ![w].queue = BookingsAt(c),
                                    ![w].seen = @ \cup BookingsAt(c)]
          \/ fetch' = [fetch EXCEPT ![w].todo = @ \ {c}]
    BY <1>2 DEF PullChannel
  <2>2. fetch[w].pc = "pull" /\ UNCHANGED <<job, used>>
    BY <1>2 DEF PullChannel, resVars
  <2>3. \A v \in Workers \ {w} : fetch'[v] = fetch[v]
    BY <1>1, <2>1
  <2> QED
    BY <1>1, <2>1, <2>2, <2>3 DEF FetchRecord
<1>3. CASE IngestNext(w)
  <2>1. PICK b \in fetch[w].queue :
          /\ StartPersist(w, CallFor(b, fetch[w].key))
          /\ fetch' = [fetch EXCEPT ![w].current = b, ![w].queue = @ \ {b}]
    BY <1>3 DEF IngestNext, CallFor
  <2>2. fetch[w].pc = "ingest" /\ UNCHANGED used
    BY <1>3 DEF IngestNext
  <2>3. \A v \in Workers \ {w} : fetch'[v] = fetch[v] /\ job'[v] = job[v]
    BY <1>1, <2>1 DEF StartPersist
  <2> QED
    BY <1>1, <2>1, <2>2, <2>3 DEF FetchRecord
<1>4. CASE ServiceStep(w) /\ UNCHANGED fetchVars
  <2>1. job[w].pc # "idle"
    BY <1>4 DEF ServiceStep, CheckKey, CancelRead, SaveLookup, SaveUpdates,
           SaveInserts, SaveFails, MarkSeen, Publish, CancelReread
  <2>2. fetch[w].pc = "ingest" /\ job[w].call.op = "ingest"
    BY <1>1, <2>1 DEF Serves, CallFor
  <2> QED
    BY <1>4, <2>2, IngestCallStep DEF fetchVars, FollowInv
<1>5. CASE IngestReturns(w)
  <2>1. \A v \in Workers \ {w} : fetch'[v] = fetch[v] /\ job'[v] = job[v]
    BY <1>1, <1>5 DEF IngestReturns, Return
  <2> QED
    BY <1>1, <1>5, <2>1 DEF IngestReturns, FetchRecord
<1>6. CASE NextChannel(w) \/ FinishFetch(w)
  BY <1>1, <1>6 DEF NextChannel, FinishFetch, FetchRecord, resVars
<1>7. CASE EndFetch(w)
  BY <1>1, <1>7 DEF EndFetch, resVars
<1> QED
  BY <1>2, <1>3, <1>4, <1>5, <1>6, <1>7 DEF FetchStep

(* What the call of a fetch adds to the remembered keys.                   *)
LEMMA FetchRemembers ==
  ASSUME FollowInv, NEW w \in Workers, FetchStep(w)
  PROVE  \/ UNCHANGED seenKeys
         \/ /\ job[w].pc = "mark" /\ fetch[w].current # None
            /\ seenKeys' = seenKeys
                 \cup ({IngestKey(fetch[w].key, fetch[w].current)} \ {None})
<1>1. CASE MarkSeen(w)
  <2>1. job[w].pc = "mark" /\ seenKeys' = seenKeys \cup ({job[w].call.key} \ {None})
    BY <1>1 DEF MarkSeen
  <2>2. Serves(w)
    BY DEF FollowInv
  <2> QED
    BY <2>1, <2>2 DEF Serves, CallFor
<1>2. CASE ~MarkSeen(w)
  BY <1>2 DEF FetchStep, PullChannel, IngestNext, IngestReturns, NextChannel,
         FinishFetch, EndFetch, StartPersist, Return, resVars, ServiceStep, CheckKey,
         CancelRead, SaveLookup, SaveUpdates, SaveInserts, SaveFails, Publish,
         CancelReread
<1> QED
  BY <1>1, <1>2

LEMMA KeysUsedStep ==
  ASSUME FollowInv, KeysUsed, [FetchNext]_vars
  PROVE  KeysUsed'
<1>1. fetch \in [Workers -> FetchRecord]
  BY DEF FollowInv, FetchInv, FetchShape
<1>2. ASSUME NEW w \in Workers, FetchStep(w) PROVE KeysUsed'
  <2>1. ASSUME NEW k \in FetchKeys, NEW e \in Externals, <<k, e>> \in seenKeys'
        PROVE  k \in used
    <3>1. CASE <<k, e>> \in seenKeys
      BY <3>1 DEF KeysUsed
    <3>2. CASE <<k, e>> \notin seenKeys
      <4>1. fetch[w].current # None /\ <<k, e>> = IngestKey(fetch[w].key, fetch[w].current)
        BY <1>2, <2>1, <3>2, FetchRemembers
      <4>2. fetch[w].pc = "ingest"
        BY <4>1 DEF FollowInv, Serves
      <4> QED
        BY <4>1, <4>2 DEF KeysUsed, IngestKey
    <3> QED
      BY <3>1, <3>2
  <2>2. ASSUME NEW v \in Workers, fetch'[v].pc # "idle" PROVE fetch'[v].key \in used
    <3>1. CASE v = w
      BY <1>2, <2>2, <3>1, FetchMoves, IdleFetchType DEF KeysUsed
    <3>2. CASE v # w
      BY <1>2, <2>2, <3>2, FetchMoves DEF KeysUsed
    <3> QED
      BY <3>1, <3>2
  <2>3. UNCHANGED used
    BY <1>2, FetchMoves
  <2> QED
    BY <2>1, <2>2, <2>3 DEF KeysUsed
<1>3. ASSUME NEW w \in Workers, NEW key \in FetchKeys, StartFetch(w, key)
      PROVE  KeysUsed'
  <2>1. used' = used \cup {key} /\ UNCHANGED seenKeys
    BY <1>3 DEF StartFetch, resVars
  <2>2. ASSUME NEW v \in Workers, fetch'[v].pc # "idle" PROVE fetch'[v].key \in used'
    <3>1. CASE v = w
      <4>1. fetch'[w].key = key
        BY <1>1, <1>3, IdleFetchType DEF StartFetch, IdleFetch
      <4> QED
        BY <2>1, <3>1, <4>1
    <3>2. CASE v # w
      <4>1. fetch'[v] = [fetch[v] EXCEPT !.alone = FALSE] /\ fetch[v] \in FetchRecord
        BY <1>1, <1>3, <3>2 DEF StartFetch
      <4>2. fetch'[v].pc = fetch[v].pc /\ fetch'[v].key = fetch[v].key
        BY <4>1 DEF FetchRecord
      <4> QED
        BY <2>1, <2>2, <4>2 DEF KeysUsed
    <3> QED
      BY <3>1, <3>2
  <2> QED
    BY <2>1, <2>2 DEF KeysUsed
<1>4. CASE FetchRestart
  <2>1. seenKeys' = {} /\ fetch' = [w \in Workers |-> IdleFetch]
    BY <1>4 DEF FetchRestart, Restart
  <2> QED
    BY <2>1, IdleFetchType DEF KeysUsed
<1>5. CASE UNCHANGED <<seenKeys, used, fetch>>
  BY <1>5 DEF KeysUsed
<1> QED
  BY <1>2, <1>3, <1>4, <1>5
  DEF FetchNext, GuestActs, SetChannelState, vars, resVars, fetchVars

(* What a fetch knows of the bookings it carries.                          *)
LEMMA CleanFacts ==
  ASSUME StoresInv, NEW w \in Workers
  PROVE  /\ fetch[w] \in FetchRecord /\ job[w] \in JobRecord
         /\ Serves(w) /\ Accounted(fetch[w]) /\ ToldFetch(fetch[w])
         /\ fetch[w].seen \subseteq Pulled /\ None \notin fetch[w].seen
BY IngestAssumption
DEF StoresInv, FollowInv, FetchInv, FetchShape, StoreInv, TypeOK, FetchRecord

(* The next channel is pulled, or fails.                                   *)
LEMMA CleanPull ==
  ASSUME StoresInv, NEW w \in Workers, CleanFetch(fetch[w], job[w]), PullChannel(w)
  PROVE  CleanFetch(fetch[w], job[w])'
<1>1. PICK f \in FetchRecord, j \in JobRecord :
        f = fetch[w] /\ j = job[w] /\ ToldFetch(f) /\ CleanFetch(f, j)
        /\ f.seen \subseteq Pulled /\ None \notin f.seen
        /\ f.queue = {} /\ f.current = None /\ j.pc = "idle"
  BY CleanFacts DEF PullChannel, Accounted, Serves
<1>2. fetch \in [Workers -> FetchRecord]
  BY DEF StoresInv, FollowInv, FetchInv, FetchShape
<1>3. UNCHANGED <<rows, seenKeys, job>>
  BY DEF PullChannel, resVars
<1>4. PICK c \in f.todo :
        \/ fetch' = [fetch EXCEPT ![w].pc = "ingest", ![w].todo = @ \ {c},
                                  ![w].queue = BookingsAt(c),
                                  ![w].seen = @ \cup BookingsAt(c)]
        \/ fetch' = [fetch EXCEPT ![w].todo = @ \ {c}]
  BY <1>1 DEF PullChannel
<1>5. PICK g : g = fetch'[w]
  OBVIOUS
<1>6. \A b \in f.seen : ~Waiting(f, j, b) /\ Shows(b) /\ b.conn # c
  BY <1>1, <1>4 DEF Waiting, CleanFetch
<1>7. CASE fetch' = [fetch EXCEPT ![w].todo = @ \ {c}]
  <2>1. /\ g.todo = f.todo \ {c} /\ g.queue = f.queue /\ g.current = f.current
        /\ g.seen = f.seen /\ g.key = f.key
    BY <1>1, <1>2, <1>5, <1>7 DEF FetchRecord
  <2>2. CleanFetch(g, j)
    BY <1>1, <2>1 DEF CleanFetch, Waiting, IngestKey
  <2> QED
    BY <1>1, <1>3, <1>5, <2>2, CleanStays
<1>8. CASE fetch' = [fetch EXCEPT ![w].pc = "ingest", ![w].todo = @ \ {c},
                                  ![w].queue = BookingsAt(c),
                                  ![w].seen = @ \cup BookingsAt(c)]
  <2>1. /\ g.todo = f.todo \ {c} /\ g.queue = BookingsAt(c) /\ g.current = None
        /\ g.seen = f.seen \cup BookingsAt(c) /\ g.key = f.key
    BY <1>1, <1>2, <1>5, <1>8 DEF FetchRecord
  <2>2. c \in Connections
    BY <1>1, <1>4 DEF FetchRecord
  <2>3. ASSUME NEW b \in BookingsAt(c)
        PROVE  /\ b.conn = c /\ b \in Pulled
               /\ IngestKey(f.key, b) \notin seenKeys
               /\ \A a \in BookingsAt(c) : a.ext = b.ext => a = b
    <3>1. b.conn = c /\ \A a \in BookingsAt(c) : a.ext = b.ext => a = b
      BY DEF BookingsAt
    <3>2. b \in Pulled /\ b.ext \in NumbersOf[c]
      BY <2>2, <3>1, AnswersAreTold DEF StoresInv, FollowInv, Told
    <3>3. <<f.key, b.ext>> \notin seenKeys
      BY <1>1, <1>4, <3>2 DEF CleanFetch
    <3> QED
      BY <3>1, <3>2, <3>3 DEF IngestKey
  <2>4. g.current \notin g.queue
    BY <2>1, <2>3, IngestAssumption
  <2>5. \A b \in g.seen : b.conn \notin g.todo
    BY <1>1, <2>1, <2>3 DEF CleanFetch
  <2>6. \A a, b \in g.seen : (a.conn = b.conn /\ a.ext = b.ext) => a = b
    BY <1>1, <1>6, <2>1, <2>3 DEF CleanFetch
  <2>7. ASSUME NEW b \in g.seen
        PROVE  IF Waiting(g, j, b) THEN IngestKey(g.key, b) \notin seenKeys ELSE Shows(b)
    <3>1. CASE b \in BookingsAt(c)
      BY <2>1, <2>3, <3>1 DEF Waiting, IngestKey
    <3>2. CASE b \in f.seen
      <4>1. b \notin BookingsAt(c)
        BY <1>6, <2>3, <3>2
      <4>2. ~Waiting(g, j, b)
        BY <1>1, <2>1, <4>1 DEF Waiting
      <4> QED
        BY <1>6, <3>2, <4>2
    <3> QED
      BY <2>1, <3>1, <3>2
  <2>8. \A d \in g.todo : \A e \in NumbersOf[d] : <<g.key, e>> \notin seenKeys
    BY <1>1, <2>1 DEF CleanFetch
  <2>9. CleanFetch(g, j)
    BY <1>1, <2>4, <2>5, <2>6, <2>7, <2>8 DEF CleanFetch
  <2> QED
    BY <1>1, <1>3, <1>5, <2>9, CleanStays
<1> QED
  BY <1>4, <1>7, <1>8

(* A booking is taken from the queue: it goes on waiting, in its call.     *)
LEMMA CleanNext ==
  ASSUME StoresInv, NEW w \in Workers, CleanFetch(fetch[w], job[w]), IngestNext(w)
  PROVE  CleanFetch(fetch[w], job[w])'
<1>1. PICK f \in FetchRecord, j \in JobRecord :
        f = fetch[w] /\ j = job[w] /\ ToldFetch(f) /\ CleanFetch(f, j)
        /\ None \notin f.seen /\ f.current = None
  BY CleanFacts DEF IngestNext
<1>2. fetch \in [Workers -> FetchRecord] /\ job \in [Workers -> JobRecord]
  BY DEF StoresInv, FollowInv, FetchInv, FetchShape, StoreInv, TypeOK
<1>3. PICK b \in f.queue :
        /\ StartPersist(w, CallFor(b, f.key))
        /\ fetch' = [fetch EXCEPT ![w].current = b, ![w].queue = @ \ {b}]
  BY <1>1 DEF IngestNext, CallFor
<1>4. PICK g, i : g = fetch'[w] /\ i = job'[w]
  OBVIOUS
<1>5. UNCHANGED <<rows, seenKeys>> /\ i.pc = "check"
  BY <1>2, <1>3, <1>4 DEF StartPersist, IdleJob
<1>6. /\ g.todo = f.todo /\ g.queue = f.queue \ {b} /\ g.current = b
      /\ g.seen = f.seen /\ g.key = f.key
  BY <1>1, <1>2, <1>3, <1>4 DEF FetchRecord
<1>7. \A x \in f.seen : Waiting(g, i, x) <=> Waiting(f, j, x)
  BY <1>1, <1>5, <1>6 DEF Waiting
<1>8. CleanFetch(g, i)
  BY <1>1, <1>5, <1>6, <1>7 DEF CleanFetch, IngestKey
<1> QED
  BY <1>4, <1>5, <1>8, CleanStays

(* A call that ended returns, or the fetch moves on.                       *)
LEMMA CleanReturns ==
  ASSUME StoresInv, NEW w \in Workers, CleanFetch(fetch[w], job[w]),
         IngestReturns(w) \/ NextChannel(w) \/ FinishFetch(w)
  PROVE  CleanFetch(fetch[w], job[w])'
<1>1. PICK f \in FetchRecord, j \in JobRecord :
        f = fetch[w] /\ j = job[w] /\ CleanFetch(f, j) /\ ToldFetch(f)
        /\ None \notin f.seen /\ Serves(w)
  BY CleanFacts
<1>2. fetch \in [Workers -> FetchRecord] /\ job \in [Workers -> JobRecord]
  BY DEF StoresInv, FollowInv, FetchInv, FetchShape, StoreInv, TypeOK
<1>3. PICK g, i : g = fetch'[w] /\ i = job'[w]
  OBVIOUS
<1>4. UNCHANGED <<rows, seenKeys>>
  BY DEF IngestReturns, NextChannel, FinishFetch, Return, resVars
<1>5. /\ g.todo = f.todo /\ g.queue = f.queue /\ g.seen = f.seen /\ g.key = f.key
      /\ \/ g.current = f.current /\ i = j
         \/ g.current = None /\ j.pc = "done" /\ i.pc = "idle"
  <2>1. CASE IngestReturns(w)
    BY <1>1, <1>2, <1>3, <2>1 DEF IngestReturns, Return, IdleJob, FetchRecord
  <2>2. CASE NextChannel(w) \/ FinishFetch(w)
    BY <1>1, <1>2, <1>3, <2>2 DEF NextChannel, FinishFetch, resVars, FetchRecord
  <2> QED
    BY <2>1, <2>2
<1>6. \A x \in f.seen : Waiting(g, i, x) <=> Waiting(f, j, x)
  BY <1>1, <1>5 DEF Waiting
<1>7. g.current \notin g.queue
  BY <1>1, <1>5 DEF CleanFetch, ToldFetch
<1>8. CleanFetch(g, i)
  BY <1>1, <1>5, <1>6, <1>7 DEF CleanFetch, IngestKey
<1> QED
  BY <1>3, <1>4, <1>8, CleanStays

(* The call of a fetch nobody disturbs, whose booking is b, goes through   *)
(* its phases in order: no other caller has used its key or inserted its   *)
(* row, so it neither is a duplicate nor fails.                            *)
LEMMA CleanCall ==
  ASSUME DbMayFail = FALSE, StoresInv, NEW w \in Workers,
         CleanFetch(fetch[w], job[w]), ServiceStep(w),
         NEW b \in Pulled, b = fetch[w].current
  PROVE  /\ job'[w].call = job[w].call
         /\ \/ /\ job[w].pc = "check" /\ job'[w].pc = "lookup"
               /\ UNCHANGED <<rows, seenKeys>>
            \/ /\ job[w].pc = "lookup" /\ job'[w].pc = "write"
               /\ job'[w].found = 0 => External(b.conn, b.ext) = {}
               /\ UNCHANGED <<rows, seenKeys>>
            \/ /\ job[w].pc = "write" /\ job'[w].pc = "mark"
               /\ Shows(b)' /\ UNCHANGED seenKeys
            \/ /\ job[w].pc = "mark" /\ job'[w].pc = "publish"
               /\ seenKeys' = seenKeys \cup ({IngestKey(fetch[w].key, b)} \ {None})
               /\ UNCHANGED rows
            \/ /\ job[w].pc = "publish" /\ job'[w].pc = "done"
               /\ UNCHANGED <<rows, seenKeys>>
<1>1. PICK j \in JobRecord :
        /\ j = job[w] /\ j.call = CallFor(b, fetch[w].key) /\ j.id = 0
        /\ JobSound(j) /\ b \in fetch[w].seen /\ CleanFetch(fetch[w], j)
  BY CleanFacts, JobType, IngestAssumption DEF Serves, ToldFetch, StoresInv, FollowInv
<1>2. job \in [Workers -> JobRecord] /\ rows \in Seq(Row) /\ StoreInv
  BY DEF StoresInv, FollowInv, StoreInv, TypeOK
<1>3. /\ j.call.op = "ingest" /\ j.call.conn = b.conn /\ j.call.ext = b.ext
      /\ j.call.status = b.status /\ j.call.key = IngestKey(fetch[w].key, b)
      /\ b.conn # None /\ b.ext # None
  BY <1>1, ReservationAssumption DEF CallFor, Pulled
<1>4. j.pc \in {"check", "lookup", "write"} => j.call.key \notin seenKeys
  BY <1>1, <1>3 DEF CleanFetch, Waiting
<1>5. job'[w].call = job[w].call
  BY <1>1, <1>2, <1>3, IngestCallStep
<1>6. CASE CheckKey(w)
  BY <1>1, <1>2, <1>3, <1>4, <1>5, <1>6 DEF CheckKey, Goto, JobRecord
<1>7. CASE SaveLookup(w)
  <2>1. PICK m : /\ m = External(b.conn, b.ext)
                 /\ job' = [job EXCEPT ![w].pc = "write",
                             ![w].found = IF m = {} THEN 0 ELSE CHOOSE i \in m : TRUE]
    BY <1>1, <1>3, <1>7 DEF SaveLookup
  <2>2. m # {} => (CHOOSE i \in m : TRUE) \in m
    OBVIOUS
  <2>3. 0 \notin m
    BY <1>2, <2>1 DEF External
  <2>4. job'[w].pc = "write" /\ (job'[w].found = 0 => m = {})
    BY <1>1, <1>2, <2>1, <2>2, <2>3 DEF JobRecord
  <2> QED
    BY <1>1, <1>5, <1>7, <2>1, <2>4 DEF SaveLookup
<1>8. CASE SaveUpdates(w)
  <2>1. /\ j.pc = "write" /\ j.found \in DOMAIN rows
        /\ rows[j.found].conn = b.conn /\ rows[j.found].ext = b.ext
        /\ rows' = [rows EXCEPT ![j.found].status = b.status]
    BY <1>1, <1>3, <1>8 DEF SaveUpdates, JobSound, External
  <2>2. /\ j.found \in DOMAIN rows' /\ rows'[j.found].conn = b.conn
        /\ rows'[j.found].ext = b.ext /\ rows'[j.found].status = b.status
    <3>1. PICK n, s : n = j.found /\ s = b.status
      OBVIOUS
    <3>2. n \in DOMAIN rows /\ rows' = [rows EXCEPT ![n].status = s] /\ rows[n] \in Row
      BY <1>2, <2>1, <3>1
    <3>3. rows'[n] = [rows[n] EXCEPT !.status = s] /\ n \in DOMAIN rows'
      BY <1>2, <3>2
    <3>4. /\ rows'[n].conn = rows[n].conn /\ rows'[n].ext = rows[n].ext
          /\ rows'[n].status = s
      BY <3>2, <3>3 DEF Row
    <3> QED
      BY <2>1, <3>1, <3>3, <3>4
  <2>3. Shows(b)'
    BY <1>3, <2>2 DEF Shows, External
  <2>4. job'[w].pc = "mark"
    BY <1>1, <1>2, <1>3, <1>8 DEF SaveUpdates, AfterSave, JobRecord
  <2> QED
    BY <1>1, <1>5, <1>8, <2>1, <2>3, <2>4 DEF SaveUpdates
<1>9. CASE SaveInserts(w)
  <2>1. PICK r \in Row :
          /\ r.conn = b.conn /\ r.ext = b.ext /\ r.status = b.status
          /\ rows' = Append(rows, r)
    <3>1. PICK r : r = [conn |-> b.conn, ext |-> b.ext, status |-> b.status]
      OBVIOUS
    <3>2. r \in Row
      BY <3>1 DEF Row, Pulled
    <3> QED
      BY <1>1, <1>3, <1>9, <3>1, <3>2 DEF SaveInserts
  <2>2. PICK n : n = Len(rows) + 1 /\ n \in DOMAIN rows' /\ rows'[n] = r
    BY <1>2, <2>1
  <2>3. Shows(b)'
    BY <1>3, <2>1, <2>2 DEF Shows, External
  <2>4. job'[w].pc = "mark"
    BY <1>1, <1>2, <1>3, <1>9 DEF SaveInserts, AfterSave, JobRecord
  <2> QED
    BY <1>1, <1>5, <1>9, <2>3, <2>4 DEF SaveInserts
<1>10. ~SaveFails(w)
  <2>1. 0 \notin DOMAIN rows
    BY <1>2
  <2> QED
    BY <1>1, <1>3, <2>1 DEF SaveFails, InsertRefused, CleanFetch
<1>11. CASE MarkSeen(w)
  BY <1>1, <1>2, <1>3, <1>5, <1>11 DEF MarkSeen, Goto, JobRecord
<1>12. CASE Publish(w)
  BY <1>1, <1>2, <1>3, <1>5, <1>12 DEF Publish, Finish, JobRecord
<1>13. ~CancelRead(w) /\ ~CancelReread(w)
  BY <1>1, <1>3 DEF CancelRead, CancelReread, JobSound
<1> QED
  BY <1>6, <1>7, <1>8, <1>9, <1>10, <1>11, <1>12, <1>13 DEF ServiceStep

(* What the store shows of a fetch nobody disturbs, it goes on showing.    *)
LEMMA ShowsStays ==
  ASSUME StoresInv, NEW w \in Workers, CleanFetch(fetch[w], job[w]), ServiceStep(w),
         RowsGrow, NEW b \in Pulled, b = fetch[w].current,
         NEW a \in fetch[w].seen, Shows(a)
  PROVE  Shows(a)'
<1>1. PICK i \in DOMAIN rows :
        /\ a.conn # None /\ a.ext # None /\ rows[i].conn = a.conn
        /\ rows[i].ext = a.ext /\ rows[i].status = a.status
  BY DEF Shows, External
<1>2. i \in DOMAIN rows' /\ rows'[i].conn = a.conn /\ rows'[i].ext = a.ext
  BY <1>1 DEF RowsGrow
<1>3. /\ b \in fetch[w].seen /\ job[w].call = CallFor(b, fetch[w].key)
  BY CleanFacts, IngestAssumption DEF Serves, ToldFetch
<1>4. rows'[i].status = a.status
  <2>1. \/ rows'[i] = rows[i]
        \/ rows'[i].conn = b.conn /\ rows'[i].ext = b.ext /\ rows'[i].status = b.status
    BY <1>2, <1>3, IngestCallStep DEF CallFor, StoresInv, FollowInv
  <2>2. (a.conn = b.conn /\ a.ext = b.ext) => a = b
    BY <1>3 DEF CleanFetch
  <2> QED
    BY <1>1, <1>2, <2>1, <2>2
<1> QED
  BY <1>1, <1>2, <1>4 DEF Shows, External

(* Under one request key, a key of an ingest names one booking.            *)
LEMMA IngestKeyNames ==
  ASSUME KeysNameOneBooking, NEW k \in FetchKeys, NEW a \in Pulled, NEW b \in Pulled,
         a.ext \in NumbersOf[a.conn], b.ext \in NumbersOf[b.conn],
         IngestKey(k, a) = IngestKey(k, b), IngestKey(k, b) # None
  PROVE  a.conn = b.conn /\ a.ext = b.ext
<1>1. CallFor(a, k) \in IngestCalls /\ CallFor(b, k) \in IngestCalls
  BY DEF IngestCalls, CallFor
<1>2. PICK c, d \in Calls : c = CallFor(a, k) /\ d = CallFor(b, k)
  BY <1>1, IngestAssumption
<1>3. /\ c.conn = a.conn /\ c.ext = a.ext /\ c.key = IngestKey(k, a)
      /\ d.conn = b.conn /\ d.ext = b.ext /\ d.key = IngestKey(k, b)
  BY <1>2 DEF CallFor
<1> QED
  BY <1>2, <1>3 DEF KeysNameOneBooking

LEMMA CleanService ==
  ASSUME KeysNameOneBooking, DbMayFail = FALSE, StoresInv, NEW w \in Workers,
         CleanFetch(fetch[w], job[w]), ServiceStep(w), UNCHANGED fetchVars
  PROVE  CleanFetch(fetch[w], job[w])'
<1>1. PICK f \in FetchRecord, j \in JobRecord :
        f = fetch[w] /\ j = job[w] /\ CleanFetch(f, j) /\ ToldFetch(f)
        /\ f.seen \subseteq Pulled /\ None \notin f.seen /\ Serves(w)
  BY CleanFacts
<1>2. j.pc # "idle"
  BY <1>1 DEF ServiceStep, CheckKey, CancelRead, SaveLookup, SaveUpdates,
         SaveInserts, SaveFails, MarkSeen, Publish, CancelReread
<1>3. PICK b \in Pulled :
        /\ b = f.current /\ b \in f.seen /\ b \notin f.queue
        /\ j.call.conn = b.conn /\ j.call.ext = b.ext
  BY <1>1, <1>2 DEF Serves, ToldFetch, CallFor, CleanFetch
<1>4. PICK i : i = job'[w]
  OBVIOUS
<1>5. fetch'[w] = f
  BY <1>1 DEF fetchVars
<1>6. /\ i.call = j.call
      /\ \/ /\ j.pc = "check" /\ i.pc = "lookup" /\ UNCHANGED <<rows, seenKeys>>
         \/ /\ j.pc = "lookup" /\ i.pc = "write"
            /\ i.found = 0 => External(b.conn, b.ext) = {}
            /\ UNCHANGED <<rows, seenKeys>>
         \/ /\ j.pc = "write" /\ i.pc = "mark" /\ Shows(b)' /\ UNCHANGED seenKeys
         \/ /\ j.pc = "mark" /\ i.pc = "publish"
            /\ seenKeys' = seenKeys \cup ({IngestKey(f.key, b)} \ {None})
            /\ UNCHANGED rows
         \/ /\ j.pc = "publish" /\ i.pc = "done" /\ UNCHANGED <<rows, seenKeys>>
  BY <1>1, <1>3, <1>4, CleanCall
<1>7. ASSUME NEW a \in f.seen, Shows(a) PROVE Shows(a)'
  <2>1. RowsGrow
    BY StoreGrows DEF StoresInv, FollowInv
  <2> QED
    BY <1>1, <1>3, <1>7, <2>1, ShowsStays
<1>8. \A a \in f.seen : Waiting(f, i, a) => Waiting(f, j, a)
  BY <1>6 DEF Waiting
<1>9. ASSUME NEW a \in Pulled, a.ext \in NumbersOf[a.conn],
             IngestKey(f.key, a) \notin seenKeys, IngestKey(f.key, a) \in seenKeys'
      PROVE  j.pc = "mark" /\ i.pc = "publish" /\ a.conn = b.conn /\ a.ext = b.ext
  <2>1. /\ j.pc = "mark" /\ i.pc = "publish"
        /\ IngestKey(f.key, a) = IngestKey(f.key, b) /\ IngestKey(f.key, b) # None
    BY <1>6, <1>9
  <2>2. b.ext \in NumbersOf[b.conn] /\ f.key \in FetchKeys
    BY <1>1, <1>3 DEF ToldFetch, Told, FetchRecord
  <2> QED
    BY <1>9, <2>1, <2>2, IngestKeyNames
<1>10. ASSUME NEW a \in f.seen
       PROVE  /\ Waiting(f, i, a) => IngestKey(f.key, a) \notin seenKeys'
              /\ ~Waiting(f, i, a) => Shows(a)'
  <2>1. CASE Waiting(f, i, a)
    <3>1. IngestKey(f.key, a) \notin seenKeys
      BY <1>1, <1>8, <2>1 DEF CleanFetch
    <3>2. ~(i.pc = "publish" /\ a = b)
      BY <1>3, <2>1 DEF Waiting
    <3>3. (a.conn = b.conn /\ a.ext = b.ext) => a = b
      BY <1>1, <1>3 DEF CleanFetch
    <3>4. a \in Pulled /\ a.ext \in NumbersOf[a.conn]
      BY <1>1 DEF ToldFetch, Told
    <3> QED
      BY <1>9, <2>1, <3>1, <3>2, <3>3, <3>4
  <2>2. CASE ~Waiting(f, i, a)
    <3>1. CASE Waiting(f, j, a)
      <4>1. a = b /\ Shows(b)'
        BY <1>3, <1>6, <2>2, <3>1 DEF Waiting
      <4> QED
        BY <2>2, <4>1
    <3>2. CASE ~Waiting(f, j, a)
      <4>1. Shows(a)
        BY <1>1, <3>2 DEF CleanFetch
      <4> QED
        BY <1>7, <2>2, <4>1
    <3> QED
      BY <3>1, <3>2
  <2> QED
    BY <2>1, <2>2
<1>11. ASSUME NEW c \in f.todo, NEW e \in NumbersOf[c]
       PROVE  <<f.key, e>> \notin seenKeys'
  <2>1. PICK a : a = [conn |-> c, ext |-> e, status |-> "confirmed"]
    OBVIOUS
  <2>2. a \in Pulled /\ a.conn = c /\ a.ext = e /\ IngestKey(f.key, a) = <<f.key, e>>
    BY <1>1, <2>1, FetchAssumption DEF FetchRecord, Pulled, Statuses, IngestKey
  <2>3. <<f.key, e>> \notin seenKeys /\ b.conn # c
    BY <1>1, <1>3 DEF CleanFetch
  <2> QED
    BY <1>9, <2>2, <2>3
<1>12. (i.pc = "write" /\ i.found = 0) => External(i.call.conn, i.call.ext)' = {}
  <2>1. CASE i.pc = "write"
    BY <1>3, <1>6, <2>1 DEF External
  <2> QED
    BY <2>1
<1>13. /\ f.current \notin f.queue
       /\ \A a \in f.seen : a.conn \notin f.todo
       /\ \A a, x \in f.seen : (a.conn = x.conn /\ a.ext = x.ext) => a = x
  BY <1>1 DEF CleanFetch
<1>14. CleanFetch(f, i)'
  BY <1>10, <1>11, <1>12, <1>13 DEF CleanFetch, IngestKey, Waiting
<1> QED
  BY <1>4, <1>5, <1>14 DEF CleanFetch, Waiting, Shows, External, IngestKey

(* A fetch is alone until another one starts.                              *)
LEMMA LoneInvStep ==
  ASSUME KeysNameOneBooking, DbMayFail = FALSE, StoresInv, LoneInv, [FetchNext]_vars
  PROVE  LoneInv'
<1>1. fetch \in [Workers -> FetchRecord] /\ FollowInv
  BY DEF StoresInv, FollowInv, FetchInv, FetchShape
<1>2. KeysUsed'
  BY <1>1, KeysUsedStep DEF LoneInv
<1> SUFFICES ASSUME NEW w \in Workers, fetch'[w].alone, fetch'[w].fresh
             PROVE  /\ CleanFetch(fetch[w], job[w])'
                    /\ \A v \in Workers \ {w} : fetch'[v].pc = "idle"
  BY <1>2 DEF LoneInv
<1>3. ASSUME NEW u \in Workers, FetchStep(u)
      PROVE  /\ CleanFetch(fetch[w], job[w])'
             /\ \A v \in Workers \ {w} : fetch'[v].pc = "idle"
  <2>1. fetch[w].alone /\ fetch[w].fresh
    BY <1>1, <1>3, FetchMoves DEF IdleFetch
  <2>2. CleanFetch(fetch[w], job[w]) /\ \A v \in Workers \ {w} : fetch[v].pc = "idle"
    BY <2>1 DEF LoneInv
  <2>3. u = w
    BY <1>1, <1>3, <2>2, FetchMoves
  <2>4. \A v \in Workers \ {w} : fetch'[v].pc = "idle"
    BY <1>1, <1>3, <2>2, <2>3, FetchMoves
  <2>5. ~EndFetch(w)
    BY <1>1 DEF EndFetch, IdleFetch
  <2>6. CleanFetch(fetch[w], job[w])'
    BY <1>3, <2>2, <2>3, <2>5, CleanPull, CleanNext, CleanService, CleanReturns
    DEF FetchStep
  <2> QED
    BY <2>4, <2>6
<1>4. ASSUME NEW u \in Workers, NEW key \in FetchKeys, StartFetch(u, key)
      PROVE  /\ CleanFetch(fetch[w], job[w])'
             /\ \A v \in Workers \ {w} : fetch'[v].pc = "idle"
  <2>1. u = w
    <3>1. CASE u # w
      <4>1. fetch'[w] = [fetch[w] EXCEPT !.alone = FALSE] /\ fetch[w] \in FetchRecord
        BY <1>1, <1>4, <3>1 DEF StartFetch
      <4> QED
        BY <4>1 DEF FetchRecord
    <3> QED
      BY <3>1
  <2>2. PICK g \in FetchRecord :
          /\ g = fetch'[w] /\ g.key = key /\ g.todo \subseteq Connections
          /\ g.queue = {} /\ g.current = None /\ g.seen = {}
          /\ g.alone = (\A v \in Workers : fetch[v].pc = "idle")
          /\ g.fresh = (key \notin used)
    <3>1. PICK t, a, h : /\ t = {c \in Connections : active[c]}
                         /\ a = (\A v \in Workers : fetch[v].pc = "idle")
                         /\ h = (key \notin used)
      OBVIOUS
    <3>2. PICK g : g = [IdleFetch EXCEPT !.pc = "pull", !.key = key, !.todo = t,
                                         !.alone = a, !.fresh = h]
      OBVIOUS
    <3>3. fetch'[w] = g
      BY <1>4, <2>1, <3>1, <3>2 DEF StartFetch
    <3>4. /\ g.key = key /\ g.todo = t /\ g.queue = {} /\ g.current = None
          /\ g.seen = {} /\ g.alone = a /\ g.fresh = h
      BY <3>2 DEF IdleFetch
    <3>5. g \in FetchRecord
      BY <3>1, <3>2, IdleFetchType DEF FetchRecord, FetchPhases
    <3> QED
      BY <3>1, <3>3, <3>4, <3>5
  <2>3. key \notin used /\ \A v \in Workers : fetch[v].pc = "idle"
    BY <2>2
  <2>4. job[w].pc = "idle"
    BY <1>1, <2>3 DEF FollowInv, Serves
  <2>5. \A c \in g.todo : \A e \in NumbersOf[c] : <<key, e>> \notin seenKeys
    BY <2>2, <2>3, FetchAssumption DEF LoneInv, KeysUsed
  <2>6. CleanFetch(g, job[w])
    BY <2>2, <2>4, <2>5 DEF CleanFetch
  <2>7. UNCHANGED <<rows, seenKeys, job>>
    BY <1>4 DEF StartFetch, resVars
  <2>8. CleanFetch(fetch[w], job[w])'
    <3>1. PICK j : j = job[w] /\ job'[w] = j
      BY <2>7
    <3> QED
      BY <2>2, <2>6, <2>7, <3>1, CleanStays
  <2>9. ASSUME NEW v \in Workers \ {w} PROVE fetch'[v].pc = "idle"
    <3>1. fetch'[v] = [fetch[v] EXCEPT !.alone = FALSE] /\ fetch[v] \in FetchRecord
      BY <1>1, <1>4, <2>1, <2>9 DEF StartFetch
    <3> QED
      BY <2>3, <3>1 DEF FetchRecord
  <2> QED
    BY <2>8, <2>9
<1>5. ~FetchRestart
  BY DEF FetchRestart, IdleFetch
<1>6. CASE UNCHANGED <<rows, seenKeys, job, fetch>>
  <2>1. PICK f, j : f = fetch[w] /\ fetch'[w] = f /\ j = job[w] /\ job'[w] = j
    BY <1>6
  <2>2. CleanFetch(f, j) /\ \A v \in Workers \ {w} : fetch[v].pc = "idle"
    BY <2>1 DEF LoneInv
  <2> QED
    BY <1>6, <2>1, <2>2, CleanStays
<1> QED
  BY <1>3, <1>4, <1>5, <1>6
  DEF FetchNext, GuestActs, SetChannelState, vars, resVars, fetchVars

(* A fetch that overlaps no other, under a key this process has not seen,  *)
(* leaves the store as the channels showed themselves to it: every booking *)
(* stored, with its cancellation, whatever guests did meanwhile and other  *)
(* fetches and restarts before (fetchChannelReservations).                 *)
THEOREM LoneFetchUpdates ==
  ASSUME KeysNameOneBooking, DbMayFail = FALSE
  PROVE  FetchSpec => []LoneFetchBringsUpToDate
<1>1. FetchInit => LoneInv
  <2> SUFFICES ASSUME FetchInit PROVE LoneInv
    OBVIOUS
  <2>1. seenKeys = {} /\ fetch = [w \in Workers |-> IdleFetch]
    BY DEF FetchInit, ResInit
  <2>2. IdleFetch.alone = FALSE
    BY DEF IdleFetch
  <2> QED
    BY <2>1, <2>2, IdleFetchType DEF LoneInv, KeysUsed
<1>2. StoresInv /\ LoneInv => LoneFetchBringsUpToDate
  <2> SUFFICES ASSUME StoresInv, LoneInv, NEW w \in Workers, Finished(w),
                      fetch[w].alone, fetch[w].fresh
               PROVE  UpToDate(w)
    BY DEF LoneFetchBringsUpToDate
  <2>1. CleanFetch(fetch[w], job[w])
    BY DEF LoneInv
  <2>2. fetch[w].queue = {} /\ fetch[w].current = None /\ None \notin fetch[w].seen
    BY CleanFacts DEF Finished, Accounted
  <2>3. \A b \in fetch[w].seen : Shows(b)
    BY <2>1, <2>2 DEF CleanFetch, Waiting
  <2> QED
    BY <2>3 DEF UpToDate, Shows
<1>3. StoresInv /\ [FetchNext]_vars => StoresInv'
  BY StoresStep
<1>4. StoresInv /\ LoneInv /\ [FetchNext]_vars => LoneInv'
  BY LoneInvStep
<1> QED
  BY <1>1, <1>2, <1>3, <1>4, StoresInit, PTL DEF FetchSpec

-----------------------------------------------------------------------------
(***************************************************************************)
(* Cancellations under fetches that do not overlap.                        *)
(***************************************************************************)

NotCancelled(b) ==
  \A i \in DOMAIN rows :
    (rows[i].conn = b.conn /\ rows[i].ext = b.ext) => rows[i].status # "cancelled"

(* A fetch that overlaps no other is given each booking once, and what it  *)
(* was given as confirmed is not stored as cancelled.                      *)
Steady(f) ==
  /\ \A b \in f.seen : b.conn \notin f.todo
  /\ \A a, b \in f.seen : (a.conn = b.conn /\ a.ext = b.ext) => a = b
  /\ \A b \in f.seen : b.status = "confirmed" => NotCancelled(b)

SteadyInv ==
  \A w \in Workers : fetch[w].alone =>
    /\ Steady(fetch[w])
    /\ \A v \in Workers \ {w} : fetch[v].pc = "idle"

LEMMA SteadyPull ==
  ASSUME FollowInv, NEW w \in Workers, PullChannel(w), Steady(fetch[w])
  PROVE  Steady(fetch[w])'
<1>1. fetch[w] \in FetchRecord /\ fetch \in [Workers -> FetchRecord] /\ UNCHANGED rows
  BY DEF FollowInv, FetchInv, FetchShape, PullChannel, resVars
<1>2. ASSUME NEW c \in fetch[w].todo,
             fetch' = [fetch EXCEPT ![w].pc = "ingest", ![w].todo = @ \ {c},
                                    ![w].queue = BookingsAt(c),
                                    ![w].seen = @ \cup BookingsAt(c)]
      PROVE  Steady(fetch[w])'
  <2>1. /\ fetch'[w].todo = fetch[w].todo \ {c}
        /\ fetch'[w].seen = fetch[w].seen \cup BookingsAt(c)
    BY <1>1, <1>2 DEF FetchRecord
  <2>2. \A b \in fetch[w].seen : b.conn # c
    BY <1>2 DEF Steady
  <2>3. \A b \in BookingsAt(c) :
          b.conn = c /\ b.ext \in Externals /\ b.status = ota[c][b.ext]
          /\ b = [conn |-> c, ext |-> b.ext, status |-> b.status]
    BY DEF BookingsAt
  <2>4. ASSUME NEW b \in BookingsAt(c), b.status = "confirmed" PROVE NotCancelled(b)
    BY <2>3, <2>4 DEF NotCancelled, FollowInv, StoreFollowsChannels
  <2>5. ASSUME NEW a \in fetch'[w].seen, NEW b \in fetch'[w].seen,
               a.conn = b.conn, a.ext = b.ext
        PROVE  a = b
    <3>1. CASE a \in fetch[w].seen /\ b \in fetch[w].seen
      BY <2>5, <3>1 DEF Steady
    <3>2. CASE a \in BookingsAt(c) /\ b \in BookingsAt(c)
      BY <2>3, <2>5, <3>2
    <3> QED
      BY <2>1, <2>2, <2>3, <2>5, <3>1, <3>2
  <2>6. \A b \in fetch'[w].seen : b.conn \notin fetch'[w].todo
    BY <2>1, <2>3 DEF Steady
  <2>7. \A b \in fetch'[w].seen : b.status = "confirmed" => NotCancelled(b)'
    BY <1>1, <2>1, <2>4 DEF Steady, NotCancelled
  <2> QED
    BY <2>5, <2>6, <2>7 DEF Steady, NotCancelled
<1>3. ASSUME NEW c, fetch' = [fetch EXCEPT ![w].todo = @ \ {c}]
      PROVE  Steady(fetch[w])'
  <2>1. fetch'[w].todo = fetch[w].todo \ {c} /\ fetch'[w].seen = fetch[w].seen
    BY <1>1, <1>3 DEF FetchRecord
  <2> QED
    BY <1>1, <2>1 DEF Steady, NotCancelled
<1> QED
  BY <1>2, <1>3 DEF PullChannel

(* What the call of a fetch changes in the table.                          *)
LEMMA FetchWrites ==
  ASSUME FollowInv, NEW w \in Workers, ServiceStep(w)
  PROVE  \E b \in fetch[w].seen :
           \A i \in DOMAIN rows' :
             \/ i \in DOMAIN rows /\ rows'[i] = rows[i]
             \/ /\ rows'[i].conn = b.conn /\ rows'[i].ext = b.ext
                /\ rows'[i].status = b.status
<1>1. Serves(w) /\ StoreInv /\ ToldFetch(fetch[w])
  BY DEF FollowInv, FetchInv
<1>2. job[w].pc # "idle"
  BY DEF ServiceStep, CheckKey, CancelRead, SaveLookup, SaveUpdates, SaveInserts,
         SaveFails, MarkSeen, Publish, CancelReread
<1>3. PICK b : b = fetch[w].current /\ b \in fetch[w].seen
               /\ job[w].call = CallFor(b, fetch[w].key)
  BY <1>1, <1>2 DEF Serves, ToldFetch
<1>4. /\ job[w].call.op = "ingest" /\ job[w].call.conn = b.conn
      /\ job[w].call.ext = b.ext /\ job[w].call.status = b.status
  BY <1>3 DEF CallFor
<1> QED
  BY <1>1, <1>3, <1>4, IngestCallStep

LEMMA SteadyInvStep == FollowInv /\ SteadyInv /\ [FetchNext]_vars => SteadyInv'
<1> SUFFICES ASSUME FollowInv, SteadyInv, [FetchNext]_vars,
                    NEW w \in Workers, fetch'[w].alone
             PROVE  /\ Steady(fetch[w])'
                    /\ \A v \in Workers \ {w} : fetch'[v].pc = "idle"
  BY DEF SteadyInv
<1>1. fetch \in [Workers -> FetchRecord] /\ fetch[w] \in FetchRecord
  BY DEF FollowInv, FetchInv, FetchShape
<1>2. ASSUME NEW u \in Workers, FetchStep(u)
      PROVE  /\ Steady(fetch[w])'
             /\ \A v \in Workers \ {w} : fetch'[v].pc = "idle"
  <2>1. fetch[w].alone
    BY <1>1, <1>2, FetchMoves DEF IdleFetch
  <2>2. Steady(fetch[w]) /\ \A v \in Workers \ {w} : fetch[v].pc = "idle"
    BY <2>1 DEF SteadyInv
  <2>3. u = w
    BY <1>1, <1>2, <2>2, FetchMoves
  <2>4. \A v \in Workers \ {w} : fetch'[v].pc = "idle"
    BY <1>1, <1>2, <2>2, <2>3, FetchMoves
  <2>5. CASE PullChannel(w)
    BY <2>2, <2>4, <2>5, SteadyPull
  <2>6. CASE ServiceStep(w) /\ UNCHANGED fetchVars
    <3>1. PICK b \in fetch[w].seen :
            \A i \in DOMAIN rows' :
              \/ i \in DOMAIN rows /\ rows'[i] = rows[i]
              \/ /\ rows'[i].conn = b.conn /\ rows'[i].ext = b.ext
                 /\ rows'[i].status = b.status
      BY <2>6, FetchWrites
    <3>2. UNCHANGED fetch
      BY <2>6 DEF fetchVars
    <3>3. ASSUME NEW a \in fetch[w].seen, a.status = "confirmed"
          PROVE  NotCancelled(a)'
      <4>1. NotCancelled(a)
        BY <2>2, <3>3 DEF Steady
      <4>2. (a.conn = b.conn /\ a.ext = b.ext) => a = b
        BY <2>2 DEF Steady
      <4> QED
        BY <3>1, <3>3, <4>1, <4>2 DEF NotCancelled
    <3> QED
      BY <2>2, <2>4, <3>2, <3>3 DEF Steady
  <2>7. CASE IngestNext(w) \/ IngestReturns(w) \/ NextChannel(w) \/ FinishFetch(w)
    <3>1. UNCHANGED rows
      BY <2>7 DEF IngestNext, IngestReturns, NextChannel, FinishFetch, StartPersist,
         Return, resVars
    <3>2. fetch'[w].seen = fetch[w].seen /\ fetch'[w].todo = fetch[w].todo
      <4>1. CASE IngestNext(w)
        <5>1. PICK b, q : fetch' = [fetch EXCEPT ![w].current = b, ![w].queue = q]
          BY <4>1 DEF IngestNext
        <5> QED
          BY <1>1, <5>1 DEF FetchRecord
      <4>2. CASE IngestReturns(w)
        BY <1>1, <4>2 DEF IngestReturns, FetchRecord
      <4>3. CASE NextChannel(w) \/ FinishFetch(w)
        <5>1. PICK pc : fetch' = [fetch EXCEPT ![w].pc = pc]
          BY <4>3 DEF NextChannel, FinishFetch
        <5> QED
          BY <1>1, <5>1 DEF FetchRecord
      <4> QED
        BY <2>7, <4>1, <4>2, <4>3
    <3> QED
      BY <2>2, <2>4, <3>1, <3>2 DEF Steady, NotCancelled
  <2>8. ~EndFetch(w)
    BY <1>1 DEF EndFetch, IdleFetch
  <2> QED
    BY <1>2, <2>3, <2>5, <2>6, <2>7, <2>8 DEF FetchStep
<1>3. ASSUME NEW u \in Workers, NEW key \in FetchKeys, StartFetch(u, key)
      PROVE  /\ Steady(fetch[w])'
             /\ \A v \in Workers \ {w} : fetch'[v].pc = "idle"
  <2>1. u = w
    <3>1. CASE u # w
      <4>1. fetch'[w] = [fetch[w] EXCEPT !.alone = FALSE]
        BY <1>1, <1>3, <3>1 DEF StartFetch
      <4> QED
        BY <1>1, <4>1 DEF FetchRecord
    <3> QED
      BY <3>1
  <2>2. PICK a : a = \A v \in Workers : fetch[v].pc = "idle"
    OBVIOUS
  <2>3. PICK t, h : t = {c \in Connections : active[c]} /\ h = (key \notin used)
    OBVIOUS
  <2>4. PICK g : g = [IdleFetch EXCEPT !.pc = "pull", !.key = key, !.todo = t,
                                       !.alone = a, !.fresh = h]
    OBVIOUS
  <2>5. fetch'[w] = g
    BY <1>3, <2>1, <2>2, <2>3, <2>4 DEF StartFetch
  <2>6. g.seen = {} /\ g.alone = a
    BY <2>4 DEF IdleFetch
  <2>7. Steady(fetch[w])'
    BY <2>5, <2>6 DEF Steady
  <2>8. ASSUME NEW v \in Workers \ {w} PROVE fetch'[v].pc = "idle"
    <3>1. fetch'[v] = [fetch[v] EXCEPT !.alone = FALSE] /\ fetch[v] \in FetchRecord
      BY <1>1, <1>3, <2>1, <2>8 DEF StartFetch
    <3>2. fetch[v].pc = "idle"
      BY <2>2, <2>5, <2>6
    <3> QED
      BY <3>1, <3>2 DEF FetchRecord
  <2> QED
    BY <2>7, <2>8
<1>4. ~FetchRestart
  BY DEF FetchRestart, IdleFetch
<1>5. CASE UNCHANGED <<rows, fetch>>
  BY <1>5 DEF SteadyInv, Steady, NotCancelled
<1> QED
  BY <1>2, <1>3, <1>4, <1>5
  DEF FetchNext, GuestActs, SetChannelState, vars, resVars, fetchVars

(* A cancelled row goes back to confirmed only by the write of a fetch     *)
(* that overlaps another one.                                              *)
LEMMA CancelledStaysStep ==
  ASSUME FollowInv, SteadyInv, [FetchNext]_vars, NEW i \in DOMAIN rows,
         rows[i].status = "cancelled", rows'[i].status # "cancelled"
  PROVE  \E w \in Workers : /\ job[w].pc = "write" /\ job[w].found = i
                            /\ ~fetch[w].alone
<1>1. rows \in Seq(Row) /\ StoreInv
  BY DEF FollowInv, StoreInv, TypeOK
<1>2. PICK w \in Workers : ServiceStep(w)
  <2>1. rows' # rows
    OBVIOUS
  <2> QED
    BY <2>1 DEF FetchNext, FetchStep, GuestActs, SetChannelState, StartFetch,
       PullChannel, IngestNext, IngestReturns, NextChannel, FinishFetch, EndFetch,
       FetchRestart, Restart, StartPersist, Return, vars, resVars
<1>3. job[w].pc = "write" /\ job[w].found = i
  <2>1. CASE SaveInserts(w)
    <3>1. PICK r : rows' = Append(rows, r)
      BY <2>1 DEF SaveInserts
    <3>2. rows'[i] = rows[i]
      BY <1>1, <3>1
    <3> QED
      BY <3>2
  <2>2. CASE SaveUpdates(w)
    <3>1. PICK s : rows' = [rows EXCEPT ![job[w].found].status = s]
      BY <2>2 DEF SaveUpdates
    <3>2. job[w].found # i => rows'[i] = rows[i]
      BY <1>1, <3>1
    <3> QED
      BY <2>2, <3>2 DEF SaveUpdates
  <2>3. CASE UNCHANGED rows
    BY <2>3
  <2> QED
    BY <1>2, <2>1, <2>2, <2>3
    DEF ServiceStep, CheckKey, CancelRead, SaveLookup, SaveFails, MarkSeen, Publish,
        CancelReread
<1>4. ASSUME fetch[w].alone PROVE FALSE
  <2>1. i \in DOMAIN rows' /\ rows'[i].conn = rows[i].conn /\ rows'[i].ext = rows[i].ext
    BY <1>1, <1>2, StoreGrows DEF RowsGrow
  <2>2. PICK b \in fetch[w].seen : /\ rows'[i].conn = b.conn /\ rows'[i].ext = b.ext
                                   /\ rows'[i].status = b.status
    BY <1>2, <2>1, FetchWrites
  <2>3. b.status \in Statuses
    BY FetchType DEF FollowInv, FetchRecord, Pulled
  <2>4. b.status = "confirmed"
    BY <2>2, <2>3 DEF Statuses
  <2>5. NotCancelled(b)
    BY <1>4, <2>4 DEF SteadyInv, Steady
  <2> QED
    BY <2>1, <2>2, <2>5 DEF NotCancelled
<1> QED
  BY <1>3, <1>4

(* A cancellation the store has taken over is not lost while fetches do    *)
(* not overlap, whichever saves fail and whatever keys they carry: a fetch *)
(* by itself stores nothing older than the cancellation.                   *)
THEOREM CancellationsStay == FetchSpec => CancelledStays
<1>1. FetchInit => SteadyInv
  BY DEF FetchInit, SteadyInv, IdleFetch
<1>2. FollowInv /\ SteadyInv /\ [FetchNext]_vars
        => [\A i \in DOMAIN rows :
              (rows[i].status = "cancelled" /\ rows'[i].status # "cancelled")
                => \E w \in Workers : /\ job[w].pc = "write" /\ job[w].found = i
                                     /\ ~fetch[w].alone]_vars
  BY CancelledStaysStep
<1> QED
  BY <1>1, <1>2, FollowInvariant, SteadyInvStep, PTL DEF FetchSpec, CancelledStays
=============================================================================
