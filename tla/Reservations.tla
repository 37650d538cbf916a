---------------------------- MODULE Reservations ----------------------------
(***************************************************************************)
(* The canonical reservation store: ReservationService over its Postgres   *)
(* repository (table reservations.reservations), inside one process that   *)
(* serves requests concurrently.                                           *)
(*                                                                         *)
(* A worker of Workers is one goroutine.  job[w] is the service call it    *)
(* runs: IngestReservation and RecordReservation (both persist, only the   *)
(* first one notifies the PMS) and CancelReservation.  Each SQL statement, *)
(* each access of the in-memory key set and the webhook is one step, so    *)
(* calls of different workers interleave at every place where the code     *)
(* gives up the processor.  A transaction reads committed rows and its     *)
(* write is the step that commits.                                         *)
(*                                                                         *)
(* The model is of one organisation: every statement runs under its row    *)
(* level security policy.                                                  *)
(***************************************************************************)
EXTENDS Integers, Sequences, FiniteSets

CONSTANTS
  Workers,       (* goroutines that call the service                       *)
  Connections,   (* channel connection ids                                 *)
  Externals,     (* confirmation numbers of channels and of the PMS        *)
  Keys,          (* idempotency keys                                       *)
  None,          (* empty string, SQL NULL: no connection, number or key   *)
  Calls,         (* the persist calls workers may make (see CallRecord)    *)
  DbMayFail,     (* the database or the webhook may fail                   *)
  MaxRows,       (* bound: reservation rows ever inserted                  *)
  MaxRestarts    (* bound: restarts of the process                         *)

Statuses == {"confirmed", "cancelled"}
Operations == {"ingest", "record", "cancel"}

CallRecord ==
  [ op     : Operations,
    conn   : Connections \cup {None},
    ext    : Externals \cup {None},
    status : Statuses,
    key    : Keys \cup {None} ]

ASSUME ReservationAssumption ==
  /\ None \notin Connections /\ None \notin Externals /\ None \notin Keys
  /\ Calls \subseteq CallRecord
  /\ \A c \in Calls : c.op # "cancel"
  /\ DbMayFail \in BOOLEAN
  /\ MaxRows \in Nat
  /\ MaxRestarts \in Nat

VARIABLES
  rows,       (* rows[i]: the reservation with id i; rows are never deleted *)
  seenKeys,   (* ReservationService.seenKeys: in memory, lost at a restart  *)
  job,        (* job[w]: the service call worker w runs                     *)
  notified,   (* the reservation.created webhooks sent, heard or not        *)
  restarts    (* restarts so far (bound)                                    *)

resVars == <<rows, seenKeys, job, notified, restarts>>

-----------------------------------------------------------------------------
Row == [conn : Connections \cup {None}, ext : Externals \cup {None},
        status : Statuses]

Phases == {"idle", "check", "read", "lookup", "write", "mark", "publish",
           "reread", "done"}
Outcomes == {"none", "saved", "duplicate", "cancelled", "error"}

(* id is the row a cancellation names, 0 for a fresh uuid; found is the    *)
(* row GetReservationByExternal returned, 0 for no row; returned is the id *)
(* the caller gets, 0 when no row carries it.                              *)
JobRecord == [pc : Phases, call : CallRecord, id : Nat, found : Nat,
              outcome : Outcomes, returned : Nat]

NoCall == [op |-> "record", conn |-> None, ext |-> None,
           status |-> "confirmed", key |-> None]
IdleJob == [pc |-> "idle", call |-> NoCall, id |-> 0, found |-> 0,
            outcome |-> "none", returned |-> 0]

(* The rows GetReservationByExternal selects: a NULL column equals nothing. *)
External(conn, ext) ==
  {i \in DOMAIN rows : /\ conn # None /\ ext # None
                       /\ rows[i].conn = conn /\ rows[i].ext = ext}

(* Mutant: the table without its partial unique index.                     *)
InsertRefusedByKeyOnly(c, id) == id \in DOMAIN rows

(* What makes INSERT fail: the primary key, and the unique index on        *)
(* (org_id, channel_connection_id, external_id) where neither is NULL.     *)
InsertRefused(c, id) == id \in DOMAIN rows \/ External(c.conn, c.ext) # {}

-----------------------------------------------------------------------------
ResInit ==
  /\ rows = <<>>
  /\ seenKeys = {}
  /\ job = [w \in Workers |-> IdleJob]
  /\ notified = {}
  /\ restarts = 0

Goto(w, phase) == job' = [job EXCEPT ![w].pc = phase]

Finish(w, outcome, returned) ==
  job' = [job EXCEPT ![w].pc = "done", ![w].outcome = outcome,
                     ![w].returned = returned]

(* A worker enters IngestReservation or RecordReservation.                 *)
StartPersist(w, c) ==
  /\ job[w].pc = "idle"
  /\ Len(rows) + Cardinality({v \in Workers : job[v].pc # "idle"}) < MaxRows
  /\ job' = [job EXCEPT ![w] = [IdleJob EXCEPT !.pc = "check", !.call = c]]
  /\ UNCHANGED <<rows, seenKeys, notified, restarts>>

(* A worker enters CancelReservation for the reservation with id i.        *)
StartCancel(w, i) ==
  /\ job[w].pc = "idle"
  /\ job' = [job EXCEPT ![w] =
               [IdleJob EXCEPT !.pc = "read", !.id = i, !.call.op = "cancel"]]
  /\ UNCHANGED <<rows, seenKeys, notified, restarts>>

(* Mutant: persist remembers the key when it checks it, before Save.       *)
CheckAndMarkKey(w) ==
  /\ job[w].pc = "check"
  /\ LET key == job[w].call.key IN
       IF key # None /\ key \in seenKeys
       THEN Finish(w, "duplicate", 0)
       ELSE Goto(w, "lookup")
  /\ seenKeys' = seenKeys \cup ({job[w].call.key} \ {None})
  /\ UNCHANGED <<rows, notified, restarts>>

(* persist: a key this process has seen is answered ErrDuplicateRequest.   *)
CheckKey(w) ==
  /\ job[w].pc = "check"
  /\ LET key == job[w].call.key IN
       IF key # None /\ key \in seenKeys
       THEN Finish(w, "duplicate", 0)
       ELSE Goto(w, "lookup")
  /\ UNCHANGED <<rows, seenKeys, notified, restarts>>

(* UpdateStatus reads the whole reservation and will save all of it again, *)
(* with the new status and the same id.                                    *)
CancelRead(w) ==
  /\ job[w].pc = "read"
  /\ LET i == job[w].id IN
       IF i \notin DOMAIN rows
       THEN Finish(w, "error", 0)
       ELSE job' = [job EXCEPT ![w].pc = "lookup",
                 ![w].call = [job[w].call EXCEPT !.conn = rows[i].conn,
                                !.ext = rows[i].ext, !.status = "cancelled"]]
  /\ UNCHANGED <<rows, seenKeys, notified, restarts>>

(* Repository.Save: the SELECT, skipped without a connection and number.   *)
SaveLookup(w) ==
  /\ job[w].pc = "lookup"
  /\ LET matches == External(job[w].call.conn, job[w].call.ext) IN
       job' = [job EXCEPT ![w].pc = "write",
                 ![w].found = IF matches = {} THEN 0
                              ELSE CHOOSE i \in matches : TRUE]
  /\ UNCHANGED <<rows, seenKeys, notified, restarts>>

AfterSave(w) == IF job[w].call.op = "cancel" THEN "reread" ELSE "mark"

(* Repository.Save found a row: UPDATE it.  The caller still gets the id   *)
(* Save drew, which is the row's only when the call named the row.         *)
SaveUpdates(w) ==
  /\ job[w].pc = "write"
  /\ job[w].found # 0
  /\ rows' = [rows EXCEPT ![job[w].found].status = job[w].call.status]
  /\ \/ job' = [job EXCEPT ![w].pc = AfterSave(w), ![w].returned = job[w].id]
     \/ DbMayFail /\ Finish(w, "error", 0)
  /\ UNCHANGED <<seenKeys, notified, restarts>>

(* Repository.Save found none: INSERT under the drawn or the given id.     *)
SaveInserts(w) ==
  /\ job[w].pc = "write"
  /\ job[w].found = 0
  /\ ~InsertRefused(job[w].call, job[w].id)
  /\ rows' = Append(rows, [conn |-> job[w].call.conn, ext |-> job[w].call.ext,
                           status |-> job[w].call.status])
  /\ \/ job' = [job EXCEPT ![w].pc = AfterSave(w),
                           ![w].returned = Len(rows) + 1]
     \/ DbMayFail /\ Finish(w, "error", 0)
  /\ UNCHANGED <<seenKeys, notified, restarts>>

(* Mutant: persist goes on when Save fails.                                *)
SaveFailsUnnoticed(w) ==
  /\ \/ /\ job[w].pc = "write"
        /\ job[w].found = 0
        /\ InsertRefused(job[w].call, job[w].id)
     \/ /\ job[w].pc \in {"read", "lookup", "write", "reread"}
        /\ DbMayFail
  /\ Goto(w, "mark")
  /\ UNCHANGED <<rows, seenKeys, notified, restarts>>

(* The INSERT is refused, or any statement fails: the transaction rolls    *)
(* back and the caller gets an error.                                      *)
SaveFails(w) ==
  /\ \/ /\ job[w].pc = "write"
        /\ job[w].found = 0
        /\ InsertRefused(job[w].call, job[w].id)
     \/ /\ job[w].pc \in {"read", "lookup", "write", "reread"}
        /\ DbMayFail
  /\ Finish(w, "error", 0)
  /\ UNCHANGED <<rows, seenKeys, notified, restarts>>

(* Mutant: the keys of recorded reservations are not remembered.           *)
MarkIngestSeen(w) ==
  /\ job[w].pc = "mark"
  /\ IF job[w].call.op = "ingest"
     THEN /\ seenKeys' = seenKeys \cup ({job[w].call.key} \ {None})
          /\ Goto(w, "publish")
     ELSE Finish(w, "saved", job[w].returned) /\ UNCHANGED seenKeys
  /\ UNCHANGED <<rows, notified, restarts>>

(* persist: remember the key, then publish only for IngestReservation.     *)
MarkSeen(w) ==
  /\ job[w].pc = "mark"
  /\ seenKeys' = seenKeys \cup ({job[w].call.key} \ {None})
  /\ IF job[w].call.op = "ingest"
     THEN Goto(w, "publish")
     ELSE Finish(w, "saved", job[w].returned)
  /\ UNCHANGED <<rows, notified, restarts>>

(* PublishReservationCreated: persist discards its error, and nothing      *)
(* tries again.                                                            *)
Publish(w) ==
  /\ job[w].pc = "publish"
  /\ LET c == job[w].call IN
       \E heard \in {TRUE, ~DbMayFail} :
         notified' = notified \cup
           {[conn |-> c.conn, ext |-> c.ext, op |-> c.op, heard |-> heard]}
  /\ Finish(w, "saved", job[w].returned)
  /\ UNCHANGED <<rows, seenKeys, restarts>>

(* CancelReservation reads the row back for its answer.                    *)
CancelReread(w) ==
  /\ job[w].pc = "reread"
  /\ Finish(w, "cancelled", job[w].id)
  /\ UNCHANGED <<rows, seenKeys, notified, restarts>>

ServiceStep(w) ==
  \/ CheckKey(w)
  \/ CancelRead(w)
  \/ SaveLookup(w)
  \/ SaveUpdates(w)
  \/ SaveInserts(w)
  \/ SaveFails(w)
  \/ MarkSeen(w)
  \/ Publish(w)
  \/ CancelReread(w)

(* The caller takes the answer.                                            *)
Return(w) ==
  /\ job[w].pc = "done"
  /\ job' = [job EXCEPT ![w] = IdleJob]
  /\ UNCHANGED <<rows, seenKeys, notified, restarts>>

(* Mutant: the remembered keys survive the process.                        *)
RestartKeepsKeys ==
  /\ restarts < MaxRestarts
  /\ restarts' = restarts + 1
  /\ job' = [w \in Workers |-> IdleJob]
  /\ UNCHANGED <<rows, seenKeys, notified>>

(* The process stops and starts again: calls in flight die where they are, *)
(* the in-memory key set is empty, the rows stay.  A fatal "concurrent map *)
(* writes" of seenKeys, which no lock guards, is this step as well.        *)
Restart ==
  /\ restarts < MaxRestarts
  /\ restarts' = restarts + 1
  /\ seenKeys' = {}
  /\ job' = [w \in Workers |-> IdleJob]
  /\ UNCHANGED <<rows, notified>>

ResNext ==
  \/ \E w \in Workers :
       \/ \E c \in Calls : StartPersist(w, c)
       \/ \E i \in 1..MaxRows : StartCancel(w, i)
       \/ ServiceStep(w)
       \/ Return(w)
  \/ Restart

ResSpec == ResInit /\ [][ResNext]_resVars

-----------------------------------------------------------------------------
(* Properties.                                                             *)

(* The rows, keys, calls and notifications have the shapes the code gives  *)
(* them, and a call that waits for its transaction's write has an outcome  *)
(* only after it (types of service.go and repo.go).                        *)
TypeOK ==
  /\ rows \in Seq(Row)
  /\ seenKeys \subseteq Keys
  /\ job \in [Workers -> JobRecord]
  /\ notified \subseteq [conn : Connections \cup {None},
                         ext : Externals \cup {None}, op : Operations,
                         heard : BOOLEAN]
  /\ restarts \in Nat

Stored(conn, ext) ==
  \E i \in DOMAIN rows : rows[i].conn = conn /\ rows[i].ext = ext

(* A channel's confirmation number names at most one reservation, however  *)
(* the SELECT and the INSERT of concurrent Save calls interleave.          *)
UniqueExternal ==
  \A i, j \in DOMAIN rows :
    (/\ rows[i].conn = rows[j].conn /\ rows[i].ext = rows[j].ext
     /\ rows[i].conn # None /\ rows[i].ext # None) => i = j

(* Callers that use a key for one booking only.                            *)
KeysNameOneBooking ==
  \A c, d \in Calls :
    (c.key = d.key /\ c.key # None) => (c.conn = d.conn /\ c.ext = d.ext)

(* ErrDuplicateRequest is the truth: a caller that is told its request was *)
(* already processed finds the reservation stored, also after failed       *)
(* saves, restarts and concurrent calls under the same key.                *)
DuplicateMeansRecorded ==
  \A w \in Workers :
    (job[w].pc = "done" /\ job[w].outcome = "duplicate")
      => Stored(job[w].call.conn, job[w].call.ext)

(* The PMS hears of a reservation only after it is stored: a webhook never *)
(* announces a booking whose save failed or was lost.                      *)
NotificationsBacked ==
  \A n \in notified : n.heard => Stored(n.conn, n.ext)

(* A booking recorded because the PMS already has it is never published    *)
(* back (the PMS would create it a second time).                           *)
RecordedNeverPublished ==
  \A n \in notified : n.op # "record"

(* Callers that keep ingests and records under keys of their own.          *)
KeysNameOneOperation ==
  \A c, d \in Calls : (c.key = d.key /\ c.key # None) => c.op = d.op

Announced(conn, ext) == \E n \in notified : n.conn = conn /\ n.ext = ext

(* An ingest answered as a duplicate was announced to the PMS, or the call *)
(* that stored it is about to: a process that stops between the mark and   *)
(* the webhook forgets the key too, so the retry announces the booking.    *)
(* Only a webhook that fails is never repeated.                            *)
DuplicateMeansAnnounced ==
  \A w \in Workers :
    LET c == job[w].call IN
      (job[w].pc = "done" /\ job[w].outcome = "duplicate" /\ c.op = "ingest")
        => \/ Announced(c.conn, c.ext)
           \/ \E v \in Workers : /\ job[v].pc = "publish"
                                /\ job[v].call.conn = c.conn
                                /\ job[v].call.ext = c.ext

(* CancelReservation "marks a reservation cancelled": when no statement    *)
(* fails, only a reservation that does not exist cannot be cancelled.      *)
CancelFailsOnlyForMissingRow ==
  \A w \in Workers :
    (job[w].pc = "done" /\ job[w].call.op = "cancel"
       /\ job[w].outcome = "error") => job[w].id \notin DOMAIN rows
=============================================================================
