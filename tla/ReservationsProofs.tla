------------------------- MODULE ReservationsProofs -------------------------
(***************************************************************************)
(* Proofs about Reservations for every set of workers, connections,        *)
(* confirmation numbers, keys and persist calls, with or without database  *)
(* failures, and every number of rows and restarts.                        *)
(***************************************************************************)
EXTENDS RepeatedRecords, TLAPS

(* What a service call knows of the table at each of its phases.           *)
JobSound(j) ==
  /\ (j.pc \in {"check", "lookup", "write", "mark", "publish", "done"}
        /\ j.call.op # "cancel") => j.call \in Calls
  /\ j.pc \in {"check", "mark", "publish"} => j.call.op # "cancel"
  /\ j.pc \in {"read", "reread"} => j.call.op = "cancel"
  /\ j.pc = "publish" => j.call.op = "ingest"
  /\ j.pc \in {"mark", "publish"} => Stored(j.call.conn, j.call.ext)
  /\ (KeysNameOneBooking /\ j.pc = "done" /\ j.outcome = "duplicate")
       => Stored(j.call.conn, j.call.ext)
  /\ (j.pc = "write" /\ j.found # 0)
       => j.found \in External(j.call.conn, j.call.ext)
  /\ (j.pc \in {"lookup", "write"} /\ j.call.op = "cancel")
       => j.id \in DOMAIN rows

(* A remembered key stands for stored reservations.                        *)
SeenBacked ==
  KeysNameOneBooking => \A c \in Calls :
    (c.key # None /\ c.key \in seenKeys) => Stored(c.conn, c.ext)

StoreInv ==
  /\ TypeOK
  /\ UniqueExternal
  /\ NotificationsBacked
  /\ RecordedNeverPublished
  /\ SeenBacked
  /\ \A w \in Workers : JobSound(job[w])

(* Rows stay where they are and keep the booking they stand for.           *)
RowsGrow ==
  /\ DOMAIN rows \subseteq DOMAIN rows'
  /\ \A i \in DOMAIN rows :
       rows'[i].conn = rows[i].conn /\ rows'[i].ext = rows[i].ext

-----------------------------------------------------------------------------
(* What is stored stays stored.                                            *)
LEMMA StoredRemains ==
  ASSUME RowsGrow, NEW conn, NEW ext
  PROVE  /\ Stored(conn, ext) => Stored(conn, ext)'
         /\ External(conn, ext) \subseteq External(conn, ext)'
  BY DEF RowsGrow, Stored, External

LEMMA SoundStays ==
  ASSUME RowsGrow, NEW j, JobSound(j)
  PROVE  JobSound(j)'
<1> DEFINE conn == j.call.conn
           ext == j.call.ext
<1>1. /\ Stored(conn, ext) => Stored(conn, ext)'
      /\ External(conn, ext) \subseteq External(conn, ext)'
  BY StoredRemains
<1> QED
  BY <1>1 DEF JobSound, RowsGrow

(* A step of one worker: it is enough to look at the call it replaces.     *)
LEMMA OneJob ==
  ASSUME job \in [Workers -> JobRecord],
         \A v \in Workers : JobSound(job[v]),
         RowsGrow, NEW w \in Workers, NEW j \in JobRecord, JobSound(j)',
         job' = [job EXCEPT ![w] = j]
  PROVE  /\ job' \in [Workers -> JobRecord]
         /\ \A v \in Workers : JobSound(job[v])'
<1>1. job' \in [Workers -> JobRecord]
  OBVIOUS
<1>2. ASSUME NEW v \in Workers PROVE JobSound(job[v])'
  <2>1. CASE v = w
    <3>1. job'[v] = j
      BY <2>1
    <3> QED
      BY <3>1 DEF JobSound, Stored, External
  <2>2. CASE v # w
    <3>1. job'[v] = job[v]
      BY <2>2
    <3>2. JobSound(job[v])
      OBVIOUS
    <3> DEFINE k == job[v]
    <3>3. \A r : JobSound(r) => JobSound(r)'
      BY SoundStays
    <3> QED
      BY <3>1, <3>2, <3>3 DEF JobSound, Stored, External
  <2> QED
    BY <2>1, <2>2
<1> QED
  BY <1>1, <1>2

(* Steps that leave the table, the keys and the webhooks alone.            *)
LEMMA QuietStep ==
  ASSUME StoreInv, NEW w \in Workers, NEW j \in JobRecord, JobSound(j),
         job' = [job EXCEPT ![w] = j],
         UNCHANGED <<rows, seenKeys, notified, restarts>>
  PROVE  StoreInv'
<1>1. RowsGrow
  BY DEF RowsGrow
<1>2. JobSound(j)'
  BY <1>1, SoundStays
<1>3. /\ job' \in [Workers -> JobRecord]
      /\ \A v \in Workers : JobSound(job[v])'
  BY <1>1, <1>2, OneJob DEF StoreInv, TypeOK
<1> QED
  BY <1>3 DEF StoreInv, TypeOK, UniqueExternal, NotificationsBacked,
              RecordedNeverPublished, SeenBacked, Stored

LEMMA JobType ==
  ASSUME StoreInv, NEW w \in Workers
  PROVE  /\ job[w] \in JobRecord /\ job[w].call \in CallRecord
         /\ JobSound(job[w])
  BY DEF StoreInv, TypeOK, JobRecord

LEMMA IdleJobType == IdleJob \in JobRecord /\ NoCall \in CallRecord
  BY DEF IdleJob, NoCall, JobRecord, CallRecord, Operations, Statuses,
         Phases, Outcomes

(* What GetReservationByExternal returns is a row it selected.             *)
LEMMA FoundIsMatch ==
  ASSUME NEW conn, NEW ext, External(conn, ext) # {}
  PROVE  (CHOOSE i \in External(conn, ext) : TRUE) \in External(conn, ext)
  OBVIOUS

-----------------------------------------------------------------------------
LEMMA StartPersistStep ==
  ASSUME StoreInv, NEW w \in Workers, NEW c \in Calls, StartPersist(w, c)
  PROVE  StoreInv'
<1> DEFINE j == [IdleJob EXCEPT !.pc = "check", !.call = c]
<1>1. c \in CallRecord /\ c.op # "cancel"
  BY ReservationAssumption
<1>2. /\ j \in JobRecord
      /\ j.pc = "check" /\ j.call = c
  BY <1>1, IdleJobType DEF JobRecord, IdleJob, Phases
<1>3. job' = [job EXCEPT ![w] = j] /\ UNCHANGED <<rows, seenKeys, notified, restarts>>
  BY DEF StartPersist
<1> HIDE DEF j
<1>4. JobSound(j)
  BY <1>1, <1>2 DEF JobSound
<1> QED
  BY <1>2, <1>3, <1>4, QuietStep

LEMMA StartCancelStep ==
  ASSUME StoreInv, NEW w \in Workers, NEW i \in 1..MaxRows, StartCancel(w, i)
  PROVE  StoreInv'
<1> DEFINE j == [IdleJob EXCEPT !.pc = "read", !.id = i, !.call.op = "cancel"]
<1>1. j \in JobRecord /\ j.pc = "read" /\ j.call.op = "cancel"
  <2> DEFINE c == [NoCall EXCEPT !.op = "cancel"]
  <2>1. c \in CallRecord /\ c.op = "cancel"
    BY IdleJobType DEF CallRecord, Operations
  <2>2. j = [IdleJob EXCEPT !.pc = "read", !.id = i, !.call = c]
    BY DEF IdleJob
  <2> HIDE DEF c
  <2>3. i \in Nat
    OBVIOUS
  <2> QED
    BY <2>1, <2>2, <2>3, IdleJobType DEF JobRecord, Phases
<1>2. job' = [job EXCEPT ![w] = j] /\ UNCHANGED <<rows, seenKeys, notified, restarts>>
  BY DEF StartCancel
<1> HIDE DEF j
<1>3. JobSound(j)
  BY <1>1 DEF JobSound
<1> QED
  BY <1>1, <1>2, <1>3, QuietStep

LEMMA CheckKeyStep ==
  ASSUME StoreInv, NEW w \in Workers, CheckKey(w)
  PROVE  StoreInv'
<1> DEFINE call == job[w].call
<1>1. job[w].pc = "check" /\ call.op # "cancel" /\ call \in Calls
  BY JobType DEF CheckKey, JobSound
<1>2. UNCHANGED <<rows, seenKeys, notified, restarts>>
  BY DEF CheckKey
<1>3. CASE call.key # None /\ call.key \in seenKeys
  <2> DEFINE j == [job[w] EXCEPT !.pc = "done", !.outcome = "duplicate",
                                 !.returned = 0]
  <2>1. j \in JobRecord /\ j.pc = "done" /\ j.call = call
    BY JobType DEF JobRecord, Phases, Outcomes
  <2>2. job' = [job EXCEPT ![w] = j]
    BY <1>3 DEF CheckKey, Finish, StoreInv, TypeOK
  <2> HIDE DEF j
  <2>3. KeysNameOneBooking => Stored(call.conn, call.ext)
    BY <1>1, <1>3 DEF StoreInv, SeenBacked
  <2>4. JobSound(j)
    BY <1>1, <2>1, <2>3 DEF JobSound
  <2> QED
    BY <1>2, <2>1, <2>2, <2>4, QuietStep
<1>4. CASE ~(call.key # None /\ call.key \in seenKeys)
  <2> DEFINE j == [job[w] EXCEPT !.pc = "lookup"]
  <2>1. j \in JobRecord /\ j.pc = "lookup" /\ j.call = call
    BY JobType DEF JobRecord, Phases
  <2>2. job' = [job EXCEPT ![w] = j]
    BY <1>4 DEF CheckKey, Goto
  <2> HIDE DEF j
  <2>3. JobSound(j)
    BY <1>1, <2>1 DEF JobSound
  <2> QED
    BY <1>2, <2>1, <2>2, <2>3, QuietStep
<1> QED
  BY <1>3, <1>4

LEMMA CancelReadStep ==
  ASSUME StoreInv, NEW w \in Workers, CancelRead(w)
  PROVE  StoreInv'
<1> DEFINE i == job[w].id
<1>1. job[w].pc = "read" /\ UNCHANGED <<rows, seenKeys, notified, restarts>>
  BY DEF CancelRead
<1>2. CASE i \notin DOMAIN rows
  <2> DEFINE j == [job[w] EXCEPT !.pc = "done", !.outcome = "error",
                                 !.returned = 0]
  <2>1. j \in JobRecord /\ j.pc = "done" /\ j.outcome = "error"
        /\ j.call = job[w].call
    BY JobType DEF JobRecord, Phases, Outcomes
  <2>2. job' = [job EXCEPT ![w] = j]
    BY <1>2 DEF CancelRead, Finish
  <2>3. job[w].call.op = "cancel"
    BY <1>1, JobType DEF JobSound
  <2> HIDE DEF j
  <2>4. JobSound(j)
    BY <2>1, <2>3 DEF JobSound
  <2> QED
    BY <1>1, <2>1, <2>2, <2>4, QuietStep
<1>3. CASE i \in DOMAIN rows
  <2> DEFINE c == [job[w].call EXCEPT !.conn = rows[i].conn,
                                      !.ext = rows[i].ext,
                                      !.status = "cancelled"]
             j == [job[w] EXCEPT !.pc = "lookup", !.call = c]
  <2>1. rows[i] \in Row
    BY <1>3 DEF StoreInv, TypeOK
  <2>2. c \in CallRecord /\ c.op = job[w].call.op
    <3>1. /\ rows[i].conn \in Connections \cup {None}
          /\ rows[i].ext \in Externals \cup {None}
      BY <2>1 DEF Row
    <3>2. job[w].call \in CallRecord
      BY JobType
    <3> QED
      BY <3>1, <3>2 DEF CallRecord, Statuses
  <2>3. job' = [job EXCEPT ![w] = j]
    BY <1>3 DEF CancelRead
  <2>4. job[w].call.op = "cancel"
    BY <1>1, JobType DEF JobSound
  <2> HIDE DEF c
  <2>5. j \in JobRecord /\ j.pc = "lookup" /\ j.call = c /\ j.id = i
    BY <2>2, JobType DEF JobRecord, Phases
  <2> HIDE DEF j
  <2>6. JobSound(j)
    BY <1>3, <2>2, <2>4, <2>5 DEF JobSound
  <2> QED
    BY <1>1, <2>3, <2>5, <2>6, QuietStep
<1> QED
  BY <1>2, <1>3

LEMMA SaveLookupStep ==
  ASSUME StoreInv, NEW w \in Workers, SaveLookup(w)
  PROVE  StoreInv'
<1> DEFINE c == job[w].call
           matches == External(c.conn, c.ext)
           f == IF matches = {} THEN 0 ELSE CHOOSE i \in matches : TRUE
           j == [job[w] EXCEPT !.pc = "write", !.found = f]
<1>1. job[w].pc = "lookup" /\ UNCHANGED <<rows, seenKeys, notified, restarts>>
      /\ job' = [job EXCEPT ![w] = j]
  BY DEF SaveLookup
<1>2. f # 0 => f \in matches
  BY FoundIsMatch
<1>3. f \in Nat
  BY <1>2 DEF External, StoreInv, TypeOK
<1> HIDE DEF f
<1>4. j \in JobRecord /\ j.pc = "write" /\ j.call = c /\ j.found = f /\ j.id = job[w].id
  BY <1>3, JobType DEF JobRecord, Phases
<1> HIDE DEF j
<1>5. JobSound(j)
  BY <1>1, <1>2, <1>4, JobType DEF JobSound
<1> QED
  BY <1>1, <1>4, <1>5, QuietStep

LEMMA SaveFailsStep ==
  ASSUME StoreInv, NEW w \in Workers, SaveFails(w)
  PROVE  StoreInv'
<1> DEFINE j == [job[w] EXCEPT !.pc = "done", !.outcome = "error",
                               !.returned = 0]
<1>1. j \in JobRecord /\ j.pc = "done" /\ j.outcome = "error"
      /\ j.call = job[w].call
  BY JobType DEF JobRecord, Phases, Outcomes
<1>2. /\ job[w].pc \in {"read", "lookup", "write", "reread"}
      /\ UNCHANGED <<rows, seenKeys, notified, restarts>>
      /\ job' = [job EXCEPT ![w] = j]
  BY DEF SaveFails, Finish
<1> HIDE DEF j
<1>3. JobSound(j)
  BY <1>1, <1>2, JobType DEF JobSound
<1> QED
  BY <1>1, <1>2, <1>3, QuietStep

LEMMA CancelRereadStep ==
  ASSUME StoreInv, NEW w \in Workers, CancelReread(w)
  PROVE  StoreInv'
<1> DEFINE j == [job[w] EXCEPT !.pc = "done", !.outcome = "cancelled",
                               !.returned = job[w].id]
<1>1. j \in JobRecord /\ j.pc = "done" /\ j.outcome = "cancelled"
      /\ j.call = job[w].call
  BY JobType DEF JobRecord, Phases, Outcomes
<1>2. /\ job[w].pc = "reread"
      /\ UNCHANGED <<rows, seenKeys, notified, restarts>>
      /\ job' = [job EXCEPT ![w] = j]
  BY DEF CancelReread, Finish
<1> HIDE DEF j
<1>3. JobSound(j)
  BY <1>1, <1>2, JobType DEF JobSound
<1> QED
  BY <1>1, <1>2, <1>3, QuietStep

LEMMA ReturnStep ==
  ASSUME StoreInv, NEW w \in Workers, Return(w)
  PROVE  StoreInv'
<1>1. IdleJob.pc = "idle"
  BY DEF IdleJob
<1>2. JobSound(IdleJob)
  BY <1>1 DEF JobSound
<1> QED
  BY <1>2, IdleJobType, QuietStep DEF Return

-----------------------------------------------------------------------------
(* Where a call goes when its write is committed: on, or into an error     *)
(* because the commit's answer was lost.                                   *)
LEMMA AfterWrite ==
  ASSUME StoreInv, NEW w \in Workers, NEW i \in Nat, job[w].pc = "write",
         RowsGrow, NEW conn, NEW ext, Stored(conn, ext)',
         job[w].call.conn = conn, job[w].call.ext = ext,
         \/ job' = [job EXCEPT ![w].pc = AfterSave(w), ![w].returned = i]
         \/ Finish(w, "error", 0)
  PROVE  /\ job' \in [Workers -> JobRecord]
         /\ \A v \in Workers : JobSound(job[v])'
<1>0. /\ job[w] \in JobRecord /\ JobSound(job[w])
      /\ job \in [Workers -> JobRecord]
      /\ \A v \in Workers : JobSound(job[v])
  BY JobType DEF StoreInv, TypeOK
<1>1. CASE Finish(w, "error", 0)
  <2>1. PICK j : j = [job[w] EXCEPT !.pc = "done", !.outcome = "error",
                                    !.returned = 0]
    OBVIOUS
  <2>2. j \in JobRecord /\ j.pc = "done" /\ j.outcome = "error"
        /\ j.call = job[w].call
    BY <2>1, JobType DEF JobRecord, Phases, Outcomes
  <2>3. job' = [job EXCEPT ![w] = j]
    BY <1>1, <2>1 DEF Finish
  <2>4. JobSound(j)
    BY <1>0, <2>2 DEF JobSound
  <2>5. JobSound(j)'
    BY <2>4, SoundStays
  <2> QED
    BY <1>0, <2>2, <2>3, <2>5, OneJob
<1>2. CASE job' = [job EXCEPT ![w].pc = AfterSave(w), ![w].returned = i]
  <2>1. PICK j : j = [job[w] EXCEPT !.pc = AfterSave(w), !.returned = i]
    OBVIOUS
  <2>2. j \in JobRecord /\ j.pc = AfterSave(w) /\ j.call = job[w].call
    BY <2>1, JobType DEF JobRecord, Phases, AfterSave
  <2>3. job' = [job EXCEPT ![w] = j]
    BY <1>2, <2>1
  <2>4. j.call.op # "cancel" => j.call \in Calls
    BY <1>0, <2>2 DEF JobSound
  <2>5. j.pc = IF j.call.op = "cancel" THEN "reread" ELSE "mark"
    BY <2>2 DEF AfterSave
  <2>6. j.call.conn = conn /\ j.call.ext = ext
    BY <2>2
  <2>7. JobSound(j)'
    BY <2>4, <2>5, <2>6 DEF JobSound
  <2> QED
    BY <1>0, <2>2, <2>3, <2>7, OneJob
<1> QED
  BY <1>1, <1>2

LEMMA SaveUpdatesStep ==
  ASSUME StoreInv, NEW w \in Workers, SaveUpdates(w)
  PROVE  StoreInv'
<1>0. PICK c, f : c = job[w].call /\ f = job[w].found
  OBVIOUS
<1>1. /\ job[w].pc = "write" /\ f # 0
      /\ rows' = [rows EXCEPT ![f].status = c.status]
      /\ UNCHANGED <<seenKeys, notified, restarts>>
  BY <1>0 DEF SaveUpdates
<1>2. f \in External(c.conn, c.ext) /\ c \in CallRecord /\ job[w].id \in Nat
  BY <1>0, <1>1, JobType DEF JobSound, JobRecord
<1>3. rows \in Seq(Row) /\ f \in DOMAIN rows
      /\ rows[f].conn = c.conn /\ rows[f].ext = c.ext
  BY <1>2 DEF StoreInv, TypeOK, External
<1>4. rows' \in Seq(Row) /\ DOMAIN rows' = DOMAIN rows
  <2>1. [rows[f] EXCEPT !.status = c.status] \in Row
    <3>1. rows[f] \in Row /\ c.status \in Statuses
      BY <1>2, <1>3 DEF CallRecord
    <3> QED
      BY <3>1 DEF Row
  <2> QED
    BY <1>1, <1>3, <2>1
<1>5. \A i \in DOMAIN rows : rows'[i].conn = rows[i].conn
                             /\ rows'[i].ext = rows[i].ext
  BY <1>1, <1>3 DEF Row
<1>6. RowsGrow
  BY <1>4, <1>5 DEF RowsGrow
<1>7. Stored(c.conn, c.ext)'
  BY <1>3, <1>4, <1>5 DEF Stored
<1>8. /\ job' \in [Workers -> JobRecord]
      /\ \A v \in Workers : JobSound(job[v])'
  BY <1>0, <1>1, <1>2, <1>3, <1>6, <1>7, AfterWrite DEF SaveUpdates
<1>9. \A a, b : Stored(a, b) => Stored(a, b)'
  BY <1>6, StoredRemains
<1>10. UniqueExternal'
  BY <1>4, <1>5 DEF StoreInv, UniqueExternal
<1>11. NotificationsBacked' /\ RecordedNeverPublished'
  BY <1>1, <1>9 DEF StoreInv, NotificationsBacked, RecordedNeverPublished
<1>12. SeenBacked'
  BY <1>1, <1>9 DEF StoreInv, SeenBacked
<1> QED
  BY <1>1, <1>4, <1>8, <1>10, <1>11, <1>12 DEF StoreInv, TypeOK

LEMMA SaveInsertsStep ==
  ASSUME StoreInv, NEW w \in Workers, SaveInserts(w)
  PROVE  StoreInv'
<1>0. PICK c : c = job[w].call
  OBVIOUS
<1> DEFINE r == [conn |-> c.conn, ext |-> c.ext, status |-> c.status]
<1>1. /\ job[w].pc = "write" /\ External(c.conn, c.ext) = {}
      /\ rows' = Append(rows, r)
      /\ UNCHANGED <<seenKeys, notified, restarts>>
  BY <1>0 DEF SaveInserts, InsertRefused
<1>2. c \in CallRecord /\ rows \in Seq(Row)
  BY <1>0, JobType DEF StoreInv, TypeOK
<1>3. r \in Row
  BY <1>2 DEF Row, CallRecord
<1>4. r.conn = c.conn /\ r.ext = c.ext
  OBVIOUS
<1> HIDE DEF r
<1>5. /\ rows' \in Seq(Row)
      /\ DOMAIN rows' = 1..(Len(rows) + 1) /\ DOMAIN rows = 1..Len(rows)
      /\ Len(rows) \in Nat
      /\ \A i \in DOMAIN rows : rows'[i] = rows[i]
      /\ rows'[Len(rows) + 1] = r
  BY <1>1, <1>2, <1>3
<1>6. RowsGrow
  BY <1>5 DEF RowsGrow
<1>7. Stored(c.conn, c.ext)'
  BY <1>4, <1>5 DEF Stored
<1>8. /\ job' \in [Workers -> JobRecord]
      /\ \A v \in Workers : JobSound(job[v])'
  <2>1. PICK i \in Nat : i = Len(rows) + 1
    BY <1>5
  <2>2. \/ job' = [job EXCEPT ![w].pc = AfterSave(w), ![w].returned = i]
        \/ Finish(w, "error", 0)
    BY <2>1 DEF SaveInserts
  <2> QED
    BY <1>0, <1>1, <1>6, <1>7, <2>2, AfterWrite
<1>9. \A a, b : Stored(a, b) => Stored(a, b)'
  BY <1>6, StoredRemains
<1>10. UniqueExternal'
  <2> SUFFICES ASSUME NEW i \in DOMAIN rows', NEW k \in DOMAIN rows',
                      rows'[i].conn = rows'[k].conn, rows'[i].ext = rows'[k].ext,
                      rows'[i].conn # None, rows'[i].ext # None
               PROVE  i = k
    BY DEF UniqueExternal
  <2>1. ASSUME NEW n \in DOMAIN rows, rows[n].conn = c.conn,
               rows[n].ext = c.ext, c.conn # None, c.ext # None
        PROVE  FALSE
    BY <1>1, <2>1 DEF External
  <2>2. (i \in DOMAIN rows \/ i = Len(rows) + 1)
        /\ (k \in DOMAIN rows \/ k = Len(rows) + 1)
    BY <1>5
  <2>3. CASE i \in DOMAIN rows /\ k \in DOMAIN rows
    BY <1>5, <2>3 DEF StoreInv, UniqueExternal
  <2>4. CASE i \in DOMAIN rows /\ k = Len(rows) + 1
    BY <1>4, <1>5, <2>1, <2>4
  <2>5. CASE i = Len(rows) + 1 /\ k \in DOMAIN rows
    BY <1>4, <1>5, <2>1, <2>5
  <2> QED
    BY <2>2, <2>3, <2>4, <2>5
<1>11. NotificationsBacked' /\ RecordedNeverPublished'
  BY <1>1, <1>9 DEF StoreInv, NotificationsBacked, RecordedNeverPublished
<1>12. SeenBacked'
  BY <1>1, <1>9 DEF StoreInv, SeenBacked
<1> QED
  BY <1>1, <1>5, <1>8, <1>10, <1>11, <1>12 DEF StoreInv, TypeOK

LEMMA MarkSeenStep ==
  ASSUME StoreInv, NEW w \in Workers, MarkSeen(w)
  PROVE  StoreInv'
<1>0. PICK c : c = job[w].call
  OBVIOUS
<1>1. /\ job[w].pc = "mark" /\ UNCHANGED <<rows, notified, restarts>>
      /\ seenKeys' = seenKeys \cup ({c.key} \ {None})
  BY <1>0 DEF MarkSeen
<1>2. /\ c \in CallRecord /\ c \in Calls /\ Stored(c.conn, c.ext)
      /\ c.op # "cancel" /\ job[w].returned \in Nat
  BY <1>0, <1>1, JobType DEF JobSound, JobRecord
<1>3. RowsGrow /\ (\A a, b : Stored(a, b) => Stored(a, b)')
  BY <1>1 DEF RowsGrow, Stored
<1>4. seenKeys' \subseteq Keys
  BY <1>1, <1>2 DEF StoreInv, TypeOK, CallRecord
<1>5. SeenBacked'
  BY <1>1, <1>2, <1>3 DEF StoreInv, SeenBacked, KeysNameOneBooking
<1>6. PICK j \in JobRecord :
        /\ job' = [job EXCEPT ![w] = j] /\ j.call = c
        /\ \/ j.pc = "publish" /\ c.op = "ingest"
           \/ j.pc = "done" /\ j.outcome = "saved"
  <2>1. CASE c.op = "ingest"
    <3> DEFINE j == [job[w] EXCEPT !.pc = "publish"]
    <3>1. j \in JobRecord /\ j.pc = "publish" /\ j.call = c
      BY <1>0, JobType DEF JobRecord, Phases
    <3>2. job' = [job EXCEPT ![w] = j]
      BY <1>0, <2>1 DEF MarkSeen, Goto
    <3> QED
      BY <2>1, <3>1, <3>2
  <2>2. CASE c.op # "ingest"
    <3> DEFINE j == [job[w] EXCEPT !.pc = "done", !.outcome = "saved",
                                   !.returned = job[w].returned]
    <3>1. j \in JobRecord /\ j.pc = "done" /\ j.outcome = "saved" /\ j.call = c
      BY <1>0, <1>2, JobType DEF JobRecord, Phases, Outcomes
    <3>2. job' = [job EXCEPT ![w] = j]
      BY <1>0, <2>2 DEF MarkSeen, Finish
    <3> QED
      BY <3>1, <3>2
  <2> QED
    BY <2>1, <2>2
<1>7. JobSound(j)'
  <2>1. JobSound(j)
    BY <1>2, <1>6 DEF JobSound
  <2> QED
    BY <1>3, <2>1, SoundStays
<1>8. /\ job' \in [Workers -> JobRecord]
      /\ \A v \in Workers : JobSound(job[v])'
  BY <1>3, <1>6, <1>7, OneJob DEF StoreInv, TypeOK
<1> QED
  BY <1>1, <1>4, <1>5, <1>8 DEF StoreInv, TypeOK, UniqueExternal,
     NotificationsBacked, RecordedNeverPublished, Stored

LEMMA PublishStep ==
  ASSUME StoreInv, NEW w \in Workers, Publish(w)
  PROVE  StoreInv'
<1> DEFINE c == job[w].call
<1>0. PICK heard \in BOOLEAN :
        notified' = notified \cup
          {[conn |-> c.conn, ext |-> c.ext, op |-> c.op, heard |-> heard]}
  BY ReservationAssumption DEF Publish
<1> DEFINE n == [conn |-> c.conn, ext |-> c.ext, op |-> c.op, heard |-> heard]
<1>1. job[w].pc = "publish" /\ UNCHANGED <<rows, seenKeys, restarts>>
  BY DEF Publish
<1>2. /\ c \in CallRecord /\ c \in Calls /\ Stored(c.conn, c.ext)
      /\ c.op = "ingest" /\ job[w].returned \in Nat
  BY <1>0, <1>1, JobType DEF JobSound, JobRecord
<1>3. RowsGrow /\ (\A a, b : Stored(a, b) => Stored(a, b)')
  BY <1>1 DEF RowsGrow, Stored
<1>4. n.conn = c.conn /\ n.ext = c.ext /\ n.op = "ingest"
      /\ n \in [conn : Connections \cup {None}, ext : Externals \cup {None},
                op : Operations, heard : BOOLEAN]
  BY <1>0, <1>2 DEF CallRecord
<1>5. NotificationsBacked' /\ RecordedNeverPublished'
  BY <1>0, <1>2, <1>3, <1>4
     DEF StoreInv, NotificationsBacked, RecordedNeverPublished
<1>6. notified' \subseteq [conn : Connections \cup {None},
                           ext : Externals \cup {None}, op : Operations,
                           heard : BOOLEAN]
  BY <1>0, <1>4 DEF StoreInv, TypeOK
<1>7. PICK j : j = [job[w] EXCEPT !.pc = "done", !.outcome = "saved",
                                  !.returned = job[w].returned]
  OBVIOUS
<1>8. /\ j \in JobRecord /\ j.pc = "done" /\ j.outcome = "saved"
      /\ j.call = c
  BY <1>0, <1>2, <1>7, JobType DEF JobRecord, Phases, Outcomes
<1>9. job' = [job EXCEPT ![w] = j]
  BY <1>7 DEF Publish, Finish
<1>10. JobSound(j)'
  <2>1. JobSound(j)
    BY <1>2, <1>8 DEF JobSound
  <2> QED
    BY <1>3, <2>1, SoundStays
<1>11. /\ job' \in [Workers -> JobRecord]
       /\ \A v \in Workers : JobSound(job[v])'
  BY <1>3, <1>8, <1>9, <1>10, OneJob DEF StoreInv, TypeOK
<1> QED
  BY <1>1, <1>5, <1>6, <1>11 DEF StoreInv, TypeOK, UniqueExternal,
     SeenBacked, Stored

LEMMA RestartStep == StoreInv /\ Restart => StoreInv'
<1> SUFFICES ASSUME StoreInv, Restart PROVE StoreInv'
  OBVIOUS
<1>1. /\ seenKeys' = {} /\ job' = [w \in Workers |-> IdleJob]
      /\ UNCHANGED <<rows, notified>> /\ restarts' \in Nat
  BY DEF Restart, StoreInv, TypeOK
<1>2. job' \in [Workers -> JobRecord]
  BY <1>1, IdleJobType
<1>3. ASSUME NEW w \in Workers PROVE JobSound(job[w])'
  <2>1. job'[w] = IdleJob /\ IdleJob.pc = "idle"
    BY <1>1 DEF IdleJob
  <2> QED
    BY <2>1 DEF JobSound
<1> QED
  BY <1>1, <1>2, <1>3 DEF StoreInv, TypeOK, UniqueExternal, SeenBacked,
     NotificationsBacked, RecordedNeverPublished, Stored

-----------------------------------------------------------------------------
LEMMA StoreInvInit == ResInit => StoreInv
<1> SUFFICES ASSUME ResInit PROVE StoreInv
  OBVIOUS
<1>1. rows = <<>> /\ seenKeys = {} /\ notified = {} /\ restarts = 0
      /\ job = [w \in Workers |-> IdleJob] /\ IdleJob.pc = "idle"
  BY DEF ResInit, IdleJob
<1>2. \A w \in Workers : JobSound(job[w])
  BY <1>1 DEF JobSound
<1> QED
  BY <1>1, <1>2, IdleJobType DEF StoreInv, TypeOK, UniqueExternal, SeenBacked,
     NotificationsBacked, RecordedNeverPublished

LEMMA StoreInvStep == StoreInv /\ [ResNext]_resVars => StoreInv'
<1> SUFFICES ASSUME StoreInv, [ResNext]_resVars PROVE StoreInv'
  OBVIOUS
<1>1. CASE Restart
  BY <1>1, RestartStep
<1>2. ASSUME NEW w \in Workers, ServiceStep(w) PROVE StoreInv'
  BY <1>2, CheckKeyStep, CancelReadStep, SaveLookupStep, SaveUpdatesStep,
     SaveInsertsStep, SaveFailsStep, MarkSeenStep, PublishStep,
     CancelRereadStep DEF ServiceStep
<1>3. CASE UNCHANGED resVars
  BY <1>3 DEF resVars, StoreInv, TypeOK, UniqueExternal, SeenBacked,
     NotificationsBacked, RecordedNeverPublished, JobSound, Stored, External
<1> QED
  BY <1>1, <1>2, <1>3, StartPersistStep, StartCancelStep, ReturnStep DEF ResNext

-----------------------------------------------------------------------------
(* The store invariant holds in every state of every behaviour.            *)
THEOREM StoreInvariant == ResSpec => []StoreInv
BY StoreInvInit, StoreInvStep, PTL DEF ResSpec

(* Every state has well-typed rows, keys, calls and notifications.         *)
THEOREM TypeCorrect == ResSpec => []TypeOK
<1>1. StoreInv => TypeOK
  BY DEF StoreInv
<1> QED
  BY <1>1, StoreInvariant, PTL

(* The unique index keeps one row per channel confirmation, whatever the   *)
(* interleaving of the SELECT and INSERT of concurrent Save calls.         *)
THEOREM OneRowPerConfirmation == ResSpec => []UniqueExternal
<1>1. StoreInv => UniqueExternal
  BY DEF StoreInv
<1> QED
  BY <1>1, StoreInvariant, PTL

(* The PMS is told only of stored reservations that a channel originated.  *)
THEOREM WebhooksTrue == ResSpec => [](NotificationsBacked /\ RecordedNeverPublished)
<1>1. StoreInv => NotificationsBacked /\ RecordedNeverPublished
  BY DEF StoreInv
<1> QED
  BY <1>1, StoreInvariant, PTL

(* When a key names one booking, ErrDuplicateRequest means it is stored.   *)
THEOREM DuplicatesTrue ==
  ASSUME KeysNameOneBooking
  PROVE  ResSpec => []DuplicateMeansRecorded
<1>1. StoreInv => DuplicateMeansRecorded
  BY KeysNameOneBooking DEF StoreInv, JobSound, DuplicateMeansRecorded
<1> QED
  BY <1>1, StoreInvariant, PTL

-----------------------------------------------------------------------------
(***************************************************************************)
(* What one step makes of a call, for the proofs of those who use the      *)
(* store.                                                                  *)
(***************************************************************************)

(* The phases a call old of worker w can be in before it is j.             *)
Follows(w, old, j) ==
  /\ old.pc \notin {"idle", "done"} /\ j.pc # "idle"
  /\ j.id = old.id /\ j.call.op = old.call.op /\ j.call.key = old.call.key
  /\ old.call.op # "cancel" => j.call = old.call
  /\ j.pc # "check" /\ j.pc # "read"
  /\ j.pc = "lookup" =>
       \/ old.pc = "check" /\ (old.call.key # None => old.call.key \notin seenKeys)
       \/ old.pc = "read" /\ old.id \in DOMAIN rows
  /\ j.pc = "write" => old.pc = "lookup"
  /\ j.pc \in {"mark", "reread"} => SaveUpdates(w) \/ SaveInserts(w)
  /\ j.pc = "publish" => old.pc = "mark"
  /\ j.pc = "done" =>
       \/ j.outcome = "cancelled" /\ old.pc = "reread"
       \/ j.outcome = "error"
       \/ j.outcome = "duplicate" /\ old.pc = "check" /\ old.call.key \in seenKeys
       \/ j.outcome = "saved" /\ old.pc \in {"mark", "publish"}

LEMMA CallFollows ==
  ASSUME StoreInv, NEW w \in Workers, ServiceStep(w)
  PROVE  \E j \in JobRecord : job' = [job EXCEPT ![w] = j] /\ Follows(w, job[w], j)
<1>0. PICK old \in JobRecord : old = job[w] /\ JobSound(old)
  BY JobType
<1>a. job \in [Workers -> JobRecord]
  BY DEF StoreInv, TypeOK
<1>1. CASE CheckKey(w)
  <2>1. CASE old.call.key # None /\ old.call.key \in seenKeys
    <3> DEFINE j == [old EXCEPT !.pc = "done", !.outcome = "duplicate",
                                !.returned = 0]
    <3>1. job' = [job EXCEPT ![w] = j]
      BY <1>0, <1>a, <1>1, <2>1 DEF CheckKey, Finish
    <3>2. /\ j \in JobRecord /\ j.pc = "done" /\ j.outcome = "duplicate"
          /\ j.call = old.call /\ j.id = old.id
      BY DEF JobRecord, Phases, Outcomes
    <3> HIDE DEF j
    <3>3. Follows(w, old, j)
      BY <1>0, <1>1, <2>1, <3>2 DEF Follows, CheckKey
    <3> QED
      BY <1>0, <3>1, <3>2, <3>3
  <2>2. CASE ~(old.call.key # None /\ old.call.key \in seenKeys)
    <3> DEFINE j == [old EXCEPT !.pc = "lookup"]
    <3>1. job' = [job EXCEPT ![w] = j]
      BY <1>0, <1>a, <1>1, <2>2 DEF CheckKey, Goto
    <3>2. j \in JobRecord /\ j.pc = "lookup" /\ j.call = old.call /\ j.id = old.id
      BY DEF JobRecord, Phases
    <3> HIDE DEF j
    <3>3. Follows(w, old, j)
      BY <1>0, <1>1, <2>2, <3>2 DEF Follows, CheckKey
    <3> QED
      BY <1>0, <3>1, <3>2, <3>3
  <2> QED
    BY <2>1, <2>2
<1>2. CASE CancelRead(w) /\ old.id \in DOMAIN rows
  <2>1. PICK i : i = old.id
    OBVIOUS
  <2>2. rows[i] \in Row
    BY <1>2, <2>1 DEF StoreInv, TypeOK
  <2> DEFINE c == [old.call EXCEPT !.conn = rows[i].conn, !.ext = rows[i].ext,
                                   !.status = "cancelled"]
  <2>3. /\ c \in CallRecord /\ c.op = old.call.op /\ c.key = old.call.key
    BY <2>2 DEF JobRecord, CallRecord, Row, Statuses
  <2>4. job' = [job EXCEPT ![w] = [old EXCEPT !.pc = "lookup", !.call = c]]
    BY <1>0, <1>a, <1>2, <2>1 DEF CancelRead
  <2> HIDE DEF c
  <2>5. PICK j : j = [old EXCEPT !.pc = "lookup", !.call = c]
    OBVIOUS
  <2>6. j \in JobRecord /\ j.pc = "lookup" /\ j.call = c /\ j.id = old.id
    BY <2>3, <2>5 DEF JobRecord, Phases
  <2>7. old.pc = "read" /\ old.call.op = "cancel"
    BY <1>0, <1>2 DEF CancelRead, JobSound
  <2>8. Follows(w, old, j)
    BY <1>2, <2>3, <2>6, <2>7 DEF Follows
  <2> QED
    BY <1>0, <2>4, <2>5, <2>6, <2>8
<1>3. CASE SaveLookup(w)
  <2>1. PICK f : job' = [job EXCEPT ![w].pc = "write", ![w].found = f]
                 /\ (f = 0 \/ f \in External(old.call.conn, old.call.ext))
    BY <1>0, <1>3, FoundIsMatch DEF SaveLookup
  <2>2. f \in Nat
    BY <2>1 DEF External, StoreInv, TypeOK
  <2> DEFINE j == [old EXCEPT !.pc = "write", !.found = f]
  <2>3. job' = [job EXCEPT ![w] = j]
    BY <1>0, <1>a, <2>1
  <2>4. j \in JobRecord /\ j.pc = "write" /\ j.call = old.call /\ j.id = old.id
    BY <2>2 DEF JobRecord, Phases
  <2> HIDE DEF j
  <2>5. Follows(w, old, j)
    BY <1>0, <1>3, <2>4 DEF Follows, SaveLookup
  <2> QED
    BY <1>0, <2>3, <2>4, <2>5
<1>4. ASSUME NEW outcome \in Outcomes, NEW id \in Nat, Finish(w, outcome, id),
             old.pc \notin {"idle", "done"},
             \/ outcome = "error"
             \/ outcome = "cancelled" /\ old.pc = "reread"
             \/ outcome = "saved" /\ old.pc \in {"mark", "publish"}
      PROVE  \E j \in JobRecord : job' = [job EXCEPT ![w] = j] /\ Follows(w, job[w], j)
  <2> DEFINE j == [old EXCEPT !.pc = "done", !.outcome = outcome, !.returned = id]
  <2>1. job' = [job EXCEPT ![w] = j]
    BY <1>0, <1>a, <1>4 DEF Finish
  <2>2. /\ j \in JobRecord /\ j.pc = "done" /\ j.outcome = outcome
        /\ j.call = old.call /\ j.id = old.id
    BY DEF JobRecord, Phases
  <2> HIDE DEF j
  <2>3. Follows(w, old, j)
    BY <1>4, <2>2 DEF Follows
  <2> QED
    BY <1>0, <2>1, <2>2, <2>3
<1>5. CASE (SaveUpdates(w) \/ SaveInserts(w)) /\ ~Finish(w, "error", 0)
  <2>1. PICK id \in Nat : job' = [job EXCEPT ![w].pc = AfterSave(w), ![w].returned = id]
    <3>1. Len(rows) + 1 \in Nat /\ job[w].id \in Nat
      BY <1>0 DEF StoreInv, TypeOK, JobRecord
    <3> QED
      BY <1>5, <3>1 DEF SaveUpdates, SaveInserts
  <2>2. PICK pc \in {"mark", "reread"} : pc = AfterSave(w)
    BY DEF AfterSave
  <2> DEFINE j == [old EXCEPT !.pc = pc, !.returned = id]
  <2>3. job' = [job EXCEPT ![w] = j]
    BY <1>0, <1>a, <2>1, <2>2
  <2>4. j \in JobRecord /\ j.pc = pc /\ j.call = old.call /\ j.id = old.id
    BY <2>2 DEF JobRecord, Phases
  <2>5. old.pc = "write"
    BY <1>0, <1>5 DEF SaveUpdates, SaveInserts
  <2> HIDE DEF j
  <2>6. Follows(w, old, j)
    BY <1>5, <2>2, <2>4, <2>5 DEF Follows
  <2> QED
    BY <1>0, <2>3, <2>4, <2>6
<1>6. CASE MarkSeen(w) /\ ~Finish(w, "saved", job[w].returned)
  <2> DEFINE j == [old EXCEPT !.pc = "publish"]
  <2>1. job' = [job EXCEPT ![w] = j]
    BY <1>0, <1>a, <1>6 DEF MarkSeen, Goto
  <2>2. j \in JobRecord /\ j.pc = "publish" /\ j.call = old.call /\ j.id = old.id
    BY DEF JobRecord, Phases
  <2> HIDE DEF j
  <2>3. Follows(w, old, j)
    BY <1>0, <1>6, <2>2 DEF Follows, MarkSeen
  <2> QED
    BY <1>0, <2>1, <2>2, <2>3
<1>7. job[w].returned \in Nat /\ job[w].id \in Nat
  BY <1>0 DEF JobRecord
<1>8. CASE Finish(w, "error", 0)
  BY <1>0, <1>4, <1>8
  DEF Outcomes, ServiceStep, CheckKey, CancelRead, SaveLookup, SaveUpdates,
      SaveInserts, SaveFails, MarkSeen, Publish, CancelReread
<1>9. CASE Finish(w, "saved", job[w].returned) /\ (MarkSeen(w) \/ Publish(w))
  BY <1>0, <1>4, <1>7, <1>9 DEF Outcomes, MarkSeen, Publish
<1>10. CASE CancelReread(w)
  BY <1>0, <1>4, <1>7, <1>10 DEF Outcomes, CancelReread
<1> QED
  BY <1>0, <1>1, <1>2, <1>3, <1>5, <1>6, <1>8, <1>9, <1>10
  DEF ServiceStep, CancelRead, SaveFails, Publish

(* The table grows by an insertion only, the key set by a mark only.       *)
LEMMA StoreGrows ==
  ASSUME StoreInv, NEW w \in Workers, ServiceStep(w)
  PROVE  /\ RowsGrow
         /\ \/ DOMAIN rows' = DOMAIN rows
            \/ /\ SaveInserts(w) /\ DOMAIN rows' = DOMAIN rows \cup {Len(rows) + 1}
               /\ Len(rows) + 1 \notin DOMAIN rows
               /\ rows'[Len(rows) + 1].ext = job[w].call.ext
               /\ rows'[Len(rows) + 1].conn = job[w].call.conn
         /\ \/ UNCHANGED seenKeys
            \/ /\ job[w].pc = "mark"
               /\ seenKeys' = seenKeys \cup ({job[w].call.key} \ {None})
<1>1. rows \in Seq(Row)
  BY DEF StoreInv, TypeOK
<1>2. CASE SaveInserts(w)
  <2>1. PICK r : r = [conn |-> job[w].call.conn, ext |-> job[w].call.ext,
                      status |-> job[w].call.status]
    OBVIOUS
  <2>2. rows' = Append(rows, r) /\ r.ext = job[w].call.ext /\ r.conn = job[w].call.conn
        /\ UNCHANGED seenKeys
    BY <1>2, <2>1 DEF SaveInserts
  <2>3. /\ DOMAIN rows' = DOMAIN rows \cup {Len(rows) + 1}
        /\ Len(rows) + 1 \notin DOMAIN rows
        /\ rows'[Len(rows) + 1] = r
        /\ \A i \in DOMAIN rows : rows'[i] = rows[i]
    BY <1>1, <2>2
  <2> QED
    BY <1>2, <2>2, <2>3 DEF RowsGrow
<1>3. CASE SaveUpdates(w)
  <2>1. PICK f, s : rows' = [rows EXCEPT ![f].status = s] /\ UNCHANGED seenKeys
    BY <1>3 DEF SaveUpdates
  <2>2. DOMAIN rows' = DOMAIN rows
    BY <1>1, <2>1
  <2>3. ASSUME NEW i \in DOMAIN rows
        PROVE  rows'[i].conn = rows[i].conn /\ rows'[i].ext = rows[i].ext
    BY <1>1, <2>1 DEF Row
  <2> QED
    BY <2>1, <2>2, <2>3 DEF RowsGrow
<1>4. CASE UNCHANGED rows
  BY <1>4
  DEF RowsGrow, ServiceStep, CheckKey, CancelRead, SaveLookup, SaveUpdates,
      SaveInserts, SaveFails, MarkSeen, Publish, CancelReread
<1> QED
  BY <1>2, <1>3, <1>4
  DEF ServiceStep, CheckKey, CancelRead, SaveLookup, SaveFails, MarkSeen, Publish,
      CancelReread

-----------------------------------------------------------------------------
(***************************************************************************)
(* What an answered duplicate says of the PMS.                             *)
(***************************************************************************)

(* The PMS was told of the booking, or is about to be.                     *)
Owed(conn, ext) ==
  \/ Announced(conn, ext)
  \/ \E v \in Workers : /\ job[v].pc = "publish"
                        /\ job[v].call.conn = conn /\ job[v].call.ext = ext

AnnounceInv ==
  /\ \A c \in Calls :
       (c.op = "ingest" /\ c.key # None /\ c.key \in seenKeys) => Owed(c.conn, c.ext)
  /\ \A w \in Workers :
       (/\ job[w].pc = "done" /\ job[w].outcome = "duplicate"
        /\ job[w].call.op = "ingest") => Owed(job[w].call.conn, job[w].call.ext)

(* A webhook that is about to leave leaves.                                *)
LEMMA OwedStays ==
  ASSUME StoreInv, NEW w \in Workers, ServiceStep(w), NEW conn, NEW ext, Owed(conn, ext)
  PROVE  Owed(conn, ext)'
<1>1. PICK j \in JobRecord : job' = [job EXCEPT ![w] = j] /\ Follows(w, job[w], j)
  BY CallFollows
<1>2. job \in [Workers -> JobRecord]
  BY DEF StoreInv, TypeOK
<1>3. notified \subseteq notified'
  BY DEF ServiceStep, CheckKey, CancelRead, SaveLookup, SaveUpdates, SaveInserts,
         SaveFails, MarkSeen, Publish, CancelReread
<1>4. CASE Announced(conn, ext)
  BY <1>3, <1>4 DEF Announced, Owed
<1>5. ASSUME NEW v \in Workers, job[v].pc = "publish",
             job[v].call.conn = conn, job[v].call.ext = ext
      PROVE  Owed(conn, ext)'
  <2>1. CASE v # w
    BY <1>1, <1>2, <1>5, <2>1 DEF Owed
  <2>2. CASE v = w
    <3>1. Publish(w)
      BY <1>5, <2>2
      DEF ServiceStep, CheckKey, CancelRead, SaveLookup, SaveUpdates, SaveInserts,
          SaveFails, MarkSeen, CancelReread
    <3>2. PICK heard \in {TRUE, ~DbMayFail} :
            notified' = notified \cup
              {[conn |-> job[w].call.conn, ext |-> job[w].call.ext,
                op |-> job[w].call.op, heard |-> heard]}
      BY <3>1 DEF Publish
    <3>3. PICK n : n = [conn |-> conn, ext |-> ext, op |-> job[w].call.op,
                        heard |-> heard]
      OBVIOUS
    <3>4. n \in notified' /\ n.conn = conn /\ n.ext = ext
      BY <1>5, <2>2, <3>2, <3>3
    <3> QED
      BY <3>4 DEF Owed, Announced
  <2> QED
    BY <2>1, <2>2
<1> QED
  BY <1>4, <1>5 DEF Owed

(* A call marks its key, and announces its booking next.                   *)
LEMMA AnnounceService ==
  ASSUME KeysNameOneBooking, KeysNameOneOperation, StoreInv, AnnounceInv,
         NEW w \in Workers, ServiceStep(w)
  PROVE  AnnounceInv'
<1>1. PICK j \in JobRecord : job' = [job EXCEPT ![w] = j] /\ Follows(w, job[w], j)
  BY CallFollows
<1>2. job \in [Workers -> JobRecord] /\ JobSound(job[w])
  BY JobType DEF StoreInv, TypeOK
<1>3. \/ UNCHANGED seenKeys
      \/ /\ job[w].pc = "mark"
         /\ seenKeys' = seenKeys \cup ({job[w].call.key} \ {None})
  BY StoreGrows
<1>4. ASSUME NEW c \in Calls, c.op = "ingest", c.key # None, c.key \in seenKeys'
      PROVE  Owed(c.conn, c.ext)'
  <2>1. CASE c.key \in seenKeys
    BY <1>4, <2>1, OwedStays DEF AnnounceInv
  <2>2. CASE c.key \notin seenKeys
    <3>1. job[w].pc = "mark" /\ job[w].call.key = c.key /\ job[w].call \in Calls
      BY <1>2, <1>3, <1>4, <2>2 DEF JobSound
    <3>2. job[w].call.conn = c.conn /\ job[w].call.ext = c.ext /\ job[w].call.op = "ingest"
      BY <1>4, <3>1 DEF KeysNameOneBooking, KeysNameOneOperation
    <3>3. MarkSeen(w)
      BY <3>1 DEF ServiceStep, CheckKey, CancelRead, SaveLookup, SaveUpdates,
         SaveInserts, SaveFails, Publish, CancelReread
    <3>4. Goto(w, "publish")
      BY <3>2, <3>3 DEF MarkSeen
    <3>5. job'[w].pc = "publish" /\ job'[w].call = job[w].call
      BY <1>2, <3>4 DEF Goto, JobRecord
    <3> QED
      BY <3>2, <3>5 DEF Owed
  <2> QED
    BY <2>1, <2>2
<1>5. ASSUME NEW v \in Workers, job'[v].pc = "done", job'[v].outcome = "duplicate",
             job'[v].call.op = "ingest"
      PROVE  Owed(job[v].call.conn, job[v].call.ext)'
  <2>1. CASE v # w
    <3>1. job'[v] = job[v]
      BY <1>1, <1>2, <2>1
    <3>2. PICK conn, ext : conn = job[v].call.conn /\ ext = job[v].call.ext
      OBVIOUS
    <3>3. Owed(conn, ext)'
      BY <1>5, <3>1, <3>2, OwedStays DEF AnnounceInv
    <3> QED
      BY <3>1, <3>2, <3>3 DEF Owed, Announced
  <2>2. CASE v = w
    <3>1. job'[w] = j
      BY <1>1, <1>2
    <3>2. /\ job[w].pc = "check" /\ job[w].call.key \in seenKeys
          /\ j.call = job[w].call
      BY <1>1, <1>5, <2>2, <3>1 DEF Follows
    <3>3. job[w].call \in Calls /\ job[w].call.op = "ingest" /\ job[w].call.key # None
      BY <1>2, <1>5, <2>2, <3>1, <3>2, ReservationAssumption
      DEF JobSound, StoreInv, TypeOK
    <3>4. PICK conn, ext : conn = job[w].call.conn /\ ext = job[w].call.ext
      OBVIOUS
    <3>5. Owed(conn, ext)'
      BY <3>2, <3>3, <3>4, OwedStays DEF AnnounceInv
    <3> QED
      BY <2>2, <3>1, <3>2, <3>4, <3>5 DEF Owed, Announced
  <2> QED
    BY <2>1, <2>2
<1> QED
  BY <1>4, <1>5 DEF AnnounceInv

(* An ingest is refused as a duplicate only of one whose webhook was sent, *)
(* or is about to be: the key and the announcement it stands for are       *)
(* forgotten together.                                                     *)
THEOREM DuplicatesAnnounced ==
  ASSUME KeysNameOneBooking, KeysNameOneOperation
  PROVE  ResSpec => []DuplicateMeansAnnounced
<1>1. ResInit => AnnounceInv
  BY DEF ResInit, AnnounceInv, IdleJob
<1>2. StoreInv /\ AnnounceInv /\ [ResNext]_resVars => AnnounceInv'
  <2> SUFFICES ASSUME StoreInv, AnnounceInv, [ResNext]_resVars PROVE AnnounceInv'
    OBVIOUS
  <2>1. job \in [Workers -> JobRecord]
    BY DEF StoreInv, TypeOK
  <2>2. CASE Restart
    BY <2>2 DEF Restart, AnnounceInv, IdleJob
  <2>3. CASE UNCHANGED resVars
    BY <2>3 DEF resVars, AnnounceInv, Owed, Announced
  <2>4. ASSUME NEW w \in Workers, NEW j, job' = [job EXCEPT ![w] = j],
               j.pc # "done", job[w].pc # "publish",
               UNCHANGED <<seenKeys, notified>>
        PROVE  AnnounceInv'
    <3>1. \A v \in Workers : job'[v] = IF v = w THEN j ELSE job[v]
      BY <2>1, <2>4
    <3>2. \A conn, ext : Owed(conn, ext) => Owed(conn, ext)'
      BY <2>4, <3>1 DEF Owed, Announced
    <3>3. ASSUME NEW v \in Workers, job'[v].pc = "done", job'[v].outcome = "duplicate",
                 job'[v].call.op = "ingest"
          PROVE  Owed(job[v].call.conn, job[v].call.ext)'
      <4>1. job'[v] = job[v]
        BY <2>4, <3>1, <3>3
      <4>2. PICK conn, ext : conn = job[v].call.conn /\ ext = job[v].call.ext
        OBVIOUS
      <4>3. Owed(conn, ext)'
        BY <3>2, <3>3, <4>1, <4>2 DEF AnnounceInv
      <4> QED
        BY <4>1, <4>2, <4>3 DEF Owed, Announced
    <3> QED
      BY <2>4, <3>2, <3>3 DEF AnnounceInv
  <2>5. ASSUME NEW w \in Workers, NEW c \in Calls, StartPersist(w, c) PROVE AnnounceInv'
    <3>1. PICK j : j = [IdleJob EXCEPT !.pc = "check", !.call = c]
      OBVIOUS
    <3>2. j.pc = "check"
      BY <3>1 DEF IdleJob
    <3> QED
      BY <2>4, <2>5, <3>1, <3>2 DEF StartPersist
  <2>6. ASSUME NEW w \in Workers, NEW i \in 1..MaxRows, StartCancel(w, i)
        PROVE  AnnounceInv'
    <3>1. PICK j : j = [IdleJob EXCEPT !.pc = "read", !.id = i, !.call.op = "cancel"]
      OBVIOUS
    <3>2. j.pc = "read"
      BY <3>1 DEF IdleJob
    <3> QED
      BY <2>4, <2>6, <3>1, <3>2 DEF StartCancel
  <2>7. ASSUME NEW w \in Workers, Return(w) PROVE AnnounceInv'
    <3>1. PICK j : j = IdleJob
      OBVIOUS
    <3>2. j.pc = "idle" /\ job[w].pc = "done" /\ job' = [job EXCEPT ![w] = j]
          /\ UNCHANGED <<seenKeys, notified>>
      BY <2>7, <3>1 DEF Return, IdleJob
    <3> QED
      BY <2>4, <3>2
  <2> QED
    BY <2>2, <2>3, <2>5, <2>6, <2>7, AnnounceService DEF ResNext
<1>3. AnnounceInv => DuplicateMeansAnnounced
  BY DEF AnnounceInv, Owed, DuplicateMeansAnnounced
<1> QED
  BY <1>1, <1>2, <1>3, StoreInvariant, PTL DEF ResSpec

-----------------------------------------------------------------------------
(***************************************************************************)
(* The rows of a booking without a channel connection.                     *)
(***************************************************************************)

Saving(w, k) == job[w].pc \in InSave /\ job[w].call.key = k

(* The key is remembered, or a call that saved under it is about to.       *)
Kept(k) ==
  \/ k \in seenKeys
  \/ \E w \in Workers : job[w].pc = "mark" /\ job[w].call.key = k

Unconnected(i, ext) == i \in DOMAIN rows /\ rows[i].conn = None /\ rows[i].ext = ext

(* One call at a time saves under a key, and none under a remembered one.  *)
OneSaves ==
  \A k \in Keys \ excused :
    /\ \A v, w \in Workers : Saving(v, k) /\ Saving(w, k) => v = w
    /\ \A w \in Workers : k \in seenKeys => ~Saving(w, k)

(* The row of a booking that is recorded under one key keeps that key.     *)
RowsKept ==
  \A c \in Calls : OneKey(c.ext, c.key) /\ c.key \notin excused =>
    /\ \A i : Unconnected(i, c.ext) => Kept(c.key)
    /\ \A i, j : Unconnected(i, c.ext) /\ Unconnected(j, c.ext) => i = j

RepInv ==
  /\ \A w \in Workers : job[w].pc = "read" => job[w].call.key = None
  /\ OneSaves
  /\ RowsKept

LEMMA RepFacts ==
  ASSUME StoreInv, NEW w \in Workers, ServiceStep(w), NEW j \in JobRecord,
         job' = [job EXCEPT ![w] = j], Follows(w, job[w], j)
  PROVE  /\ \A v \in Workers : job'[v] = IF v = w THEN j ELSE job[v]
         /\ j.call.key = job[w].call.key /\ j.pc # "read"
         /\ j.pc = "mark" => job[w].pc = "write"
         /\ job[w].pc = "mark" =>
              seenKeys' = seenKeys \cup ({job[w].call.key} \ {None})
         /\ seenKeys \subseteq seenKeys'
<1>1. job \in [Workers -> JobRecord]
  BY DEF StoreInv, TypeOK
<1>2. \A v \in Workers : job'[v] = IF v = w THEN j ELSE job[v]
  BY <1>1
<1>3. j.pc = "mark" => job[w].pc = "write"
  BY DEF Follows, SaveUpdates, SaveInserts
<1>4. job[w].pc = "mark" => seenKeys' = seenKeys \cup ({job[w].call.key} \ {None})
  BY DEF ServiceStep, CheckKey, CancelRead, SaveLookup, SaveUpdates, SaveInserts,
         SaveFails, MarkSeen, Publish, CancelReread
<1>5. seenKeys \subseteq seenKeys'
  BY StoreGrows
<1> QED
  BY <1>2, <1>3, <1>4, <1>5 DEF Follows

(* The check lets a second call under a key pass only when it overlaps.    *)
LEMMA OneSavesService ==
  ASSUME StoreInv, RepInv, NEW w \in Workers, ServiceStep(w),
         excused' = excused \cup Overlapped \cup CommitsUnheard \cup Forgotten
  PROVE  OneSaves'
<1>1. PICK j \in JobRecord : job' = [job EXCEPT ![w] = j] /\ Follows(w, job[w], j)
  BY CallFollows
<1>2. /\ \A v \in Workers : job'[v] = IF v = w THEN j ELSE job[v]
      /\ j.call.key = job[w].call.key
      /\ j.pc = "mark" => job[w].pc = "write"
  BY <1>1, RepFacts
<1>3. \/ UNCHANGED seenKeys
      \/ job[w].pc = "mark" /\ seenKeys' = seenKeys \cup ({job[w].call.key} \ {None})
  BY StoreGrows
<1> SUFFICES ASSUME NEW k \in Keys \ excused'
             PROVE  /\ \A u, v \in Workers : Saving(u, k)' /\ Saving(v, k)' => u = v
                    /\ \A v \in Workers : k \in seenKeys' => ~Saving(v, k)'
  BY DEF OneSaves
<1>4. k \in Keys \ excused /\ k # None /\ k \notin Overlapped
  BY ReservationAssumption
<1>5. /\ \A u, v \in Workers : Saving(u, k) /\ Saving(v, k) => u = v
      /\ \A v \in Workers : k \in seenKeys => ~Saving(v, k)
  BY <1>4 DEF RepInv, OneSaves
<1>6. ASSUME Saving(w, k)', ~Saving(w, k)
      PROVE  /\ job[w].pc = "check" /\ job'[w].pc = "lookup"
             /\ job[w].call.key = k /\ k \notin seenKeys
  <2>1. j.pc \in InSave /\ j.call.key = k /\ job[w].pc \notin InSave
    BY <1>2, <1>6 DEF Saving
  <2>2. j.pc = "lookup"
    BY <1>1, <1>2, <2>1 DEF Follows, InSave
  <2> QED
    BY <1>1, <1>2, <1>4, <2>1, <2>2 DEF Follows, RepInv
<1>7. \A v \in Workers : v # w => (Saving(v, k)' <=> Saving(v, k))
  BY <1>2 DEF Saving
<1>8. ASSUME Saving(w, k)', NEW v \in Workers, v # w, Saving(v, k)' PROVE FALSE
  <2>1. Saving(v, k)
    BY <1>7, <1>8
  <2>2. ~Saving(w, k)
    BY <1>5, <1>8, <2>1
  <2> QED
    BY <1>4, <1>6, <1>8, <2>1, <2>2 DEF Overlapped, Saving
<1>9. ASSUME NEW v \in Workers, k \in seenKeys', Saving(v, k)' PROVE FALSE
  <2>1. CASE k \in seenKeys
    BY <1>5, <1>6, <1>7, <1>9, <2>1
  <2>2. CASE k \notin seenKeys
    <3>1. job[w].pc = "mark" /\ job[w].call.key = k
      BY <1>3, <1>9, <2>2
    <3>2. Saving(w, k) /\ ~Saving(w, k)'
      BY <1>1, <1>2, <3>1 DEF Saving, InSave, Follows
    <3> QED
      BY <1>5, <1>7, <1>9, <3>2
  <2> QED
    BY <2>1, <2>2
<1> QED
  BY <1>5, <1>7, <1>8, <1>9

(* The one call that saves under a key finds no row of its booking, and    *)
(* goes on to remember the key.                                            *)
LEMMA RowsKeptService ==
  ASSUME StoreInv, RepInv, NEW w \in Workers, ServiceStep(w),
         excused' = excused \cup Overlapped \cup CommitsUnheard \cup Forgotten
  PROVE  RowsKept'
<1>1. PICK j \in JobRecord : job' = [job EXCEPT ![w] = j] /\ Follows(w, job[w], j)
  BY CallFollows
<1>2. /\ \A v \in Workers : job'[v] = IF v = w THEN j ELSE job[v]
      /\ j.call.key = job[w].call.key
      /\ job[w].pc = "mark" => seenKeys' = seenKeys \cup ({job[w].call.key} \ {None})
      /\ seenKeys \subseteq seenKeys'
  BY <1>1, RepFacts
<1>3. /\ RowsGrow
      /\ \/ DOMAIN rows' = DOMAIN rows
         \/ /\ SaveInserts(w) /\ DOMAIN rows' = DOMAIN rows \cup {Len(rows) + 1}
            /\ Len(rows) + 1 \notin DOMAIN rows
            /\ rows'[Len(rows) + 1].ext = job[w].call.ext
            /\ rows'[Len(rows) + 1].conn = job[w].call.conn
  BY StoreGrows
<1> SUFFICES ASSUME NEW c \in Calls, OneKey(c.ext, c.key), c.key \notin excused'
             PROVE  /\ \A i : Unconnected(i, c.ext)' => Kept(c.key)'
                    /\ \A h, i : Unconnected(h, c.ext)' /\ Unconnected(i, c.ext)' => h = i
  BY DEF RowsKept, OneKey
<1>4. c.key \in Keys \ excused /\ c.key # None /\ c.key \notin CommitsUnheard
  BY ReservationAssumption DEF OneKey, CallRecord
<1>5. /\ \A i : Unconnected(i, c.ext) => Kept(c.key)
      /\ \A h, i : Unconnected(h, c.ext) /\ Unconnected(i, c.ext) => h = i
  BY <1>4 DEF RepInv, RowsKept
<1>6. Kept(c.key) => Kept(c.key)'
  <2>1. CASE c.key \in seenKeys
    BY <1>2, <2>1 DEF Kept
  <2>2. ASSUME NEW v \in Workers, job[v].pc = "mark", job[v].call.key = c.key
        PROVE  Kept(c.key)'
    BY <1>2, <1>4, <2>2 DEF Kept
  <2> QED
    BY <2>1, <2>2 DEF Kept
<1>7. \A i \in DOMAIN rows : Unconnected(i, c.ext)' <=> Unconnected(i, c.ext)
  BY <1>3 DEF RowsGrow, Unconnected
<1>8. CASE DOMAIN rows' = DOMAIN rows
  <2>1. \A i : Unconnected(i, c.ext)' <=> Unconnected(i, c.ext)
    BY <1>7, <1>8 DEF Unconnected
  <2> QED
    BY <1>5, <1>6, <2>1
<1>9. CASE DOMAIN rows' # DOMAIN rows
  <2>0. PICK n : n = Len(rows) + 1
    OBVIOUS
  <2>1. /\ SaveInserts(w) /\ n \notin DOMAIN rows
        /\ rows'[n].conn = job[w].call.conn /\ rows'[n].ext = job[w].call.ext
        /\ \A i : Unconnected(i, c.ext)' => i = n \/ Unconnected(i, c.ext)
    BY <1>3, <1>7, <1>9, <2>0 DEF Unconnected
  <2>2. CASE ~Unconnected(n, c.ext)'
    BY <1>5, <1>6, <2>1, <2>2
  <2>3. CASE Unconnected(n, c.ext)'
    <3>1. /\ job[w].call.conn = None /\ job[w].call.ext = c.ext
          /\ job[w].pc = "write" /\ job[w].call.op # "cancel"
      BY <2>1, <2>3, JobType
      DEF Unconnected, SaveInserts, InsertRefused, JobSound
    <3>2. job[w].call \in Calls
      BY <3>1, JobType DEF JobSound
    <3>3. job[w].call.key = c.key
      BY <3>1, <3>2 DEF OneKey
    <3>4. Saving(w, c.key)
      BY <3>1, <3>3 DEF Saving, InSave
    <3>5. ~Kept(c.key)
      BY <1>4, <3>1, <3>4 DEF RepInv, OneSaves, Saving, InSave, Kept
    <3>6. \A i : ~Unconnected(i, c.ext)
      BY <1>5, <3>5
    <3>7. job'[w].outcome # "error"
      BY <1>4, <1>9, <3>1, <3>3 DEF CommitsUnheard
    <3>8. ~Finish(w, "error", 0)
      <4>1. Finish(w, "error", 0) => job'[w].outcome = "error"
        BY DEF Finish, StoreInv, TypeOK, JobRecord
      <4> QED
        BY <3>7, <4>1
    <3>9. job' = [job EXCEPT ![w].pc = "mark", ![w].returned = Len(rows) + 1]
      BY <2>1, <3>1, <3>8 DEF SaveInserts, AfterSave
    <3>10. job'[w].pc = "mark" /\ job'[w].call.key = c.key
      BY <1>2, <3>3, <3>9 DEF StoreInv, TypeOK, JobRecord
    <3>11. Kept(c.key)'
      BY <3>10 DEF Kept
    <3> QED
      BY <2>1, <3>6, <3>11
  <2> QED
    BY <2>2, <2>3
<1> QED
  BY <1>8, <1>9

(* A step that starts or ends a call touches neither rows nor keys.        *)
LEMMA RepOutside ==
  ASSUME StoreInv, RepInv, NEW w \in Workers, NEW j, job' = [job EXCEPT ![w] = j],
         j.pc \in {"idle", "check", "read"}, j.pc = "read" => j.call.key = None,
         job[w].pc \in {"idle", "done"}, UNCHANGED <<rows, seenKeys>>,
         excused \subseteq excused'
  PROVE  RepInv'
<1>1. \A v \in Workers : job'[v] = IF v = w THEN j ELSE job[v]
  BY DEF StoreInv, TypeOK
<1>2. \A v \in Workers : \A k : Saving(v, k)' <=> Saving(v, k)
  BY <1>1 DEF Saving, InSave
<1>3. \A k : Kept(k)' <=> Kept(k)
  BY <1>1 DEF Kept
<1>4. \A i, ext : Unconnected(i, ext)' <=> Unconnected(i, ext)
  BY DEF Unconnected
<1>5. \A v \in Workers : job'[v].pc = "read" => job'[v].call.key = None
  BY <1>1 DEF RepInv
<1>6. OneSaves'
  BY <1>2 DEF RepInv, OneSaves
<1>7. RowsKept'
  BY <1>3, <1>4 DEF RepInv, RowsKept, OneKey
<1> QED
  BY <1>5, <1>6, <1>7 DEF RepInv

(* A restart forgets keys: the bookings that have rows are excused.        *)
LEMMA RepRestart ==
  ASSUME StoreInv, RepInv, Restart,
         excused' = excused \cup Overlapped \cup CommitsUnheard \cup Forgotten
  PROVE  RepInv'
<1>1. /\ seenKeys' = {} /\ UNCHANGED rows /\ restarts' # restarts
      /\ \A v \in Workers : job'[v].pc = "idle"
  BY DEF Restart, IdleJob, StoreInv, TypeOK
<1>2. OneSaves'
  BY <1>1 DEF OneSaves, Saving, InSave
<1>3. ASSUME NEW c \in Calls, OneKey(c.ext, c.key), c.key \notin excused'
      PROVE  \A i : ~Unconnected(i, c.ext)'
  <2>1. c.key \in Keys /\ c.key \notin excused /\ c.key \notin Forgotten
    BY <1>3, ReservationAssumption DEF OneKey, CallRecord
  <2>2. ~Kept(c.key)
    BY <1>1, <2>1 DEF Forgotten, Kept
  <2>3. \A i : ~Unconnected(i, c.ext)
    BY <1>3, <2>1, <2>2 DEF RepInv, RowsKept
  <2> QED
    BY <1>1, <2>3 DEF Unconnected
<1>4. RowsKept'
  BY <1>3 DEF RowsKept, OneKey
<1> QED
  BY <1>1, <1>2, <1>4 DEF RepInv

LEMMA RepInvStep == StoreInv /\ RepInv /\ [RepNext]_repVars => RepInv'
<1> SUFFICES ASSUME StoreInv, RepInv, [RepNext]_repVars PROVE RepInv'
  OBVIOUS
<1>1. CASE UNCHANGED repVars
  BY <1>1 DEF repVars, resVars, RepInv, OneSaves, RowsKept, Saving, Kept, Unconnected
<1>2. ASSUME ResNext,
             excused' = excused \cup Overlapped \cup CommitsUnheard \cup Forgotten
      PROVE  RepInv'
  <2>1. excused \subseteq excused'
    BY <1>2
  <2>2. CASE Restart
    BY <1>2, <2>2, RepRestart
  <2>3. ASSUME NEW w \in Workers, ServiceStep(w) PROVE RepInv'
    <3>1. PICK j \in JobRecord : job' = [job EXCEPT ![w] = j] /\ Follows(w, job[w], j)
      BY <2>3, CallFollows
    <3>2. /\ \A v \in Workers : job'[v] = IF v = w THEN j ELSE job[v]
          /\ j.pc # "read"
      BY <2>3, <3>1, RepFacts
    <3>3. \A v \in Workers : job'[v].pc = "read" => job'[v].call.key = None
      BY <3>2 DEF RepInv
    <3> QED
      BY <1>2, <2>3, <3>3, OneSavesService, RowsKeptService DEF RepInv
  <2>4. ASSUME NEW w \in Workers, NEW c \in Calls, StartPersist(w, c) PROVE RepInv'
    <3>1. PICK j : j = [IdleJob EXCEPT !.pc = "check", !.call = c]
      OBVIOUS
    <3>2. j.pc = "check"
      BY <3>1 DEF IdleJob
    <3>3. /\ job' = [job EXCEPT ![w] = j] /\ job[w].pc = "idle"
          /\ UNCHANGED <<rows, seenKeys>>
      BY <2>4, <3>1 DEF StartPersist
    <3> QED
      BY <2>1, <3>2, <3>3, RepOutside
  <2>5. ASSUME NEW w \in Workers, NEW i \in 1..MaxRows, StartCancel(w, i)
        PROVE  RepInv'
    <3>1. PICK j : j = [IdleJob EXCEPT !.pc = "read", !.id = i, !.call.op = "cancel"]
      OBVIOUS
    <3>2. j.pc = "read" /\ j.call.key = None
      BY <3>1 DEF IdleJob, NoCall
    <3>3. /\ job' = [job EXCEPT ![w] = j] /\ job[w].pc = "idle"
          /\ UNCHANGED <<rows, seenKeys>>
      BY <2>5, <3>1 DEF StartCancel
    <3> QED
      BY <2>1, <3>2, <3>3, RepOutside
  <2>6. ASSUME NEW w \in Workers, Return(w) PROVE RepInv'
    <3>1. PICK j : j = IdleJob
      OBVIOUS
    <3>2. /\ j.pc = "idle" /\ job[w].pc = "done" /\ job' = [job EXCEPT ![w] = j]
          /\ UNCHANGED <<rows, seenKeys>>
      BY <2>6, <3>1 DEF Return, IdleJob
    <3> QED
      BY <2>1, <3>2, RepOutside
  <2> QED
    BY <1>2, <2>2, <2>3, <2>4, <2>5, <2>6 DEF ResNext
<1> QED
  BY <1>1, <1>2 DEF RepNext

(* A booking without a channel connection that is always recorded under    *)
(* one key has one row, unless calls overlapped between check and mark, an *)
(* INSERT was committed unheard, or a restart forgot the key of a row.     *)
THEOREM SecondRowsExplained == RepSpec => []SecondRowExplained
<1>1. RepInit => StoreInv /\ RepInv
  <2>1. RepInit => StoreInv
    BY StoreInvInit DEF RepInit
  <2>2. RepInit => RepInv
    BY DEF RepInit, ResInit, RepInv, OneSaves, RowsKept, Saving, Kept, Unconnected,
           IdleJob, InSave
  <2> QED
    BY <2>1, <2>2
<1>2. StoreInv /\ [RepNext]_repVars => StoreInv'
  BY StoreInvStep DEF RepNext, repVars, resVars
<1>3. RepInv => SecondRowExplained
  BY DEF RepInv, RowsKept, SecondRowExplained, Unconnected
<1> QED
  BY <1>1, <1>2, <1>3, RepInvStep, PTL DEF RepSpec
=============================================================================
