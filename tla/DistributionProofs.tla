-------------------------- MODULE DistributionProofs --------------------------
(***************************************************************************)
(* Proofs about Distribution and the two modules it composes, Inventory    *)
(* and Channels, for every set of days, batches, calls, ids, properties,   *)
(* requests and pushes, and every table the instance starts with.          *)
(*                                                                         *)
(*   I    InventoryInv is inductive, and what follows from it.             *)
(*   II   ChannelsInv is inductive, and what follows from it.              *)
(*   III  Steps of a push: one lemma per action says what it changes.      *)
(*   IV   One group of facts per promise of the pushes, each with the      *)
(*        lemma that a step keeps it.                                      *)
(*   V    The composition: its steps are steps of its parts, and DistInv,  *)
(*        the parts' invariants with the groups, is inductive.             *)
(***************************************************************************)
EXTENDS Distribution, FiniteSetTheorems, TLAPS

-----------------------------------------------------------------------------
(* I.  Inventory.                                                          *)

At(b, pc) == {w \in Writes : write[w].batch = b /\ write[w].pc = pc}

(* A key protects its batch as long as nothing excused it: before the      *)
(* commit one call may hold the batch, after it none, and the key is       *)
(* marked or about to be.                                                  *)
Guarded(b) ==
  \/ /\ commits[b] = 0
     /\ At(b, "mark") = {}
     /\ \A v, w \in At(b, "upsert") : v = w
  \/ /\ commits[b] = 1
     /\ At(b, "upsert") = {}
     /\ b \in marked \/ At(b, "mark") # {}

(* A key that is marked, or refused, stands for a committed batch.         *)
MarksTrue ==
  /\ \A b \in marked : commits[b] > 0
  /\ \A w \in Writes :
       write[w].pc \in {"mark", "duplicate"} => commits[write[w].batch] > 0

InventoryInv ==
  /\ InvTypeOK
  /\ \A w \in Writes :
       /\ write[w].pc # "idle" => write[w].batch \in Batches
       /\ write[w].pc \in {"check", "mark", "duplicate"} => write[w].batch \in Keyed
  /\ MarksTrue
  /\ \A b \in Keyed \ excused : Guarded(b)

-----------------------------------------------------------------------------
LEMMA InventoryInit == InvInit => InventoryInv
<1> SUFFICES ASSUME InvInit PROVE InventoryInv
  OBVIOUS
<1>1. /\ inventory = [d \in Days |->
           [available |-> Opening, limits |-> Opening, version |-> 0]]
      /\ marked = {} /\ excused = {}
      /\ write = [w \in Writes |-> [pc |-> "idle", batch |-> NoBatch]]
      /\ commits = [b \in Batches |-> 0]
  BY DEF InvInit
<1>2. InvTypeOK
  BY <1>1, InventoryAssumption DEF InvTypeOK, DayRow, Call
<1>3. \A b \in Keyed : Guarded(b)
  BY <1>1, InventoryAssumption DEF Guarded, At
<1> QED
  BY <1>1, <1>2, <1>3 DEF InventoryInv, MarksTrue

LEMMA WriteType ==
  ASSUME InventoryInv, NEW w \in Writes
  PROVE  write[w] \in Call
BY DEF InventoryInv, InvTypeOK

(* A call moves on, and nothing is committed or marked.                    *)
LEMMA MoveStep ==
  ASSUME InventoryInv, NEW w \in Writes, NEW pc \in {"check", "upsert", "ok",
                                                    "duplicate", "error"},
         NEW b \in Batches, write' = [write EXCEPT ![w] = [pc |-> pc, batch |-> b]],
         UNCHANGED <<inventory, marked, commits>>, excused \subseteq excused',
         excused' \subseteq Batches,
         write[w].pc # "mark" \/ b \in excused',
         write[w].pc = "idle" \/ write[w].batch = b,
         pc \in {"check", "duplicate"} => b \in Keyed,
         pc = "duplicate" => b \in marked,
         (pc = "upsert" /\ b \in Keyed) =>
            (b \notin marked /\ (At(b, "upsert") \cup At(b, "mark") = {} \/ b \in excused'))
  PROVE  InventoryInv'
<1>1. write \in [Writes -> Call] /\ marked \subseteq Keyed /\ Keyed \subseteq Batches
  BY InventoryAssumption DEF InventoryInv, InvTypeOK
<1>2. \A v \in Writes : write'[v] = IF v = w THEN [pc |-> pc, batch |-> b] ELSE write[v]
  BY <1>1
<1>3. InvTypeOK'
  <2>1. write' \in [Writes -> Call]
    BY <1>1, <1>2 DEF Call
  <2> QED
    BY <2>1 DEF InventoryInv, InvTypeOK
<1>4. MarksTrue'
  BY <1>2 DEF InventoryInv, MarksTrue
<1>5. ASSUME NEW c \in Keyed \ excused' PROVE Guarded(c)'
  <2>1. Guarded(c)
    BY DEF InventoryInv
  <2>2. CASE c # b
    <3>1. /\ At(c, "mark")' = At(c, "mark") /\ At(c, "upsert")' = At(c, "upsert")
      <4>1. ~(write[w].batch = c /\ write[w].pc \in {"mark", "upsert"})
        BY <2>2
      <4> QED
        BY <1>2, <2>2, <4>1 DEF At
    <3> QED
      BY <2>1, <3>1 DEF Guarded
  <2>3. CASE c = b
    <3>1. At(c, "mark")' = At(c, "mark")
      BY <1>2, <2>3 DEF At
    <3>2. At(c, "upsert")' \subseteq At(c, "upsert") \cup {w}
      BY <1>2 DEF At
    <3>3. CASE pc # "upsert"
      <4>1. At(c, "upsert")' \subseteq At(c, "upsert")
        BY <1>2, <3>3 DEF At
      <4> QED
        BY <2>1, <3>1, <4>1 DEF Guarded
    <3>4. CASE pc = "upsert"
      <4>1. At(c, "upsert") = {} /\ At(c, "mark") = {} /\ c \notin marked
        BY <2>3, <3>4
      <4>2. commits[c] = 0
        BY <2>1, <4>1 DEF Guarded
      <4> QED
        BY <3>1, <3>2, <4>1, <4>2 DEF Guarded
    <3> QED
      BY <3>3, <3>4
  <2> QED
    BY <2>2, <2>3
<1>6. ASSUME NEW v \in Writes
      PROVE  /\ write'[v].pc # "idle" => write'[v].batch \in Batches
             /\ write'[v].pc \in {"check", "mark", "duplicate"}
                  => write'[v].batch \in Keyed
  BY <1>2 DEF InventoryInv
<1> QED
  BY <1>3, <1>4, <1>5, <1>6 DEF InventoryInv

(* The entries of a batch for a day are finitely many.                     *)
LEMMA EntriesFinite ==
  ASSUME NEW b \in Batches, NEW d \in Days
  PROVE  /\ IsFiniteSet(EntriesFor(b, d)) /\ Cardinality(EntriesFor(b, d)) \in Nat
         /\ d \notin DaysOf(b) => EntriesFor(b, d) = {}
<1>1. EntriesOf[b] \in Seq(Days)
  BY InventoryAssumption
<1>2. /\ Len(EntriesOf[b]) \in Nat
      /\ EntriesFor(b, d) \subseteq 1..Len(EntriesOf[b])
  BY <1>1 DEF EntriesFor
<1>3. IsFiniteSet(1..Len(EntriesOf[b]))
  BY <1>2, FS_Interval
<1>4. d \notin DaysOf(b) => EntriesFor(b, d) = {}
  BY DEF DaysOf, EntriesFor
<1> QED
  BY <1>2, <1>3, <1>4, FS_Subset, FS_CardinalityType

LEMMA CommitStep ==
  ASSUME InventoryInv, NEW w \in Writes, Commit(w)
  PROVE  InventoryInv'
<1>1. PICK b \in Batches : write[w].batch = b /\ write[w].pc = "upsert"
  BY DEF Commit, InventoryInv
<1>2. PICK pc \in {"mark", "ok"} :
        /\ pc = IF b \in Keyed THEN "mark" ELSE "ok"
        /\ write' = [write EXCEPT ![w].pc = pc]
  BY <1>1 DEF Commit
<1>3. /\ write \in [Writes -> Call] /\ commits \in [Batches -> Nat]
      /\ inventory \in [Days -> DayRow] /\ Keyed \subseteq Batches
      /\ commits' = [commits EXCEPT ![b] = @ + 1] /\ UNCHANGED <<marked, excused>>
  BY <1>1, InventoryAssumption DEF InventoryInv, InvTypeOK, Commit
<1>4. /\ write'[w] = [pc |-> pc, batch |-> b]
      /\ \A v \in Writes \ {w} : write'[v] = write[v]
  BY <1>1, <1>2, <1>3 DEF Call
<1>5. inventory' \in [Days -> DayRow]
  <2>1. inventory' = [d \in Days |-> IF d \in DaysOf(b) THEN UpsertInventoryDay(d, b)
                                     ELSE inventory[d]]
    BY <1>1 DEF Commit, UpsertBatch
  <2>2. \A d \in Days : UpsertInventoryDay(d, b) \in DayRow
    BY <1>3, EntriesFinite DEF UpsertInventoryDay, LimitsOf, DayRow
  <2> QED
    BY <1>3, <2>1, <2>2
<1>6. InvTypeOK'
  <2>1. write' \in [Writes -> Call]
    BY <1>2, <1>3 DEF Call
  <2> QED
    BY <1>3, <1>5, <2>1 DEF InventoryInv, InvTypeOK
<1>7. MarksTrue'
  BY <1>3, <1>4 DEF InventoryInv, MarksTrue, InvTypeOK
<1>8. ASSUME NEW c \in Keyed \ excused' PROVE Guarded(c)'
  <2>1. Guarded(c)
    BY <1>3 DEF InventoryInv
  <2>2. CASE c # b
    <3>1. /\ At(c, "mark")' = At(c, "mark") /\ At(c, "upsert")' = At(c, "upsert")
      BY <1>1, <1>4, <2>2 DEF At
    <3> QED
      BY <1>3, <2>1, <2>2, <3>1 DEF Guarded
  <2>3. CASE c = b
    <3>1. w \in At(c, "upsert") /\ commits[c] = 0 /\ At(c, "upsert") \subseteq {w}
      BY <1>1, <2>1, <2>3 DEF Guarded, At
    <3>2. At(c, "upsert")' = {} /\ w \in At(c, "mark")'
      BY <1>2, <1>4, <2>3, <3>1 DEF At
    <3> QED
      BY <1>3, <2>3, <3>1, <3>2 DEF Guarded
  <2> QED
    BY <2>2, <2>3
<1>9. ASSUME NEW v \in Writes
      PROVE  /\ write'[v].pc # "idle" => write'[v].batch \in Batches
             /\ write'[v].pc \in {"check", "mark", "duplicate"}
                  => write'[v].batch \in Keyed
  BY <1>2, <1>4 DEF InventoryInv
<1> QED
  BY <1>6, <1>7, <1>8, <1>9 DEF InventoryInv

LEMMA MarkKeyStep ==
  ASSUME InventoryInv, NEW w \in Writes, MarkKey(w)
  PROVE  InventoryInv'
<1>1. PICK b \in Keyed : write[w].batch = b /\ write[w].pc = "mark"
  BY DEF MarkKey, InventoryInv
<1>2. /\ write \in [Writes -> Call] /\ Keyed \subseteq Batches /\ marked \subseteq Keyed
      /\ write' = [write EXCEPT ![w].pc = "ok"] /\ UNCHANGED <<inventory, commits>>
      /\ \/ marked' = marked \cup {b} /\ UNCHANGED excused
         \/ excused' = excused \cup {b} /\ UNCHANGED marked
  BY <1>1, InventoryAssumption DEF MarkKey, InventoryInv, InvTypeOK
<1>3. /\ write'[w] = [pc |-> "ok", batch |-> b]
      /\ \A v \in Writes \ {w} : write'[v] = write[v]
  BY <1>1, <1>2 DEF Call
<1>4. InvTypeOK'
  <2>1. write' \in [Writes -> Call]
    BY <1>2 DEF Call
  <2> QED
    BY <1>2, <2>1 DEF InventoryInv, InvTypeOK
<1>5. MarksTrue'
  <2>1. MarksTrue
    BY DEF InventoryInv
  <2>2. commits[b] > 0
    BY <1>1, <2>1 DEF MarksTrue
  <2>3. commits' = commits /\ marked' \subseteq marked \cup {b}
    BY <1>2
  <2>4. \A c \in marked' : commits'[c] > 0
    BY <2>1, <2>2, <2>3 DEF MarksTrue
  <2>5. ASSUME NEW v \in Writes, write'[v].pc \in {"mark", "duplicate"}
        PROVE  commits'[write'[v].batch] > 0
    <3>1. v # w /\ write'[v] = write[v]
      BY <1>3, <2>5
    <3> QED
      BY <2>1, <2>3, <2>5, <3>1 DEF MarksTrue
  <2> QED
    BY <2>4, <2>5 DEF MarksTrue
<1>6. ASSUME NEW c \in Keyed \ excused' PROVE Guarded(c)'
  <2>1. Guarded(c)
    BY <1>2 DEF InventoryInv
  <2>2. At(c, "upsert")' = At(c, "upsert")
    BY <1>1, <1>3 DEF At
  <2>3. CASE c # b
    <3>1. At(c, "mark")' = At(c, "mark") /\ (c \in marked' <=> c \in marked)
      BY <1>1, <1>2, <1>3, <2>3 DEF At
    <3> QED
      BY <1>2, <2>1, <2>2, <3>1 DEF Guarded
  <2>4. CASE c = b
    <3>1. c \in marked' /\ w \in At(c, "mark")
      BY <1>1, <1>2, <2>4 DEF At
    <3> QED
      BY <1>2, <2>1, <2>2, <3>1 DEF Guarded
  <2> QED
    BY <2>3, <2>4
<1>7. ASSUME NEW v \in Writes
      PROVE  /\ write'[v].pc # "idle" => write'[v].batch \in Batches
             /\ write'[v].pc \in {"check", "mark", "duplicate"}
                  => write'[v].batch \in Keyed
  BY <1>2, <1>3 DEF InventoryInv
<1> QED
  BY <1>4, <1>5, <1>6, <1>7 DEF InventoryInv

LEMMA ExpireKeyStep ==
  ASSUME InventoryInv, NEW b \in Batches, ExpireKey(b)
  PROVE  InventoryInv'
<1>1. marked' = marked \ {b} /\ excused' = excused \cup {b}
      /\ UNCHANGED <<inventory, write, commits>>
  BY DEF ExpireKey
<1>2. InvTypeOK' /\ MarksTrue'
  BY <1>1 DEF InventoryInv, InvTypeOK, MarksTrue
<1>3. \A c \in Keyed \ excused' : Guarded(c)'
  BY <1>1 DEF InventoryInv, Guarded, At
<1> QED
  BY <1>1, <1>2, <1>3 DEF InventoryInv

LEMMA InventoryStep == InventoryInv /\ [InvNext]_invVars => InventoryInv'
<1> SUFFICES ASSUME InventoryInv, [InvNext]_invVars PROVE InventoryInv'
  OBVIOUS
<1>1. /\ write \in [Writes -> Call] /\ Keyed \subseteq Batches
      /\ excused \subseteq Batches /\ \A b \in FromPMS : b \notin Keyed
  <2>1. write \in [Writes -> Call] /\ excused \subseteq Batches
    BY DEF InventoryInv, InvTypeOK
  <2> QED
    BY <2>1, InventoryAssumption
<1>2. ASSUME NEW w \in Writes, NEW b \in Batches, Receive(w, b) \/ Ingest(w, b)
      PROVE  InventoryInv'
  <2>1. PICK pc \in {"check", "upsert"} :
          /\ write' = [write EXCEPT ![w] = [pc |-> pc, batch |-> b]]
          /\ pc = "check" <=> b \in Keyed
    BY <1>1, <1>2 DEF Receive, Ingest
  <2>2. write[w].pc = "idle" /\ UNCHANGED <<inventory, marked, commits, excused>>
    BY <1>2 DEF Receive, Ingest
  <2> QED
    BY <1>1, <2>1, <2>2, MoveStep
<1>3. ASSUME NEW w \in Writes, NEW pc \in {"upsert", "duplicate", "error"},
             write[w].pc # "idle", write' = [write EXCEPT ![w].pc = pc]
      PROVE  /\ write[w].batch \in Batches
             /\ write' = [write EXCEPT ![w] = [pc |-> pc, batch |-> write[w].batch]]
  <2>1. write[w] \in Call /\ write[w].batch \in Batches
    BY <1>1, <1>3 DEF InventoryInv
  <2>2. [write[w] EXCEPT !.pc = pc] = [pc |-> pc, batch |-> write[w].batch]
    BY <2>1 DEF Call
  <2>3. write' = [write EXCEPT ![w] = [write[w] EXCEPT !.pc = pc]]
    BY <1>3
  <2> QED
    BY <2>1, <2>2, <2>3
<1>4. ASSUME NEW w \in Writes, CheckKey(w) PROVE InventoryInv'
  <2>1. PICK pc \in {"upsert", "duplicate", "error"} :
          /\ pc = "duplicate" => write[w].batch \in marked
          /\ pc = "upsert" => write[w].batch \notin marked
          /\ write' = [write EXCEPT ![w].pc = pc]
          /\ excused' = IF pc = "upsert" /\ Rivals(w, write[w].batch) # {}
                        THEN excused \cup {write[w].batch} ELSE excused
    BY <1>4 DEF CheckKey
  <2>2. PICK b \in Keyed : b = write[w].batch /\ write[w].pc = "check"
    BY <1>4 DEF CheckKey, InventoryInv
  <2>3. write' = [write EXCEPT ![w] = [pc |-> pc, batch |-> b]] /\ b \in Batches
    BY <1>1, <1>3, <2>1, <2>2
  <2>4. Rivals(w, b) = At(b, "upsert") \cup At(b, "mark")
    BY <2>2 DEF Rivals, At
  <2>5. UNCHANGED <<inventory, marked, commits>>
    BY <1>4 DEF CheckKey
  <2>6. excused \subseteq excused' /\ excused' \subseteq Batches
    BY <1>1, <2>1, <2>2, <2>3
  <2>7. pc = "duplicate" => b \in marked
    BY <2>1, <2>2
  <2>8. (pc = "upsert" /\ b \in Keyed) =>
           (b \notin marked /\ (At(b, "upsert") \cup At(b, "mark") = {} \/ b \in excused'))
    BY <2>1, <2>2, <2>4
  <2> QED
    BY <2>2, <2>3, <2>5, <2>6, <2>7, <2>8, MoveStep
<1>5. ASSUME NEW w \in Writes, Rollback(w) \/ HangUp(w) PROVE InventoryInv'
  <2>1. /\ write[w].pc \in {"check", "upsert", "mark"}
        /\ write' = [write EXCEPT ![w].pc = "error"]
        /\ UNCHANGED <<inventory, marked, commits>>
        /\ excused' = IF write[w].pc = "mark" THEN excused \cup {write[w].batch}
                      ELSE excused
    <3>1. CASE Rollback(w)
      BY <3>1 DEF Rollback
    <3>2. CASE HangUp(w)
      <4>1. /\ write[w].pc \in {"check", "upsert", "mark"}
            /\ write' = [write EXCEPT ![w].pc = "error"]
            /\ UNCHANGED <<inventory, marked, commits>>
        BY <3>2 DEF HangUp
      <4>2. excused' = IF write[w].pc = "mark" THEN excused \cup {write[w].batch}
                       ELSE excused
        BY <3>2 DEF HangUp
      <4> QED
        BY <4>1, <4>2
    <3> QED
      BY <1>5, <3>1, <3>2
  <2>2. PICK b \in Batches : b = write[w].batch
    BY <2>1 DEF InventoryInv
  <2>3. write' = [write EXCEPT ![w] = [pc |-> "error", batch |-> b]]
    BY <1>3, <2>1, <2>2
  <2>4. /\ excused \subseteq excused' /\ excused' \subseteq Batches
        /\ write[w].pc # "mark" \/ b \in excused'
    BY <1>1, <2>1, <2>2
  <2> QED
    BY <2>1, <2>2, <2>3, <2>4, MoveStep
<1>6. CASE UNCHANGED invVars
  BY <1>6 DEF invVars, InventoryInv, InvTypeOK, MarksTrue, Guarded, At
<1> QED
  BY <1>2, <1>4, <1>5, <1>6, CommitStep, MarkKeyStep, ExpireKeyStep
  DEF InvNext, WriteStep

-----------------------------------------------------------------------------
(* Keys, marks and commits agree: a key that nothing excused guards its    *)
(* batch at every step of BulkUpsertInventory.                             *)
THEOREM InventoryInvariant == InvSpec => []InventoryInv
BY InventoryInit, InventoryStep, PTL DEF InvSpec

(* Rows, keys and calls keep their shapes.                                 *)
THEOREM InventoryTypeCorrect == InvSpec => []InvTypeOK
<1>1. InventoryInv => InvTypeOK
  BY DEF InventoryInv
<1> QED
  BY <1>1, InventoryInvariant, PTL

(* A batch with a key is committed once, unless two of its calls overlap,  *)
(* its mark is lost or its key expires.                                    *)
THEOREM KeysProtectBatches == InvSpec => []KeyedBatchOnce
<1>1. InventoryInv => KeyedBatchOnce
  BY DEF InventoryInv, Guarded, KeyedBatchOnce
<1> QED
  BY <1>1, InventoryInvariant, PTL

(* A call is refused as a duplicate only when its batch was committed.     *)
THEOREM DuplicatesWereWritten == InvSpec => []DuplicateWasWritten
<1>1. InventoryInv => DuplicateWasWritten
  BY DEF InventoryInv, MarksTrue, DuplicateWasWritten
<1> QED
  BY <1>1, InventoryInvariant, PTL

(* The entries committed for a day are counted by its version.             *)
Counted ==
  \A d \in Days : /\ IsFiniteSet(WritesOf(d))
                  /\ inventory[d].version = Cardinality(WritesOf(d))

(* A commit adds one write of a day for each of its batch's entries for it.*)
LEMMA OneMoreCommit ==
  ASSUME commits \in [Batches -> Nat], NEW b \in Batches, NEW d \in Days,
         commits' = [commits EXCEPT ![b] = @ + 1]
  PROVE  LET more == {<<b, commits[b] + 1>>} \X EntriesFor(b, d) IN
         /\ WritesOf(d)' = WritesOf(d) \cup more
         /\ WritesOf(d) \cap more = {}
<1> DEFINE Runs(c) == ({c} \X (1..commits[c])) \X EntriesFor(c, d)
           more == {<<b, commits[b] + 1>>} \X EntriesFor(b, d)
<1>1. /\ commits'[b] = commits[b] + 1 /\ commits[b] \in Nat
      /\ \A c \in Batches \ {b} : commits'[c] = commits[c]
  OBVIOUS
<1>2. \A x : x \in WritesOf(d) <=> \E c \in Batches : x \in Runs(c)
  BY DEF WritesOf
<1>3. \A x : x \in WritesOf(d)'
               <=> \E c \in Batches : x \in ({c} \X (1..commits'[c])) \X EntriesFor(c, d)
  BY DEF WritesOf, EntriesFor
<1>4. ASSUME NEW c \in Batches \ {b}
      PROVE  ({c} \X (1..commits'[c])) \X EntriesFor(c, d) = Runs(c)
  BY <1>1
<1>5. ({b} \X (1..commits'[b])) \X EntriesFor(b, d) = Runs(b) \cup more
  <2>1. 1..commits'[b] = (1..commits[b]) \cup {commits[b] + 1}
    BY <1>1
  <2>2. {b} \X (1..commits'[b]) = ({b} \X (1..commits[b])) \cup {<<b, commits[b] + 1>>}
    BY <2>1
  <2> QED
    BY <2>2
<1>6. ASSUME NEW x \in more PROVE x \notin WritesOf(d)
  <2>1. x[1] = <<b, commits[b] + 1>>
    OBVIOUS
  <2>2. ASSUME NEW c \in Batches, x \in Runs(c) PROVE FALSE
    <3>1. x[1] \in {c} \X (1..commits[c])
      BY <2>2
    <3> QED
      BY <1>1, <2>1, <3>1
  <2> QED
    BY <1>2, <2>2
<1>7. \A x : x \in WritesOf(d)' <=> x \in WritesOf(d) \cup more
  <2> HIDE DEF Runs, more
  <2> QED
    BY <1>2, <1>3, <1>4, <1>5
<1> QED
  BY <1>6, <1>7

LEMMA CountedStep == InventoryInv /\ Counted /\ [InvNext]_invVars => Counted'
<1> SUFFICES ASSUME InventoryInv, Counted, [InvNext]_invVars, NEW d \in Days
             PROVE  /\ IsFiniteSet(WritesOf(d)')
                    /\ inventory'[d].version = Cardinality(WritesOf(d)')
  BY DEF Counted
<1>1. IsFiniteSet(WritesOf(d)) /\ inventory[d].version = Cardinality(WritesOf(d))
  BY DEF Counted
<1>2. CASE UNCHANGED <<inventory, commits>>
  <2>1. WritesOf(d)' = WritesOf(d)
    BY <1>2 DEF WritesOf
  <2> QED
    BY <1>1, <1>2, <2>1
<1>3. ASSUME NEW w \in Writes, Commit(w)
      PROVE  /\ IsFiniteSet(WritesOf(d)')
             /\ inventory'[d].version = Cardinality(WritesOf(d)')
  <2>1. PICK b \in Batches : write[w].batch = b
    BY <1>3 DEF Commit, InventoryInv
  <2>2. commits' = [commits EXCEPT ![b] = @ + 1] /\ UpsertBatch(b)
    BY <1>3, <2>1 DEF Commit
  <2>3. commits \in [Batches -> Nat]
    BY DEF InventoryInv, InvTypeOK
  <2>4. PICK E, more : E = EntriesFor(b, d) /\ more = {<<b, commits[b] + 1>>} \X E
    OBVIOUS
  <2>5. /\ IsFiniteSet(E) /\ Cardinality(E) \in Nat
        /\ inventory'[d].version = inventory[d].version + Cardinality(E)
    <3>1. CASE d \in DaysOf(b)
      BY <2>2, <2>4, <3>1, EntriesFinite DEF UpsertBatch, UpsertInventoryDay
    <3>2. CASE d \notin DaysOf(b)
      <4>1. E = {} /\ IsFiniteSet(E) /\ Cardinality(E) = 0
        BY <2>4, <3>2, EntriesFinite, FS_EmptySet
      <4>2. inventory'[d] = inventory[d] /\ inventory[d].version \in Nat
        BY <2>2, <3>2 DEF UpsertBatch, InventoryInv, InvTypeOK, DayRow
      <4> QED
        BY <4>1, <4>2
    <3> QED
      BY <3>1, <3>2
  <2>6. IsFiniteSet(more) /\ Cardinality(more) = Cardinality(E)
    <3>1. PICK x : x = <<b, commits[b] + 1>>
      OBVIOUS
    <3>2. IsFiniteSet({x}) /\ Cardinality({x}) = 1
      BY FS_Singleton
    <3>3. IsFiniteSet({x} \X E) /\ Cardinality({x} \X E) = Cardinality({x}) * Cardinality(E)
      BY <2>5, <3>2, FS_Product
    <3> QED
      BY <2>4, <2>5, <3>1, <3>2, <3>3
  <2>7. WritesOf(d)' = WritesOf(d) \cup more /\ WritesOf(d) \cap more = {}
    BY <2>2, <2>3, <2>4, OneMoreCommit
  <2>8. PICK W : W = WritesOf(d)
    OBVIOUS
  <2>9. IsFiniteSet(W \cup more) /\ Cardinality(W \cup more) = Cardinality(W) + Cardinality(E)
    <3>1. IsFiniteSet(W) /\ Cardinality(W) \in Nat
      BY <1>1, <2>8, FS_CardinalityType
    <3>2. W \cap more = {} /\ Cardinality(W \cap more) = 0
      BY <2>7, <2>8, FS_EmptySet
    <3>3. IsFiniteSet(W \cup more)
          /\ Cardinality(W \cup more)
               = Cardinality(W) + Cardinality(more) - Cardinality(W \cap more)
      BY <2>6, <3>1, FS_Union
    <3> QED
      BY <2>5, <2>6, <3>1, <3>2, <3>3
  <2> QED
    BY <1>1, <2>5, <2>7, <2>8, <2>9
<1>4. (\E w \in Writes : Commit(w)) \/ UNCHANGED <<inventory, commits>>
  BY DEF InvNext, WriteStep, Receive, Ingest, CheckKey, Rollback, MarkKey, HangUp,
         ExpireKey, invVars
<1> QED
  BY <1>2, <1>3, <1>4

(* Every batch is written to all of its days or to none, and no write of a *)
(* day is lost between calls that overlap.                                 *)
THEOREM VersionsCountCommits == InvSpec => []VersionCountsCommits
<1>1. InvInit => Counted
  <2> SUFFICES ASSUME InvInit, NEW d \in Days
               PROVE  /\ IsFiniteSet(WritesOf(d))
                      /\ inventory[d].version = Cardinality(WritesOf(d))
    BY DEF Counted
  <2>1. inventory[d].version = 0 /\ \A b \in Batches : commits[b] = 0
    BY DEF InvInit
  <2>2. WritesOf(d) = {}
    BY <2>1 DEF WritesOf
  <2> QED
    BY <2>1, <2>2, FS_EmptySet
<1>2. Counted => VersionCountsCommits
  BY DEF Counted, VersionCountsCommits
<1> QED
  BY <1>1, <1>2, InventoryInvariant, CountedStep, PTL DEF InvSpec

-----------------------------------------------------------------------------
(* II.  Channels.                                                          *)

(* Ids are drawn once, and a request that links knows what it links.       *)
IdsSound ==
  /\ \A r \in connections : r.id \in drawn
  /\ \A h \in channels : h.id \in drawn
  /\ \A h, k \in channels : h.id = k.id => h = k

AdminsSound ==
  \A a \in Admins : admin[a].pc \in {"link", "insert"} =>
    admin[a].conn \in Conns /\ admin[a].prop \in Props

ChannelsInv ==
  /\ ChTypeOK
  /\ NamesUnique
  /\ OneChannelPerConnection
  /\ IdsSound
  /\ AdminsSound

(* The tables and the ids, without the requests.                           *)
TablesSound ==
  /\ connections \subseteq Connection
  /\ channels \subseteq Channel
  /\ drawn \subseteq Conns \cup Chans
  /\ NamesUnique
  /\ OneChannelPerConnection
  /\ IdsSound

-----------------------------------------------------------------------------
LEMMA ChannelsInit == ChInit => ChannelsInv
<1> SUFFICES ASSUME ChInit PROVE ChannelsInv
  OBVIOUS
<1>1. /\ connections = Connected /\ channels = Linked
      /\ drawn = {r.id : r \in Connected \cup Linked}
      /\ admin = [a \in Admins |-> IdleAdmin]
  BY DEF ChInit
<1>2. IdleAdmin \in AdminState /\ IdleAdmin.pc = "idle"
  BY DEF IdleAdmin, AdminState
<1>3. AdminsSound /\ admin \in [Admins -> AdminState]
  BY <1>1, <1>2 DEF AdminsSound
<1>4. drawn \subseteq Conns \cup Chans
  BY <1>1, ChannelsAssumption DEF Connection, Channel
<1>5. IdsSound
  BY <1>1, ChannelsAssumption DEF IdsSound
<1>6. NamesUnique /\ OneChannelPerConnection
  BY <1>1, ChannelsAssumption DEF NamesUnique, OneChannelPerConnection
<1> QED
  BY <1>1, <1>3, <1>4, <1>5, <1>6, ChannelsAssumption DEF ChannelsInv, ChTypeOK

(* A request moves on to a state of its type.                              *)
LEMMA OneAdmin ==
  ASSUME ChannelsInv, NEW a \in Admins, NEW s \in AdminState,
         admin' = [admin EXCEPT ![a] = s],
         s.pc \in {"link", "insert"} => s.conn \in Conns /\ s.prop \in Props
  PROVE  admin' \in [Admins -> AdminState] /\ AdminsSound'
<1>1. admin \in [Admins -> AdminState] /\ AdminsSound
  BY DEF ChannelsInv, ChTypeOK
<1>2. \A b \in Admins : admin'[b] = IF b = a THEN s ELSE admin[b]
  BY <1>1
<1> QED
  BY <1>1, <1>2 DEF AdminsSound

LEMMA AnswerStep ==
  ASSUME ChannelsInv, NEW a \in Admins,
         NEW answer \in {"created", "linked", "already_linked", "link_error",
                         "updated", "deleted", "paused", "active",
                         "disconnected", "error"},
         Answer(a, answer)
  PROVE  admin' \in [Admins -> AdminState] /\ AdminsSound'
<1> DEFINE s == [admin[a] EXCEPT !.pc = "done", !.answer = answer]
<1>1. admin[a] \in AdminState
  BY DEF ChannelsInv, ChTypeOK
<1>2. PICK t \in AdminState : t = s
  BY <1>1 DEF AdminState
<1>3. t.pc = "done"
  BY <1>1, <1>2 DEF AdminState
<1>4. admin' = [admin EXCEPT ![a] = t]
  BY <1>2 DEF Answer
<1> QED
  BY <1>3, <1>4, OneAdmin

LEMMA ChannelsParts ==
  ASSUME TablesSound, admin \in [Admins -> AdminState], AdminsSound
  PROVE  ChannelsInv
BY DEF TablesSound, ChannelsInv, ChTypeOK

LEMMA InvTables == ChannelsInv => TablesSound
BY DEF TablesSound, ChannelsInv, ChTypeOK

LEMMA CreateConnectionStep ==
  ASSUME ChannelsInv, NEW a \in Admins, NEW c \in Conns, NEW n \in Names,
         NEW p \in Props, NEW secret \in BOOLEAN, NEW link \in BOOLEAN,
         CreateConnection(a, c, n, p, secret, link)
  PROVE  ChannelsInv'
<1>1. TablesSound /\ admin[a] \in AdminState /\ c \notin drawn /\ UNCHANGED channels
  BY InvTables DEF CreateConnection, ChannelsInv, ChTypeOK
<1>2. CASE NameTaken(n, {})
  <2>1. Answer(a, "error") /\ UNCHANGED <<connections, drawn>>
    BY <1>2 DEF CreateConnection
  <2> QED
    BY <1>1, <2>1, AnswerStep, ChannelsParts
    DEF TablesSound, ChannelsInv, ChTypeOK, NamesUnique, OneChannelPerConnection, IdsSound
<1>3. CASE ~NameTaken(n, {})
  <2>1. PICK new \in Connection :
          new = [id |-> c, name |-> n, status |-> "active", hasSecret |-> secret]
    BY DEF Connection
  <2>2. connections' = connections \cup {new} /\ drawn' = drawn \cup {c}
        /\ new.id = c /\ new.name = n
    BY <1>3, <2>1 DEF CreateConnection, CreateConnectionRow
  <2>3. \A r \in connections : r.name # n /\ r.id # c
    BY <1>1, <1>3 DEF NameTaken, TablesSound, IdsSound
  <2>4. NamesUnique'
    BY <1>1, <2>2, <2>3 DEF NamesUnique, TablesSound
  <2>5. OneChannelPerConnection' /\ IdsSound'
    BY <1>1, <2>2 DEF OneChannelPerConnection, IdsSound, TablesSound
  <2>6. TablesSound'
    BY <1>1, <2>1, <2>2, <2>4, <2>5 DEF TablesSound
  <2>7. PICK s \in AdminState :
          /\ admin' = [admin EXCEPT ![a] = s]
          /\ s.conn = c /\ s.prop = p
    <3> DEFINE s == [admin[a] EXCEPT !.pc = IF link THEN "link" ELSE "done",
                       !.answer = IF link THEN "" ELSE "created",
                       !.conn = c, !.prop = p]
    <3>1. s \in AdminState /\ s.conn = c /\ s.prop = p
      BY <1>1 DEF AdminState
    <3>2. admin' = [admin EXCEPT ![a] = s]
      BY <1>3 DEF CreateConnection
    <3> QED
      BY <3>1, <3>2
  <2> QED
    BY <2>6, <2>7, OneAdmin DEF TablesSound, ChannelsInv, ChTypeOK
<1> QED
  BY <1>2, <1>3

(* Requests that read, fail or answer without touching a table.            *)
LEMMA ReadStep ==
  ASSUME ChannelsInv, UNCHANGED <<connections, channels, drawn>>,
         admin' \in [Admins -> AdminState], AdminsSound'
  PROVE  ChannelsInv'
BY InvTables DEF TablesSound, ChannelsInv, ChTypeOK, NamesUnique,
                 OneChannelPerConnection, IdsSound

LEMMA FindLinkStep ==
  ASSUME ChannelsInv, NEW a \in Admins, NEW c \in Conns, NEW p \in Props,
         FindLink(a, c, p)
  PROVE  ChannelsInv'
<1>1. UNCHANGED <<connections, channels, drawn>> /\ admin[a] \in AdminState
  BY DEF FindLink, ChannelsInv, ChTypeOK
<1>2. CASE Answer(a, "already_linked")
  BY <1>1, <1>2, AnswerStep, ReadStep
<1>3. CASE ~Answer(a, "already_linked")
  <2> DEFINE s == [admin[a] EXCEPT !.pc = "insert", !.conn = c, !.prop = p]
  <2>1. PICK t \in AdminState : t = s
    BY <1>1 DEF AdminState
  <2>2. t.conn = c /\ t.prop = p
    BY <1>1, <2>1 DEF AdminState
  <2>3. admin' = [admin EXCEPT ![a] = t]
    BY <1>3, <2>1 DEF FindLink
  <2> QED
    BY <1>1, <2>2, <2>3, OneAdmin, ReadStep
<1> QED
  BY <1>2, <1>3

LEMMA UpdateConnectionStep ==
  ASSUME ChannelsInv, NEW a \in Admins, NEW c \in Conns,
         NEW n \in Names \cup {NoId},
         NEW status \in {"", "active", "inactive", "disabled"},
         UpdateConnection(a, c, n, status)
  PROVE  ChannelsInv'
<1>1. UNCHANGED <<connections, channels, drawn>> /\ admin[a] \in AdminState
  BY DEF UpdateConnection, ChannelsInv, ChTypeOK
<1>2. CASE Answer(a, "error")
  BY <1>1, <1>2, AnswerStep, ReadStep
<1>3. CASE ~Answer(a, "error")
  <2> DEFINE s == [admin[a] EXCEPT !.pc = "status", !.conn = c, !.name = n,
                                   !.status = status]
  <2>1. PICK t \in AdminState : t = s
    BY <1>1 DEF AdminState
  <2>2. t.pc = "status"
    BY <1>1, <2>1 DEF AdminState
  <2>3. admin' = [admin EXCEPT ![a] = t]
    BY <1>3, <2>1 DEF UpdateConnection
  <2> QED
    BY <1>1, <2>2, <2>3, OneAdmin, ReadStep
<1> QED
  BY <1>2, <1>3

LEMMA AdminFailsStep ==
  ASSUME ChannelsInv, NEW a \in Admins, AdminFails(a)
  PROVE  ChannelsInv'
<1>1. UNCHANGED <<connections, channels, drawn>>
      /\ \E answer \in {"link_error", "error"} : Answer(a, answer)
  BY DEF AdminFails
<1> QED
  BY <1>1, AnswerStep, ReadStep

LEMMA ConnectChannelStep ==
  ASSUME ChannelsInv, NEW a \in Admins, NEW h \in Chans, ConnectChannel(a, h)
  PROVE  ChannelsInv'
<1> DEFINE c == admin[a].conn
           p == admin[a].prop
<1>1. UNCHANGED connections /\ c \in Conns /\ p \in Props /\ h \notin drawn /\ TablesSound
  BY InvTables DEF ConnectChannel, ChannelsInv, AdminsSound
<1>2. CASE UNCHANGED <<channels, drawn>>
  <2>1. \E answer \in {"link_error", "error", "linked"} : Answer(a, answer)
    BY DEF ConnectChannel
  <2> QED
    BY <1>1, <1>2, <2>1, AnswerStep, ReadStep
<1>3. CASE ~UNCHANGED <<channels, drawn>>
  <2>1. /\ GetConnectionByID(c) # {}
        /\ \A r \in channels : ~(r.prop = p /\ r.conn = c)
        /\ channels' = CreateChannelRow(h, p, c) /\ drawn' = drawn \cup {h}
        /\ Answer(a, "linked")
    BY <1>3 DEF ConnectChannel
  <2>2. PICK new \in Channel :
          new = [id |-> h, prop |-> p, conn |-> c, status |-> "active"]
    BY <1>1 DEF Channel
  <2>3. channels' = channels \cup {new}
        /\ new.id = h /\ new.prop = p /\ new.conn = c
    BY <2>1, <2>2 DEF CreateChannelRow
  <2>4. \E r \in connections : r.id = c
    BY <2>1 DEF GetConnectionByID
  <2> HIDE DEF c, p
  <2>5. OneChannelPerConnection'
    BY <1>1, <2>1, <2>3, <2>4 DEF OneChannelPerConnection, TablesSound
  <2>6. IdsSound'
    BY <1>1, <2>1, <2>3 DEF IdsSound, TablesSound
  <2>7. connections' \subseteq Connection /\ channels' \subseteq Channel
        /\ drawn' \subseteq Conns \cup Chans /\ NamesUnique'
    BY <1>1, <2>1, <2>2, <2>3 DEF TablesSound, NamesUnique
  <2>8. admin' \in [Admins -> AdminState] /\ AdminsSound'
    BY <2>1, AnswerStep
  <2> QED
    BY <2>5, <2>6, <2>7, <2>8 DEF ChannelsInv, ChTypeOK
<1> QED
  BY <1>2, <1>3

(* A statement on channels that keeps what the rows it leaves refer to.    *)
LEMMA ChannelRowsStep ==
  ASSUME ChannelsInv, UNCHANGED <<connections, drawn>>,
         channels' \subseteq Channel,
         \A k \in channels' : \E r \in channels :
           k.id = r.id /\ k.prop = r.prop /\ k.conn = r.conn,
         \A j, k \in channels' : j.id = k.id => j = k,
         admin' \in [Admins -> AdminState], AdminsSound'
  PROVE  ChannelsInv'
<1>1. OneChannelPerConnection'
  BY DEF ChannelsInv, OneChannelPerConnection, IdsSound
<1>2. IdsSound'
  BY DEF ChannelsInv, IdsSound
<1>3. ChTypeOK' /\ NamesUnique'
  BY DEF ChannelsInv, ChTypeOK, NamesUnique
<1> QED
  BY <1>1, <1>2, <1>3 DEF ChannelsInv

LEMMA SetChannelStateStep ==
  ASSUME ChannelsInv, NEW a \in Admins, NEW h \in Chans, NEW p \in Props,
         NEW op \in {"pause", "resume", "disconnect"}, SetChannelState(a, h, p, op)
  PROVE  ChannelsInv'
<1>1. UNCHANGED <<connections, drawn>>
      /\ \E answer \in {"error", "paused", "active", "disconnected"} : Answer(a, answer)
  BY DEF SetChannelState
<1>2. admin' \in [Admins -> AdminState] /\ AdminsSound'
  BY <1>1, AnswerStep
<1>3. channels \subseteq Channel /\ IdsSound
  BY DEF ChannelsInv, ChTypeOK
<1>4. CASE UNCHANGED channels
  BY <1>1, <1>2, <1>4, ReadStep
<1>5. CASE channels' = DeleteChannelRow(h)
  <2>1. channels' \subseteq channels
    BY <1>5 DEF DeleteChannelRow
  <2> QED
    BY <1>1, <1>2, <1>3, <2>1, ChannelRowsStep DEF IdsSound
<1>6. ASSUME NEW s \in {"paused", "active"}, channels' = UpdateChannelStatusRow(h, s)
      PROVE  ChannelsInv'
  <2> DEFINE new(r) == IF r.id = h THEN [r EXCEPT !.status = s] ELSE r
  <2>1. ASSUME NEW r \in Channel
        PROVE  /\ new(r) \in Channel
               /\ new(r).id = r.id /\ new(r).prop = r.prop /\ new(r).conn = r.conn
    BY DEF Channel
  <2>2. channels' = {new(r) : r \in channels}
    BY <1>6 DEF UpdateChannelStatusRow
  <2> HIDE DEF new
  <2>3. \A j, k \in channels' : j.id = k.id => j = k
    BY <1>3, <2>1, <2>2 DEF IdsSound
  <2>4. \A k \in channels' : \E r \in channels :
          /\ k.id = r.id /\ k.prop = r.prop /\ k.conn = r.conn
    BY <1>3, <2>1, <2>2
  <2>5. channels' \subseteq Channel
    BY <1>3, <2>1, <2>2
  <2> QED
    BY <1>1, <1>2, <2>3, <2>4, <2>5, ChannelRowsStep
<1> QED
  BY <1>4, <1>5, <1>6 DEF SetChannelState

(* A statement on connections that keeps their ids and the names apart.    *)
LEMMA ConnectionRowsStep ==
  ASSUME ChannelsInv, UNCHANGED <<channels, drawn>>,
         connections' \subseteq Connection, NamesUnique',
         \A q \in connections' : \E r \in connections : q.id = r.id,
         \A r \in connections : \E q \in connections' : q.id = r.id,
         admin' \in [Admins -> AdminState], AdminsSound'
  PROVE  ChannelsInv'
<1>1. OneChannelPerConnection'
  BY DEF ChannelsInv, OneChannelPerConnection
<1>2. IdsSound'
  BY DEF ChannelsInv, IdsSound
<1>3. ChTypeOK'
  BY DEF ChannelsInv, ChTypeOK
<1> QED
  BY <1>1, <1>2, <1>3 DEF ChannelsInv

LEMMA UpdateStatusStep ==
  ASSUME ChannelsInv, NEW a \in Admins, UpdateStatus(a)
  PROVE  ChannelsInv'
<1>1. UNCHANGED <<channels, drawn>> /\ admin[a] \in AdminState
      /\ connections \subseteq Connection /\ NamesUnique
      /\ admin \in [Admins -> AdminState]
  BY DEF UpdateStatus, ChannelsInv, ChTypeOK
<1>2. admin' \in [Admins -> AdminState] /\ AdminsSound'
  <2>1. PICK t \in AdminState : t = [admin[a] EXCEPT !.pc = "name"]
    BY <1>1 DEF AdminState
  <2>2. t.pc = "name"
    BY <1>1, <2>1 DEF AdminState
  <2>3. admin' = [admin EXCEPT ![a] = t]
    BY <1>1, <2>1 DEF UpdateStatus
  <2> QED
    BY <2>2, <2>3, OneAdmin
<1>3. CASE UNCHANGED connections
  BY <1>1, <1>2, <1>3, ReadStep
<1>4. CASE ~UNCHANGED connections
  <2>1. PICK s \in {"active", "inactive", "disabled"} : admin[a].status = s
    BY <1>1, <1>4 DEF UpdateStatus, AdminState
  <2>2. PICK c : c = admin[a].conn
    OBVIOUS
  <2> DEFINE new(r) == IF r.id = c THEN [r EXCEPT !.status = s] ELSE r
  <2>3. connections' = {new(r) : r \in connections}
    BY <1>4, <2>1, <2>2 DEF UpdateStatus, UpdateConnectionStatusRow
  <2>4. ASSUME NEW r \in Connection
        PROVE  new(r) \in Connection /\ new(r).id = r.id /\ new(r).name = r.name
    BY DEF Connection
  <2> HIDE DEF new
  <2>5. NamesUnique'
    BY <1>1, <2>3, <2>4 DEF NamesUnique
  <2>6. /\ connections' \subseteq Connection
        /\ \A q \in connections' : \E r \in connections : q.id = r.id
        /\ \A r \in connections : \E q \in connections' : q.id = r.id
    BY <1>1, <2>3, <2>4
  <2> QED
    BY <1>1, <1>2, <2>5, <2>6, ConnectionRowsStep
<1> QED
  BY <1>3, <1>4

LEMMA UpdateNameStep ==
  ASSUME ChannelsInv, NEW a \in Admins, UpdateName(a)
  PROVE  ChannelsInv'
<1>1. UNCHANGED <<channels, drawn>> /\ admin[a] \in AdminState
      /\ connections \subseteq Connection /\ NamesUnique
  BY DEF UpdateName, ChannelsInv, ChTypeOK
<1>2. admin' \in [Admins -> AdminState] /\ AdminsSound'
  <2>1. \E answer \in {"error", "updated"} : Answer(a, answer)
    BY DEF UpdateName
  <2> QED
    BY <2>1, AnswerStep
<1>3. CASE UNCHANGED connections
  BY <1>1, <1>2, <1>3, ReadStep
<1>4. CASE ~UNCHANGED connections
  <2>1. PICK n \in Names : admin[a].name = n
    BY <1>1, <1>4 DEF UpdateName, AdminState
  <2>2. PICK c : c = admin[a].conn
    OBVIOUS
  <2> DEFINE own == GetConnectionByID(c)
             new(r) == IF r.id = c THEN [r EXCEPT !.name = n] ELSE r
  <2>3. n # NoId
    BY ChannelsAssumption
  <2>4. /\ own = {} \/ ~NameTaken(n, own)
        /\ connections' = {new(r) : r \in connections}
    BY <1>4, <2>1, <2>2, <2>3 DEF UpdateName, UpdateConnectionNameRow
  <2>5. ASSUME NEW r \in Connection
        PROVE  /\ new(r) \in Connection /\ new(r).id = r.id
               /\ r.id = c => new(r).name = n
               /\ r.id # c => new(r) = r
    BY DEF Connection
  <2>6. \A r \in connections : r.id = c <=> r \in own
    BY DEF GetConnectionByID
  <2>7. own # {} => \A r \in connections : r.id # c => r.name # n
    BY <2>4, <2>6 DEF NameTaken
  <2> HIDE DEF own, new
  <2>8. NamesUnique'
    <3>1. ASSUME NEW r \in connections, NEW q \in connections,
                 new(r).name = new(q).name \/ new(r).id = new(q).id
          PROVE  r = q
      <4>1. CASE r.id = c /\ q.id = c
        BY <1>1, <4>1 DEF NamesUnique
      <4>2. CASE r.id # c /\ q.id # c
        BY <1>1, <2>5, <3>1, <4>2 DEF NamesUnique
      <4>3. CASE (r.id = c /\ q.id # c) \/ (r.id # c /\ q.id = c)
        <5>1. own # {}
          BY <2>6, <4>3
        <5> QED
          BY <1>1, <2>5, <2>7, <3>1, <4>3, <5>1
      <4> QED
        BY <4>1, <4>2, <4>3
    <3> QED
      BY <2>4, <3>1 DEF NamesUnique
  <2>9. /\ connections' \subseteq Connection
        /\ \A q \in connections' : \E r \in connections : q.id = r.id
        /\ \A r \in connections : \E q \in connections' : q.id = r.id
    BY <1>1, <2>4, <2>5
  <2> QED
    BY <1>1, <1>2, <2>8, <2>9, ConnectionRowsStep
<1> QED
  BY <1>3, <1>4

LEMMA DeleteConnectionStep ==
  ASSUME ChannelsInv, NEW a \in Admins, NEW c \in Conns, DeleteConnection(a, c)
  PROVE  ChannelsInv'
<1>1. admin' \in [Admins -> AdminState] /\ AdminsSound' /\ UNCHANGED drawn
  <2>1. \E answer \in {"error", "deleted"} : Answer(a, answer)
    BY DEF DeleteConnection
  <2> QED
    BY <2>1, AnswerStep DEF DeleteConnection
<1>2. CASE UNCHANGED <<connections, channels>>
  BY <1>1, <1>2, ReadStep
<1>3. CASE ~UNCHANGED <<connections, channels>>
  <2>1. /\ connections' = {r \in connections : r.id # c}
        /\ channels' = {h \in channels : h.conn # c}
    BY <1>3 DEF DeleteConnection, DeleteConnectionRow, GetConnectionByID, Cascade
  <2> QED
    BY <1>1, <2>1
    DEF ChannelsInv, ChTypeOK, NamesUnique, OneChannelPerConnection, IdsSound
<1> QED
  BY <1>2, <1>3

LEMMA ChannelsStep == ChannelsInv /\ [ChNext]_chVars => ChannelsInv'
<1> SUFFICES ASSUME ChannelsInv, [ChNext]_chVars PROVE ChannelsInv'
  OBVIOUS
<1>1. CASE UNCHANGED chVars
  BY <1>1 DEF chVars, ChannelsInv, ChTypeOK, NamesUnique, OneChannelPerConnection,
              IdsSound, AdminsSound
<1>2. ASSUME NEW a \in Admins, AdminStep(a) PROVE ChannelsInv'
  BY <1>2, CreateConnectionStep, FindLinkStep, ConnectChannelStep, SetChannelStateStep,
     UpdateConnectionStep, UpdateStatusStep, UpdateNameStep, AdminFailsStep
  DEF AdminStep
<1> QED
  BY <1>1, <1>2, DeleteConnectionStep DEF ChNext

-----------------------------------------------------------------------------
(* The tables meet their constraints, ids are drawn once, and a request    *)
(* that links knows what it links (createConnection, connectChannel).      *)
THEOREM ChannelsInvariant == ChSpec => []ChannelsInv
BY ChannelsInit, ChannelsStep, PTL DEF ChSpec

(* Rows, ids and requests keep their shapes.                               *)
THEOREM ChannelsTypeCorrect == ChSpec => []ChTypeOK
<1>1. ChannelsInv => ChTypeOK
  BY DEF ChannelsInv
<1> QED
  BY <1>1, ChannelsInvariant, PTL

(* A property has at most one channel on a connection, and a channel never *)
(* outlives its connection, however requests interleave.                   *)
THEOREM ChannelsLinkOnce == ChSpec => []OneChannelPerConnection
<1>1. ChannelsInv => OneChannelPerConnection
  BY DEF ChannelsInv
<1> QED
  BY <1>1, ChannelsInvariant, PTL

(* No create and no rename makes two connections alike.                    *)
THEOREM NamesStayUnique == ChSpec => []NamesUnique
<1>1. ChannelsInv => NamesUnique
  BY DEF ChannelsInv
<1> QED
  BY <1>1, ChannelsInvariant, PTL

-----------------------------------------------------------------------------
(* III.  Steps of a push.                                                  *)

(* What a channel would be told now.                                       *)
Current == InventoryToChannelUpdates(inventory)

(* The types of the pushes' variables, and of what they read.              *)
PushTypes ==
  /\ ratePoint \in Pushes \cup {NoId}
  /\ push \in [Pushes -> PushState]
  /\ jobs \subseteq Job
  /\ wire \subseteq Pushes \X Conns /\ taken \subseteq Pushes \X Conns
  /\ ota \in [Conns -> OtaState]
  /\ past \subseteq Updates
  /\ saved \subseteq Pushes /\ alone \subseteq Pushes
  /\ inventory \in [Days -> DayRow] /\ channels \subseteq Channel

(* The channel being dispatched to is on the list, and what was called was *)
(* called by a push that began.                                            *)
PushesSound ==
  /\ \A p \in Pushes :
       /\ push[p].pc \in {"idle", "save", "list"} => push[p].todo = {}
       /\ push[p].pc \in {"call", "close"} => push[p].at \in push[p].todo
       /\ push[p].pc = "done" => push[p].todo = {}
  /\ \A x \in wire \cup taken : push[x[1]].pc # "idle"

-----------------------------------------------------------------------------
(* A step changes the state of push p only.                                *)
OnlyPush(p) ==
  /\ push' \in [Pushes -> PushState]
  /\ \A q \in Pushes \ {p} : push'[q] = push[q]

(* It goes on with what it carries.                                        *)
Onward(p, pc, todo, at, good, failed) ==
  /\ OnlyPush(p)
  /\ push'[p].kind = push[p].kind /\ push'[p].data = push[p].data
  /\ push'[p].opened = push[p].opened
  /\ push'[p].pc = pc /\ push'[p].todo = todo /\ push'[p].at = at
  /\ push'[p].good = good /\ push'[p].failed = failed

(* It begins.                                                              *)
Begun(p, pc, kind, data) ==
  /\ OnlyPush(p)
  /\ push'[p].pc = pc /\ push'[p].kind = kind /\ push'[p].data = data
  /\ push'[p].opened = ActiveConns(channels)
  /\ push'[p].todo = push[p].todo /\ push'[p].at = push[p].at
  /\ push'[p].good = push[p].good /\ push'[p].failed = push[p].failed

LEMMA OnePush ==
  ASSUME push \in [Pushes -> PushState], NEW p \in Pushes, NEW t \in PushState,
         push' = [push EXCEPT ![p] = t]
  PROVE  OnlyPush(p) /\ push'[p] = t
BY DEF OnlyPush

LEMMA ActiveConnsType ==
  ASSUME channels \subseteq Channel
  PROVE  ActiveConns(channels) \subseteq Conns
BY DEF ActiveConns, Channel

LEMMA CurrentUpdates ==
  ASSUME inventory \in [Days -> DayRow]
  PROVE  /\ Current \in Updates
         /\ \A d \in Days : Current[d].available = inventory[d].available
BY DEF Current, InventoryToChannelUpdates, Updates, DayRow

LEMMA PushAvailabilityFacts ==
  ASSUME PushTypes, PushesSound, NEW p \in Pushes, PushAvailability(p)
  PROVE  /\ push[p].pc = "idle"
         /\ Begun(p, "list", "availability", Current)
<1>1. push \in [Pushes -> PushState] /\ push[p] \in PushState
  BY DEF PushTypes
<1>2. PICK t \in PushState : t = [push[p] EXCEPT !.pc = "list", !.kind = "availability",
                             !.data = Current, !.opened = ActiveConns(channels)]
  BY <1>1, ActiveConnsType, CurrentUpdates DEF PushState, PushTypes
<1>3. /\ t.pc = "list" /\ t.kind = "availability" /\ t.data = Current
      /\ t.todo = push[p].todo /\ t.at = push[p].at
      /\ t.good = push[p].good /\ t.failed = push[p].failed
      /\ t.opened = ActiveConns(channels)
  BY <1>1, <1>2 DEF PushState
<1>4. push' = [push EXCEPT ![p] = t]
  BY <1>2 DEF PushAvailability, Current
<1> QED
  BY <1>1, <1>3, <1>4, OnePush DEF PushAvailability, Begun

LEMMA PushRatesFacts ==
  ASSUME PushTypes, PushesSound, NEW p \in Pushes, PushRates(p)
  PROVE  /\ push[p].pc = "idle"
         /\ Begun(p, IF RoomsOf[p] = {} THEN "list" ELSE "save", "rates", push[p].data)
<1>1. push \in [Pushes -> PushState] /\ push[p] \in PushState
  BY DEF PushTypes
<1>2. PICK t \in PushState : t = [push[p] EXCEPT
        !.pc = IF RoomsOf[p] = {} THEN "list" ELSE "save", !.kind = "rates",
        !.opened = ActiveConns(channels)]
  BY <1>1, ActiveConnsType DEF PushState, PushTypes
<1>3. /\ t.pc = (IF RoomsOf[p] = {} THEN "list" ELSE "save") /\ t.kind = "rates" /\ t.data = push[p].data
      /\ t.todo = push[p].todo /\ t.at = push[p].at
      /\ t.good = push[p].good /\ t.failed = push[p].failed
      /\ t.opened = ActiveConns(channels)
  BY <1>1, <1>2 DEF PushState
<1>4. push' = [push EXCEPT ![p] = t]
  BY <1>2 DEF PushRates
<1> QED
  BY <1>1, <1>3, <1>4, OnePush DEF PushRates, Begun

LEMMA SaveRatesFacts ==
  ASSUME PushTypes, PushesSound, NEW p \in Pushes, SaveRates(p)
  PROVE  /\ push[p].pc = "save"
         /\ Onward(p, "list", push[p].todo, push[p].at, push[p].good, push[p].failed)
<1>1. push \in [Pushes -> PushState] /\ push[p] \in PushState
  BY DEF PushTypes
<1>2. PICK t \in PushState : t = [push[p] EXCEPT !.pc = "list"]
  BY <1>1, ActiveConnsType DEF PushState, PushTypes
<1>3. /\ t.pc = "list" /\ t.kind = push[p].kind /\ t.data = push[p].data
      /\ t.todo = push[p].todo /\ t.at = push[p].at
      /\ t.good = push[p].good /\ t.failed = push[p].failed
      /\ t.opened = push[p].opened
  BY <1>1, <1>2 DEF PushState
<1>4. push' = [push EXCEPT ![p] = t]
  BY <1>2 DEF SaveRates
<1> QED
  BY <1>1, <1>3, <1>4, OnePush DEF SaveRates, Onward

LEMMA PushFailsFacts ==
  ASSUME PushTypes, PushesSound, NEW p \in Pushes, PushFails(p)
  PROVE  /\ push[p].pc \in {"save", "list"}
         /\ Onward(p, "gone", push[p].todo, push[p].at, push[p].good, push[p].failed)
<1>1. push \in [Pushes -> PushState] /\ push[p] \in PushState
  BY DEF PushTypes
<1>2. PICK t \in PushState : t = [push[p] EXCEPT !.pc = "gone"]
  BY <1>1, ActiveConnsType DEF PushState, PushTypes
<1>3. /\ t.pc = "gone" /\ t.kind = push[p].kind /\ t.data = push[p].data
      /\ t.todo = push[p].todo /\ t.at = push[p].at
      /\ t.good = push[p].good /\ t.failed = push[p].failed
      /\ t.opened = push[p].opened
  BY <1>1, <1>2 DEF PushState
<1>4. push' = [push EXCEPT ![p] = t]
  BY <1>2 DEF PushFails
<1> QED
  BY <1>1, <1>3, <1>4, OnePush DEF PushFails, Onward

LEMMA ListChannelsFacts ==
  ASSUME PushTypes, PushesSound, NEW p \in Pushes, ListChannels(p)
  PROVE  /\ push[p].pc = "list"
         /\ Onward(p, "next", {r \in channels : r.prop = Prop /\ r.status = "active"},
                   push[p].at, push[p].good, push[p].failed)
<1>1. push \in [Pushes -> PushState] /\ push[p] \in PushState
  BY DEF PushTypes
<1>2. PICK t \in PushState : t = [push[p] EXCEPT !.pc = "next",
            !.todo = {r \in ListChannelsByProperty(Prop) : r.status = "active"}]
  BY <1>1, ActiveConnsType DEF PushState, PushTypes, ListChannelsByProperty
<1>3. /\ t.pc = "next" /\ t.kind = push[p].kind /\ t.data = push[p].data
      /\ t.todo = {r \in channels : r.prop = Prop /\ r.status = "active"}
      /\ t.at = push[p].at /\ t.good = push[p].good
      /\ t.failed = push[p].failed /\ t.opened = push[p].opened
  BY <1>1, <1>2 DEF PushState, ListChannelsByProperty
<1>4. push' = [push EXCEPT ![p] = t]
  BY <1>2 DEF ListChannels
<1> QED
  BY <1>1, <1>3, <1>4, OnePush DEF ListChannels, Onward

LEMMA AnswerPushFacts ==
  ASSUME PushTypes, PushesSound, NEW p \in Pushes, AnswerPush(p)
  PROVE  /\ push[p].pc = "next" /\ push[p].todo = {}
         /\ Onward(p, "done", push[p].todo, push[p].at, push[p].good, push[p].failed)
<1>1. push \in [Pushes -> PushState] /\ push[p] \in PushState
  BY DEF PushTypes
<1>2. PICK t \in PushState : t = [push[p] EXCEPT !.pc = "done"]
  BY <1>1, ActiveConnsType DEF PushState, PushTypes
<1>3. /\ t.pc = "done" /\ t.kind = push[p].kind /\ t.data = push[p].data
      /\ t.todo = push[p].todo /\ t.at = push[p].at
      /\ t.good = push[p].good /\ t.failed = push[p].failed
      /\ t.opened = push[p].opened
  BY <1>1, <1>2 DEF PushState
<1>4. push' = [push EXCEPT ![p] = t]
  BY <1>2 DEF AnswerPush
<1> QED
  BY <1>1, <1>3, <1>4, OnePush DEF AnswerPush, Onward

LEMMA HangUpPushFacts ==
  ASSUME PushTypes, PushesSound, NEW p \in Pushes, HangUpPush(p)
  PROVE  /\ InProgress(p)
         /\ Onward(p, "gone", {}, NoId, FALSE, push[p].failed)
<1>1. push \in [Pushes -> PushState] /\ push[p] \in PushState
  BY DEF PushTypes
<1>2. PICK t \in PushState : t = [push[p] EXCEPT !.pc = "gone", !.at = NoId, !.good = FALSE,
                             !.todo = {}]
  BY <1>1, ActiveConnsType DEF PushState, PushTypes
<1>3. /\ t.pc = "gone" /\ t.kind = push[p].kind /\ t.data = push[p].data
      /\ t.todo = {} /\ t.at = NoId /\ t.good = FALSE
      /\ t.failed = push[p].failed /\ t.opened = push[p].opened
  BY <1>1, <1>2 DEF PushState
<1>4. push' = [push EXCEPT ![p] = t]
  BY <1>2 DEF HangUpPush
<1> QED
  BY <1>1, <1>3, <1>4, OnePush DEF HangUpPush, Onward

LEMMA SkipFacts ==
  ASSUME PushTypes, NEW p \in Pushes, NEW r \in push[p].todo, Skip(p, r)
  PROVE  Onward(p, push[p].pc, push[p].todo \ {r}, push[p].at, push[p].good,
                push[p].failed + 1)
<1>1. push \in [Pushes -> PushState] /\ push[p] \in PushState
  BY DEF PushTypes
<1>2. PICK left \in SUBSET Channel, n \in Nat :
        left = push[p].todo \ {r} /\ n = push[p].failed + 1
  <2>1. push[p].todo \ {r} \in SUBSET Channel /\ push[p].failed + 1 \in Nat
    BY <1>1 DEF PushState
  <2> QED
    BY <2>1
<1>3. PICK t \in PushState : t = [push[p] EXCEPT !.todo = left, !.failed = n]
  BY <1>1 DEF PushState
<1>4. /\ t.pc = push[p].pc /\ t.kind = push[p].kind
      /\ t.data = push[p].data /\ t.todo = left
      /\ t.at = push[p].at /\ t.good = push[p].good
      /\ t.failed = n /\ t.opened = push[p].opened
  BY <1>1, <1>3 DEF PushState
<1>5. push' = [push EXCEPT ![p] = t]
  BY <1>2, <1>3 DEF Skip
<1> QED
  BY <1>1, <1>2, <1>4, <1>5, OnePush DEF Onward

(* OpenJob either opens a job and calls, or leaves a channel out.          *)
LEMMA OpenJobFacts ==
  ASSUME PushTypes, PushesSound, NEW p \in Pushes, OpenJob(p)
  PROVE  /\ push[p].pc = "next"
         /\ \E r \in push[p].todo :
              \/ /\ GetConnectionByID(r.conn) # {}
                 /\ jobs' = CreateSyncJob(p, r)
                 /\ Onward(p, "call", push[p].todo, r, push[p].good, push[p].failed)
              \/ /\ Onward(p, "next", push[p].todo \ {r}, push[p].at, push[p].good,
                           push[p].failed + 1)
                 /\ UNCHANGED jobs
<1>1. push \in [Pushes -> PushState] /\ push[p] \in PushState /\ push[p].pc = "next"
  BY DEF PushTypes, OpenJob
<1>2. PICK r \in push[p].todo :
        \/ /\ GetConnectionByID(r.conn) # {} /\ jobs' = CreateSyncJob(p, r)
           /\ push' = [push EXCEPT ![p] = [push[p] EXCEPT !.pc = "call", !.at = r]]
        \/ Skip(p, r) /\ UNCHANGED jobs
  BY DEF OpenJob
<1>3. CASE Skip(p, r) /\ UNCHANGED jobs
  BY <1>1, <1>3, SkipFacts
<1>4. CASE ~(Skip(p, r) /\ UNCHANGED jobs)
  <2>1. PICK t \in PushState : t = [push[p] EXCEPT !.pc = "call", !.at = r]
    BY <1>1 DEF PushState
  <2>2. /\ t.pc = "call" /\ t.kind = push[p].kind /\ t.data = push[p].data
        /\ t.todo = push[p].todo /\ t.at = r /\ t.good = push[p].good
        /\ t.failed = push[p].failed /\ t.opened = push[p].opened
    BY <1>1, <2>1 DEF PushState
  <2>3. Onward(p, "call", push[p].todo, r, push[p].good, push[p].failed)
    BY <1>1, <1>2, <1>4, <2>1, <2>2, OnePush DEF Onward
  <2> QED
    BY <1>1, <1>2, <1>4, <2>3
<1> QED
  BY <1>3, <1>4

(* CallAdapter: the OTA takes the call, or its answer is lost.             *)
LEMMA CallAdapterFacts ==
  ASSUME PushTypes, PushesSound, NEW p \in Pushes, CallAdapter(p)
  PROVE  /\ push[p].pc = "call" /\ push[p].at \in push[p].todo
         /\ push[p].at.conn \in Conns
         /\ \/ /\ Onward(p, "close", push[p].todo, push[p].at, TRUE, push[p].failed)
               /\ ota' = Shown(p, push[p].at.conn)
               /\ taken' = taken \cup {<<p, push[p].at.conn>>} /\ UNCHANGED wire
            \/ /\ Onward(p, "close", push[p].todo, push[p].at, FALSE, push[p].failed)
               /\ UNCHANGED <<ota, taken>>
               /\ wire' \in {wire, wire \cup {<<p, push[p].at.conn>>}}
<1>1. /\ push \in [Pushes -> PushState] /\ push[p] \in PushState
      /\ push[p].pc = "call" /\ push[p].at \in push[p].todo
  BY DEF PushTypes, PushesSound, CallAdapter
<1>2. push[p].at \in Channel
  BY <1>1 DEF PushState
<1>3. push[p].at.conn \in Conns
  BY <1>2 DEF Channel
<1>4. ASSUME NEW g \in BOOLEAN,
             push' = [push EXCEPT ![p] = [push[p] EXCEPT !.pc = "close", !.good = g]]
      PROVE  Onward(p, "close", push[p].todo, push[p].at, g, push[p].failed)
  <2>1. PICK t \in PushState : t = [push[p] EXCEPT !.pc = "close", !.good = g]
    BY <1>1 DEF PushState
  <2>2. /\ t.pc = "close" /\ t.kind = push[p].kind /\ t.data = push[p].data
        /\ t.todo = push[p].todo /\ t.at = push[p].at /\ t.good = g
        /\ t.failed = push[p].failed /\ t.opened = push[p].opened
    BY <1>1, <2>1 DEF PushState
  <2> QED
    BY <1>1, <1>4, <2>1, <2>2, OnePush DEF Onward
<1> QED
  BY <1>1, <1>3, <1>4 DEF CallAdapter, LoseAnswer

LEMMA CloseJobFacts ==
  ASSUME PushTypes, PushesSound, NEW p \in Pushes, CloseJob(p)
  PROVE  /\ push[p].pc = "close" /\ push[p].at \in push[p].todo
         /\ Onward(p, "next", push[p].todo \ {push[p].at}, NoId, FALSE,
                   IF push[p].good THEN push[p].failed ELSE push[p].failed + 1)
<1>1. /\ push \in [Pushes -> PushState] /\ push[p] \in PushState
      /\ push[p].pc = "close" /\ push[p].at \in push[p].todo
  BY DEF PushTypes, CloseJob, PushesSound
<1>2. PICK left \in SUBSET Channel, n \in Nat :
        /\ left = push[p].todo \ {push[p].at}
        /\ n = IF push[p].good THEN push[p].failed ELSE push[p].failed + 1
  <2>1. push[p].todo \ {push[p].at} \in SUBSET Channel
    BY <1>1 DEF PushState
  <2>2. push[p].failed \in Nat /\ push[p].failed + 1 \in Nat
    BY <1>1 DEF PushState
  <2> QED
    BY <2>1, <2>2
<1>3. PICK t \in PushState :
        t = [push[p] EXCEPT !.pc = "next", !.at = NoId, !.good = FALSE, !.todo = left,
                            !.failed = n]
  BY <1>1 DEF PushState
<1>4. /\ t.pc = "next" /\ t.kind = push[p].kind
      /\ t.data = push[p].data /\ t.todo = left
      /\ t.at = NoId /\ t.good = FALSE
      /\ t.failed = n /\ t.opened = push[p].opened
  BY <1>1, <1>3 DEF PushState
<1>5. push' = [push EXCEPT ![p] = t]
  BY <1>2, <1>3 DEF CloseJob
<1> QED
  BY <1>1, <1>2, <1>4, <1>5, OnePush DEF Onward

(* A step of one push leaves the others as they are.                       *)
LEMMA OnlyOnePush ==
  ASSUME PushTypes, PushesSound, NEW p \in Pushes, PushStep(p)
  PROVE  \A q \in Pushes \ {p} : push'[q] = push[q]
<1> SUFFICES OnlyPush(p) \/ UNCHANGED push
  BY DEF OnlyPush
<1>1. CASE PushAvailability(p)
  BY <1>1, PushAvailabilityFacts DEF Begun
<1>2. CASE PushRates(p)
  BY <1>2, PushRatesFacts DEF Begun
<1>3. CASE SaveRates(p)
  BY <1>3, SaveRatesFacts DEF Onward
<1>4. CASE PushFails(p)
  BY <1>4, PushFailsFacts DEF Onward
<1>5. CASE ListChannels(p)
  BY <1>5, ListChannelsFacts DEF Onward
<1>6. CASE OpenJob(p)
  <2>1. PICK pc, todo, at, good, failed : Onward(p, pc, todo, at, good, failed)
    BY <1>6, OpenJobFacts
  <2> QED
    BY <2>1 DEF Onward
<1>7. CASE CallAdapter(p)
  BY <1>7, CallAdapterFacts DEF Onward
<1>8. CASE CloseJob(p)
  BY <1>8, CloseJobFacts DEF Onward
<1>9. CASE AnswerPush(p)
  BY <1>9, AnswerPushFacts DEF Onward
<1>10. CASE HangUpPush(p)
  BY <1>10, HangUpPushFacts DEF Onward
<1>11. CASE \E c \in Conns : ArriveLate(p, c)
  BY <1>11 DEF ArriveLate
<1> QED
  BY <1>1, <1>2, <1>3, <1>4, <1>5, <1>6, <1>7, <1>8, <1>9, <1>10, <1>11 DEF PushStep

(* A step of an admin widens what the pushes under way had before them.    *)
LEMMA AdminsFacts ==
  ASSUME PushTypes, NEW a \in Admins, AdminsStep(a), channels' \subseteq Channel
  PROVE  /\ push' \in [Pushes -> PushState]
         /\ \A p \in Pushes :
              /\ push'[p].pc = push[p].pc /\ push'[p].kind = push[p].kind
              /\ push'[p].data = push[p].data /\ push'[p].todo = push[p].todo
              /\ push'[p].at = push[p].at /\ push'[p].good = push[p].good
              /\ push'[p].failed = push[p].failed
              /\ push'[p].opened = IF InProgress(p)
                                    THEN push[p].opened \cup ActiveConns(channels')
                                    ELSE push[p].opened
<1>1. ActiveConns(channels') \subseteq Conns
  BY DEF ActiveConns, Channel
<1>2. PICK open : open = ActiveConns(channels')
  OBVIOUS
<1>3. push' = [p \in Pushes |->
        IF InProgress(p) THEN [push[p] EXCEPT !.opened = @ \cup open] ELSE push[p]]
  BY <1>2 DEF AdminsStep
<1>4. ASSUME NEW p \in Pushes
      PROVE  /\ [push[p] EXCEPT !.opened = @ \cup open] \in PushState
             /\ [push[p] EXCEPT !.opened = @ \cup open].opened = push[p].opened \cup open
  BY <1>1, <1>2 DEF PushTypes, PushState
<1> QED
  BY <1>2, <1>3, <1>4 DEF PushTypes, PushState

(* What the OTA behind connection c shows after it took the call of p.     *)
LEMMA ShownFacts ==
  ASSUME PushTypes, NEW p \in Pushes, NEW c \in Conns
  PROVE  /\ Shown(p, c) \in [Conns -> OtaState]
         /\ \A d \in Conns \ {c} : Shown(p, c)[d] = ota[d]
         /\ push[p].kind = "availability" =>
              /\ Shown(p, c)[c].rates = ota[c].rates
              /\ Shown(p, c)[c].availability =
                   [d \in Days |-> IF push[p].data[d].available # NoBatch
                                   THEN push[p].data[d] ELSE ota[c].availability[d]]
         /\ push[p].kind # "availability" =>
              /\ Shown(p, c)[c].availability = ota[c].availability
              /\ Shown(p, c)[c].rates =
                   [r \in Rooms |-> IF r \in RoomsOf[p] THEN p ELSE ota[c].rates[r]]
<1>1. ota \in [Conns -> OtaState] /\ ota[c] \in OtaState /\ push[p].data \in Updates
  BY DEF PushTypes, PushState
<1>2. PICK days \in Updates :
        days = [d \in Days |-> IF push[p].data[d].available # NoBatch
                               THEN push[p].data[d] ELSE ota[c].availability[d]]
  BY <1>1 DEF OtaState, Updates
<1>3. PICK rates \in [Rooms -> Pushes \cup {NoId}] :
        rates = [r \in Rooms |-> IF r \in RoomsOf[p] THEN p ELSE ota[c].rates[r]]
  BY <1>1 DEF OtaState
<1>4. CASE push[p].kind = "availability"
  <2>1. PICK o \in OtaState : o = [ota[c] EXCEPT !.availability = days]
    BY <1>1, <1>2 DEF OtaState
  <2>2. o.availability = days /\ o.rates = ota[c].rates
    BY <1>1, <2>1 DEF OtaState
  <2>3. Shown(p, c) = [ota EXCEPT ![c] = o]
    BY <1>2, <1>4, <2>1 DEF Shown
  <2> QED
    BY <1>1, <1>2, <1>4, <2>2, <2>3
<1>5. CASE push[p].kind # "availability"
  <2>1. PICK o \in OtaState : o = [ota[c] EXCEPT !.rates = rates]
    BY <1>1, <1>3 DEF OtaState
  <2>2. o.rates = rates /\ o.availability = ota[c].availability
    BY <1>1, <2>1 DEF OtaState
  <2>3. Shown(p, c) = [ota EXCEPT ![c] = o]
    BY <1>3, <1>5, <2>1 DEF Shown
  <2> QED
    BY <1>1, <1>3, <1>5, <2>2, <2>3
<1> QED
  BY <1>4, <1>5

-----------------------------------------------------------------------------
(* IV.  What the pushes promise.                                           *)

(* A step of push p keeps the pushes sound when it leaves p sound.         *)
LEMMA SoundMove ==
  ASSUME PushTypes, PushesSound, NEW p \in Pushes, OnlyPush(p),
         push'[p].pc # "idle",
         push'[p].pc \in {"save", "list", "done"} => push'[p].todo = {},
         push'[p].pc \in {"call", "close"} => push'[p].at \in push'[p].todo,
         \A x \in (wire \cup taken)' : x \in wire \cup taken \/ x[1] = p
  PROVE  PushesSound'
<1>1. \A q \in Pushes \ {p} : push'[q] = push[q]
  BY DEF OnlyPush
<1>2. ASSUME NEW q \in Pushes
      PROVE  /\ push'[q].pc \in {"idle", "save", "list"} => push'[q].todo = {}
             /\ push'[q].pc \in {"call", "close"} => push'[q].at \in push'[q].todo
             /\ push'[q].pc = "done" => push'[q].todo = {}
  <2>1. CASE q = p
    BY <2>1
  <2>2. CASE q # p
    <3>1. push'[q] = push[q]
      BY <1>1, <2>2
    <3> QED
      BY <3>1 DEF PushesSound
  <2> QED
    BY <2>1, <2>2
<1>3. ASSUME NEW x \in (wire \cup taken)' PROVE push'[x[1]].pc # "idle"
  <2>1. CASE x[1] = p
    BY <2>1
  <2>2. CASE x[1] # p
    <3>1. x \in wire \cup taken /\ x[1] \in Pushes
      BY <2>2 DEF PushTypes
    <3>2. push'[x[1]] = push[x[1]] /\ push[x[1]].pc # "idle"
      BY <1>1, <2>2, <3>1 DEF PushesSound
    <3> QED
      BY <3>2
  <2> QED
    BY <2>1, <2>2
<1> QED
  BY <1>2, <1>3 DEF PushesSound

(* Steps that open no job and make no call.                                *)
LEMMA PlainStep ==
  ASSUME PushTypes, PushesSound, NEW p \in Pushes, OnlyPush(p),
         push'[p].pc # "idle",
         push'[p].pc \in {"save", "list", "done"} => push'[p].todo = {},
         push'[p].pc \notin {"call", "close"},
         UNCHANGED <<inventory, channels, jobs, wire, ota, past, taken>>,
         ratePoint' \in {ratePoint, p}, saved' \in {saved, saved \cup {p}},
         alone' \in {alone, {p}, {}}
  PROVE  PushTypes' /\ PushesSound'
<1>1. PushesSound'
  BY SoundMove
<1>2. push' \in [Pushes -> PushState]
  BY DEF OnlyPush
<1>3. /\ ratePoint' \in Pushes \cup {NoId}
      /\ saved' \subseteq Pushes /\ alone' \subseteq Pushes
  BY DEF PushTypes
<1> QED
  BY <1>1, <1>2, <1>3 DEF PushTypes

LEMMA TypesStep ==
  ASSUME PushTypes, PushesSound, Next, InvTypeOK', ChTypeOK'
  PROVE  PushTypes' /\ PushesSound'
<1>1. ASSUME NEW p \in Pushes, PushAvailability(p) PROVE PushTypes' /\ PushesSound'
  <2>1. push[p].pc = "idle" /\ Begun(p, "list", "availability", Current)
    BY <1>1, PushAvailabilityFacts
  <2>2. OnlyPush(p) /\ push'[p].pc = "list" /\ push'[p].todo = push[p].todo
    BY <2>1 DEF Begun
  <2>3. push'[p].todo = {}
    BY <2>1, <2>2 DEF PushesSound
  <2>4. /\ UNCHANGED <<inventory, channels, jobs, wire, ota, past, taken>>
        /\ ratePoint' \in {ratePoint, p} /\ saved' \in {saved, saved \cup {p}}
        /\ alone' \in {alone, {p}, {}}
    BY <1>1 DEF PushAvailability, invVars, chVars
  <2> QED
    BY <2>2, <2>3, <2>4, PlainStep
<1>2. ASSUME NEW p \in Pushes, PushRates(p) PROVE PushTypes' /\ PushesSound'
  <2>1. PICK pc \in {"list", "save"} :
          push[p].pc = "idle" /\ Begun(p, pc, "rates", push[p].data)
    BY <1>2, PushRatesFacts
  <2>2. OnlyPush(p) /\ push'[p].pc = pc /\ push'[p].todo = push[p].todo
    BY <2>1 DEF Begun
  <2>3. push'[p].todo = {}
    BY <2>1, <2>2 DEF PushesSound
  <2>4. /\ UNCHANGED <<inventory, channels, jobs, wire, ota, past, taken>>
        /\ ratePoint' \in {ratePoint, p} /\ saved' \in {saved, saved \cup {p}}
        /\ alone' \in {alone, {p}, {}}
    BY <1>2 DEF PushRates, invVars, chVars
  <2> QED
    BY <2>2, <2>3, <2>4, PlainStep
<1>3. ASSUME NEW p \in Pushes, SaveRates(p) PROVE PushTypes' /\ PushesSound'
  <2>1. push[p].pc = "save"
        /\ Onward(p, "list", push[p].todo, push[p].at, push[p].good, push[p].failed)
    BY <1>3, SaveRatesFacts
  <2>2. OnlyPush(p) /\ push'[p].pc = "list" /\ push'[p].todo = push[p].todo
    BY <2>1 DEF Onward
  <2>3. push'[p].todo = {}
    BY <2>1, <2>2 DEF PushesSound
  <2>4. /\ UNCHANGED <<inventory, channels, jobs, wire, ota, past, taken>>
        /\ ratePoint' \in {ratePoint, p} /\ saved' \in {saved, saved \cup {p}}
        /\ alone' \in {alone, {p}, {}}
    BY <1>3 DEF SaveRates, invVars, chVars
  <2> QED
    BY <2>2, <2>3, <2>4, PlainStep
<1>4. ASSUME NEW p \in Pushes, PushFails(p) PROVE PushTypes' /\ PushesSound'
  <2>1. push[p].pc \in {"save", "list"}
        /\ Onward(p, "gone", push[p].todo, push[p].at, push[p].good, push[p].failed)
    BY <1>4, PushFailsFacts
  <2>2. OnlyPush(p) /\ push'[p].pc = "gone"
    BY <2>1 DEF Onward
  <2>4. /\ UNCHANGED <<inventory, channels, jobs, wire, ota, past, taken>>
        /\ ratePoint' \in {ratePoint, p} /\ saved' \in {saved, saved \cup {p}}
        /\ alone' \in {alone, {p}, {}}
    BY <1>4 DEF PushFails, invVars, chVars
  <2> QED
    BY <2>2, <2>4, PlainStep
<1>5. ASSUME NEW p \in Pushes, ListChannels(p) PROVE PushTypes' /\ PushesSound'
  <2>1. push[p].pc = "list"
        /\ Onward(p, "next", {r \in channels : r.prop = Prop /\ r.status = "active"},
                  push[p].at, push[p].good, push[p].failed)
    BY <1>5, ListChannelsFacts
  <2>2. OnlyPush(p) /\ push'[p].pc = "next"
    BY <2>1 DEF Onward
  <2>4. /\ UNCHANGED <<inventory, channels, jobs, wire, ota, past, taken>>
        /\ ratePoint' \in {ratePoint, p} /\ saved' \in {saved, saved \cup {p}}
        /\ alone' \in {alone, {p}, {}}
    BY <1>5 DEF ListChannels, invVars, chVars
  <2> QED
    BY <2>2, <2>4, PlainStep
<1>6. ASSUME NEW p \in Pushes, OpenJob(p) PROVE PushTypes' /\ PushesSound'
  <2>1. push' \in [Pushes -> PushState] /\ PushesSound'
    <3>1. PICK r \in push[p].todo, n \in Nat :
            \/ Onward(p, "call", push[p].todo, r, push[p].good, n)
            \/ Onward(p, "next", push[p].todo \ {r}, push[p].at, push[p].good, n)
      <4>1. push[p].failed \in Nat /\ push[p].failed + 1 \in Nat
        BY DEF PushTypes, PushState
      <4> QED
        BY <1>6, <4>1, OpenJobFacts
    <3>2. wire' = wire /\ taken' = taken
      BY <1>6 DEF OpenJob
    <3>3. /\ OnlyPush(p) /\ push'[p].pc \in {"call", "next"}
          /\ push'[p].pc = "call" => push'[p].at \in push'[p].todo
      BY <3>1 DEF Onward
    <3>4. push' \in [Pushes -> PushState]
      BY <3>3 DEF OnlyPush
    <3> QED
      BY <3>2, <3>3, <3>4, SoundMove
  <2>2. jobs' \subseteq Job
    <3>1. PICK r \in push[p].todo : jobs' = CreateSyncJob(p, r) \/ UNCHANGED jobs
      BY <1>6, OpenJobFacts
    <3>2. r \in Channel
      BY <3>1 DEF PushTypes, PushState
    <3>3. CreateSyncJob(p, r) \subseteq Job
      BY <3>2 DEF PushTypes, CreateSyncJob, Job, JobType, Channel
    <3> QED
      BY <3>1, <3>3 DEF PushTypes
  <2> QED
    BY <1>6, <2>1, <2>2 DEF OpenJob, PushTypes, invVars, chVars
<1>7. ASSUME NEW p \in Pushes, CallAdapter(p) PROVE PushTypes' /\ PushesSound'
  <2>1. PICK c \in Conns, g \in BOOLEAN :
          /\ Onward(p, "close", push[p].todo, push[p].at, g, push[p].failed)
          /\ push[p].at \in push[p].todo
          /\ ota' \in {ota, Shown(p, c)}
          /\ taken' \in {taken, taken \cup {<<p, c>>}}
          /\ wire' \in {wire, wire \cup {<<p, c>>}}
    BY <1>7, CallAdapterFacts
  <2>2. /\ ota' \in [Conns -> OtaState]
        /\ wire' \subseteq Pushes \X Conns /\ taken' \subseteq Pushes \X Conns
    <3>1. Shown(p, c) \in [Conns -> OtaState]
      BY ShownFacts
    <3>2. ota \in [Conns -> OtaState] /\ wire \subseteq Pushes \X Conns
          /\ taken \subseteq Pushes \X Conns /\ <<p, c>> \in Pushes \X Conns
      BY DEF PushTypes
    <3> QED
      BY <2>1, <3>1, <3>2
  <2>3. OnlyPush(p) /\ push'[p].pc = "close" /\ push'[p].at \in push'[p].todo
    BY <2>1 DEF Onward
  <2>4. \A x \in (wire \cup taken)' : x \in wire \cup taken \/ x[1] = p
    BY <2>1
  <2>5. PushesSound'
    BY <2>3, <2>4, SoundMove
  <2>6. push' \in [Pushes -> PushState]
    BY <2>3 DEF OnlyPush
  <2>7. UNCHANGED <<inventory, channels, ratePoint, jobs, past, saved, alone>>
    BY <1>7 DEF CallAdapter, invVars, chVars
  <2> QED
    BY <2>2, <2>5, <2>6, <2>7 DEF PushTypes
<1>8. ASSUME NEW p \in Pushes, CloseJob(p) PROVE PushTypes' /\ PushesSound'
  <2>1. push' \in [Pushes -> PushState] /\ PushesSound'
    <3>1. PICK n : Onward(p, "next", push[p].todo \ {push[p].at}, NoId, FALSE, n)
      BY <1>8, CloseJobFacts
    <3>2. OnlyPush(p) /\ push'[p].pc = "next"
      BY <3>1 DEF Onward
    <3>3. wire' = wire /\ taken' = taken
      BY <1>8 DEF CloseJob
    <3>4. PushesSound'
      BY <3>2, <3>3, SoundMove
    <3> QED
      BY <3>2, <3>4 DEF OnlyPush
  <2>2. jobs' \subseteq Job
    BY <1>8 DEF CloseJob, PushTypes, UpdateSyncJobStatus, Job
  <2> QED
    BY <1>8, <2>1, <2>2 DEF CloseJob, PushTypes, invVars, chVars
<1>9. ASSUME NEW p \in Pushes, AnswerPush(p) PROVE PushTypes' /\ PushesSound'
  <2>1. /\ push[p].todo = {}
        /\ Onward(p, "done", push[p].todo, push[p].at, push[p].good, push[p].failed)
    BY <1>9, AnswerPushFacts
  <2>2. OnlyPush(p) /\ push'[p].pc = "done" /\ push'[p].todo = {}
    BY <2>1 DEF Onward
  <2>3. /\ UNCHANGED <<inventory, channels, jobs, wire, ota, past, taken>>
        /\ ratePoint' \in {ratePoint, p} /\ saved' \in {saved, saved \cup {p}}
        /\ alone' \in {alone, {p}, {}}
    BY <1>9 DEF AnswerPush, invVars, chVars
  <2> QED
    BY <2>2, <2>3, PlainStep
<1>10. ASSUME NEW p \in Pushes, HangUpPush(p) PROVE PushTypes' /\ PushesSound'
  <2>1. /\ wire' \subseteq Pushes \X Conns
        /\ \A x \in wire' : x \in wire \/ x[1] = p
    <3>1. CASE push[p].pc = "call"
      <4>1. push[p].at.conn \in Conns
        BY <3>1 DEF PushTypes, PushesSound, PushState, Channel
      <4>2. UNCHANGED wire \/ wire' = wire \cup {<<p, push[p].at.conn>>}
        BY <1>10, <3>1 DEF HangUpPush, LoseAnswer
      <4> QED
        BY <4>1, <4>2 DEF PushTypes
    <3>2. CASE push[p].pc # "call"
      BY <1>10, <3>2 DEF HangUpPush, PushTypes
    <3> QED
      BY <3>1, <3>2
  <2>2. Onward(p, "gone", {}, NoId, FALSE, push[p].failed)
    BY <1>10, HangUpPushFacts
  <2>3. OnlyPush(p) /\ push'[p].pc = "gone"
    BY <2>2 DEF Onward
  <2>4. UNCHANGED <<inventory, channels, ratePoint, jobs, ota, past, saved, taken, alone>>
    BY <1>10 DEF HangUpPush, invVars, chVars
  <2>5. PushesSound'
    BY <2>1, <2>3, <2>4, SoundMove
  <2>6. push' \in [Pushes -> PushState]
    BY <2>3 DEF OnlyPush
  <2> QED
    BY <2>1, <2>4, <2>5, <2>6 DEF PushTypes
<1>11. ASSUME NEW p \in Pushes, NEW c \in Conns, ArriveLate(p, c)
       PROVE  PushTypes' /\ PushesSound'
  <2>1. /\ <<p, c>> \in wire
        /\ wire' = wire \ {<<p, c>>} /\ taken' = taken \cup {<<p, c>>}
        /\ ota' = Shown(p, c)
        /\ UNCHANGED <<inventory, channels, ratePoint, push, jobs, past, saved, alone>>
    BY <1>11 DEF ArriveLate, invVars, chVars
  <2>2. ota' \in [Conns -> OtaState]
    BY <2>1, ShownFacts
  <2>3. PushTypes'
    BY <2>1, <2>2 DEF PushTypes
  <2> QED
    BY <2>1, <2>3 DEF PushesSound
<1>12. ASSUME WriterStep PROVE PushTypes' /\ PushesSound'
  <2>1. InventoryToChannelUpdates(inventory') \in Updates
    BY DEF InventoryToChannelUpdates, Updates, DayRow, InvTypeOK
  <2> QED
    BY <1>12, <2>1 DEF WriterStep, PushTypes, PushesSound, InvTypeOK, chVars
<1>13. ASSUME NEW a \in Admins, AdminsStep(a) PROVE PushTypes' /\ PushesSound'
  <2>1. channels' \subseteq Channel
    BY DEF ChTypeOK
  <2>2. push' \in [Pushes -> PushState] /\ PushesSound'
    BY <1>13, <2>1, AdminsFacts DEF AdminsStep, PushTypes, PushesSound
  <2>3. jobs' \subseteq Job
    BY <1>13 DEF AdminsStep, Cascade, PushTypes
  <2> QED
    BY <1>13, <2>1, <2>2, <2>3 DEF AdminsStep, PushTypes, invVars
<1> QED
  BY <1>1, <1>2, <1>3, <1>4, <1>5, <1>6, <1>7, <1>8, <1>9, <1>10, <1>11, <1>12, <1>13
  DEF Next, PushStep

-----------------------------------------------------------------------------
Sent == {"list", "next", "call", "close"}

(* The OTA may take a call of push p over connection c.                    *)
UnderWay(p, c) ==
  \/ push[p].pc = "call" /\ c = push[p].at.conn
  \/ <<p, c>> \in wire

(* What a step may do to push p: begin it, save its rates, list its        *)
(* channels, or go on.                                                     *)
Moves(p) ==
  /\ push[p].pc # "idle" =>
       /\ push'[p].pc # "idle"
       /\ push'[p].kind = push[p].kind /\ push'[p].data = push[p].data
       /\ push[p].opened \subseteq push'[p].opened
  /\ push[p].pc = "idle" /\ push'[p].pc # "idle" =>
       /\ \/ push'[p].kind = "rates" /\ (push'[p].pc = "save" \/ RoomsOf[p] = {})
          \/ /\ push'[p].pc = "list" /\ push'[p].kind = "availability"
             /\ push'[p].data = Current /\ alone' \subseteq {p}
       /\ push'[p].opened = ActiveConns(channels) /\ channels' = channels
  /\ push[p].pc \notin Sent /\ push'[p].pc \in Sent =>
       push[p].pc = "idle" \/ p \in saved'
  /\ InProgress(p)' => InProgress(p) \/ push[p].pc = "idle"
  /\ \/ push'[p].todo \subseteq push[p].todo
     \/ /\ InProgress(p) /\ push'[p].todo \subseteq channels
        /\ \A r \in push'[p].todo : r.conn \in ActiveConns(channels)
  /\ InProgress(p) =>
       channels' = channels \/ ActiveConns(channels') \subseteq push'[p].opened

LEMMA MovesStep ==
  ASSUME PushTypes, PushesSound, Next, ChTypeOK'
  PROVE  /\ \A p \in Pushes : Moves(p)
         /\ saved \subseteq saved' /\ past \subseteq past' /\ taken \subseteq taken'
<1> USE DEF Moves, Sent, InProgress
<1>1. ASSUME NEW p \in Pushes, NEW q \in Pushes, UNCHANGED channels, push'[q] = push[q]
      PROVE  Moves(q)
  BY <1>1
<1>2. ASSUME NEW p \in Pushes, PushStep(p)
      PROVE  /\ UNCHANGED <<invVars, chVars, past>> /\ saved \subseteq saved'
             /\ taken \subseteq taken'
  BY <1>2
  DEF PushStep, PushAvailability, PushRates, SaveRates, PushFails, ListChannels, OpenJob,
      CallAdapter, CloseJob, AnswerPush, HangUpPush, ArriveLate
<1>3. ASSUME NEW p \in Pushes, PushStep(p), push'[p] # push[p]
      PROVE  Moves(p) /\ \A q \in Pushes \ {p} : push'[q] = push[q]
  <2>1. UNCHANGED <<inventory, channels>>
    BY <1>2, <1>3 DEF invVars, chVars
  <2>2. CASE PushAvailability(p)
    BY <2>1, <2>2, PushAvailabilityFacts DEF PushAvailability, Begun, OnlyPush
  <2>3. CASE PushRates(p)
    BY <2>1, <2>3, PushRatesFacts DEF Begun, OnlyPush
  <2>4. CASE SaveRates(p)
    BY <2>1, <2>4, SaveRatesFacts DEF SaveRates, Onward, OnlyPush
  <2>5. CASE PushFails(p)
    BY <2>1, <2>5, PushFailsFacts DEF Onward, OnlyPush
  <2>6. CASE ListChannels(p)
    <3>1. /\ push[p].pc = "list"
          /\ Onward(p, "next", {r \in channels : r.prop = Prop /\ r.status = "active"},
                    push[p].at, push[p].good, push[p].failed)
      BY <2>6, ListChannelsFacts
    <3>2. \A r \in push'[p].todo : r.conn \in ActiveConns(channels)
      BY <3>1 DEF Onward, ActiveConns
    <3> QED
      BY <2>1, <3>1, <3>2 DEF Onward, OnlyPush
  <2>7. CASE OpenJob(p)
    BY <2>1, <2>7, OpenJobFacts DEF Onward, OnlyPush
  <2>8. CASE CallAdapter(p)
    BY <2>1, <2>8, CallAdapterFacts DEF Onward, OnlyPush
  <2>9. CASE CloseJob(p)
    BY <2>1, <2>9, CloseJobFacts DEF Onward, OnlyPush
  <2>10. CASE AnswerPush(p)
    BY <2>1, <2>10, AnswerPushFacts DEF Onward, OnlyPush
  <2>11. CASE HangUpPush(p)
    BY <2>1, <2>11, HangUpPushFacts DEF Onward, OnlyPush
  <2>12. ASSUME NEW c \in Conns, ArriveLate(p, c) PROVE FALSE
    BY <1>3, <2>12 DEF ArriveLate
  <2> QED
    BY <1>3, <2>2, <2>3, <2>4, <2>5, <2>6, <2>7, <2>8, <2>9, <2>10, <2>11, <2>12
    DEF PushStep
<1>4. ASSUME NEW p \in Pushes, PushStep(p), push'[p] = push[p]
      PROVE  \A q \in Pushes : push'[q] = push[q]
  <2>1. \A q \in Pushes \ {p} : push'[q] = push[q]
    BY <1>4, OnlyOnePush
  <2> QED
    BY <1>4, <2>1
<1>5. ASSUME NEW p \in Pushes, PushStep(p) PROVE \A q \in Pushes : Moves(q)
  <2>1. UNCHANGED channels
    BY <1>2, <1>5 DEF chVars
  <2> QED
    BY <1>1, <1>3, <1>4, <1>5, <2>1
<1>6. ASSUME WriterStep PROVE UNCHANGED <<push, channels, saved, taken>> /\ past \subseteq past'
  BY <1>6 DEF WriterStep, chVars
<1>7. ASSUME NEW a \in Admins, AdminsStep(a)
      PROVE  /\ \A q \in Pushes : Moves(q)
             /\ saved \subseteq saved' /\ past \subseteq past' /\ taken \subseteq taken'
  <2>1. channels' \subseteq Channel
    BY DEF ChTypeOK
  <2> QED
    BY <1>7, <2>1, AdminsFacts DEF AdminsStep
<1> QED
  BY <1>1, <1>2, <1>5, <1>6, <1>7 DEF Next

(* Only a call that is under way reaches an OTA, or is left on the wire.   *)
LEMMA CallsStep ==
  ASSUME PushTypes, PushesSound, Next
  PROVE  /\ \A x \in wire' : UnderWay(x[1], x[2])
         /\ \/ UNCHANGED <<ota, taken>>
            \/ \E p \in Pushes, c \in Conns :
                 /\ UnderWay(p, c)
                 /\ ota' = Shown(p, c) /\ taken' = taken \cup {<<p, c>>}
<1>1. \A x \in wire : x = <<x[1], x[2]>>
  BY DEF PushTypes
<1>2. ASSUME NEW p \in Pushes, CallAdapter(p)
      PROVE  /\ \A x \in wire' : UnderWay(x[1], x[2])
             /\ \/ UNCHANGED <<ota, taken>>
                \/ \E c \in Conns :
                     /\ UnderWay(p, c)
                     /\ ota' = Shown(p, c) /\ taken' = taken \cup {<<p, c>>}
  <2>1. PICK c \in Conns :
          /\ push[p].pc = "call" /\ c = push[p].at.conn
          /\ \/ UNCHANGED <<ota, taken>>
             \/ ota' = Shown(p, c) /\ taken' = taken \cup {<<p, c>>}
          /\ wire' \subseteq wire \cup {<<p, c>>}
    BY <1>2, CallAdapterFacts
  <2> QED
    BY <1>1, <2>1 DEF UnderWay
<1>3. ASSUME NEW p \in Pushes, HangUpPush(p)
      PROVE  UNCHANGED <<ota, taken>> /\ \A x \in wire' : UnderWay(x[1], x[2])
  <2>1. UNCHANGED <<ota, taken>>
        /\ (wire' = wire \/ (push[p].pc = "call" /\ wire' = wire \cup {<<p, push[p].at.conn>>}))
    BY <1>3 DEF HangUpPush, LoseAnswer
  <2> QED
    BY <1>1, <2>1 DEF UnderWay
<1>4. ASSUME NEW p \in Pushes, NEW c \in Conns, ArriveLate(p, c)
      PROVE  /\ \A x \in wire' : UnderWay(x[1], x[2])
             /\ UnderWay(p, c) /\ ota' = Shown(p, c) /\ taken' = taken \cup {<<p, c>>}
  BY <1>1, <1>4 DEF ArriveLate, UnderWay
<1>5. ASSUME UNCHANGED <<wire, ota, taken>>
      PROVE  UNCHANGED <<ota, taken>> /\ \A x \in wire' : UnderWay(x[1], x[2])
  BY <1>1, <1>5 DEF UnderWay
<1>6. ASSUME NEW p \in Pushes, PushStep(p), ~CallAdapter(p), ~HangUpPush(p),
             \A c \in Conns : ~ArriveLate(p, c)
      PROVE  UNCHANGED <<wire, ota, taken>>
  BY <1>6
  DEF PushStep, PushAvailability, PushRates, SaveRates, PushFails, ListChannels, OpenJob,
      CloseJob, AnswerPush
<1>7. ASSUME WriterStep \/ \E a \in Admins : AdminsStep(a)
      PROVE  UNCHANGED <<wire, ota, taken>>
  BY <1>7 DEF WriterStep, AdminsStep
<1> QED
  BY <1>2, <1>3, <1>4, <1>5, <1>6, <1>7 DEF Next

-----------------------------------------------------------------------------
(* A push of rates that has any and got past its save has saved them.      *)
RatesSound ==
  /\ \A p \in Pushes :
       push[p].kind = "rates" /\ push[p].pc \in Sent => p \in saved \/ RoomsOf[p] = {}
  /\ \A x \in wire :
       push[x[1]].kind = "rates" => x[1] \in saved \/ RoomsOf[x[1]] = {}
  /\ RatesRecordedFirst

LEMMA RatesStep ==
  ASSUME PushTypes, PushesSound, RatesSound, Next, ChTypeOK', PushTypes'
  PROVE  RatesSound'
<1>1. /\ \A p \in Pushes : Moves(p)
      /\ saved \subseteq saved'
  BY MovesStep
<1>2. ASSUME NEW p \in Pushes, push'[p].kind = "rates", push'[p].pc \in Sent
      PROVE  p \in saved' \/ RoomsOf[p] = {}
  BY <1>1, <1>2 DEF Moves, Sent, RatesSound
<1>3. ASSUME NEW p \in Pushes, NEW c \in Conns, UnderWay(p, c)
      PROVE  /\ push'[p].kind = push[p].kind
             /\ push[p].kind # "availability" => p \in saved \/ RoomsOf[p] = {}
  <2>1. push[p].kind \in {"availability", "rates"}
    BY DEF PushTypes, PushState
  <2> QED
    BY <1>1, <1>3, <2>1 DEF UnderWay, PushesSound, RatesSound, Moves, Sent
<1>4. ASSUME NEW x \in wire', push'[x[1]].kind = "rates"
      PROVE  x[1] \in saved' \/ RoomsOf[x[1]] = {}
  <2>1. x[1] \in Pushes /\ x[2] \in Conns
    BY DEF PushTypes
  <2>2. UnderWay(x[1], x[2])
    BY CallsStep
  <2> QED
    BY <1>1, <1>3, <1>4, <2>1, <2>2
<1>5. RatesRecordedFirst'
  <2>1. CASE UNCHANGED ota
    BY <1>1, <2>1 DEF RatesSound, RatesRecordedFirst
  <2>2. ASSUME NEW p \in Pushes, NEW c \in Conns, UnderWay(p, c), ota' = Shown(p, c)
        PROVE  RatesRecordedFirst'
    <3>1. \A d \in Conns \ {c}, r \in Rooms : ota'[d].rates[r] = ota[d].rates[r]
      <4>1. \A d \in Conns \ {c} : Shown(p, c)[d] = ota[d]
        BY ShownFacts
      <4> QED
        BY <2>2, <4>1
    <3>2. \A r \in Rooms : ota'[c].rates[r] \in {ota[c].rates[r]} \cup saved
      <4>1. CASE push[p].kind = "availability"
        <5>1. Shown(p, c)[c].rates = ota[c].rates
          BY <4>1, ShownFacts
        <5> QED
          BY <2>2, <5>1
      <4>2. CASE push[p].kind # "availability"
        <5>1. \A r \in Rooms : ota'[c].rates[r] = IF r \in RoomsOf[p] THEN p
                                                  ELSE ota[c].rates[r]
          <6>1. Shown(p, c)[c].rates =
                  [r \in Rooms |-> IF r \in RoomsOf[p] THEN p ELSE ota[c].rates[r]]
            BY <4>2, ShownFacts
          <6> QED
            BY <2>2, <6>1
        <5> QED
          BY <1>3, <2>2, <4>2, <5>1
      <4> QED
        BY <4>1, <4>2
    <3> QED
      BY <1>1, <3>1, <3>2 DEF RatesSound, RatesRecordedFirst
  <2> QED
    BY <2>1, <2>2, CallsStep
<1> QED
  BY <1>2, <1>4, <1>5 DEF RatesSound

-----------------------------------------------------------------------------
(* What a push may reach was active while it ran.                          *)
OpenedSound ==
  /\ \A p \in Pushes :
       /\ InProgress(p) => ActiveConns(channels) \subseteq push[p].opened
       /\ \A r \in push[p].todo : r.conn \in push[p].opened
  /\ \A x \in wire : x[2] \in push[x[1]].opened
  /\ ReachesOnlyActive

LEMMA OpenedStep ==
  ASSUME PushTypes, PushesSound, OpenedSound, Next, ChTypeOK', PushTypes', PushesSound'
  PROVE  OpenedSound'
<1>1. \A p \in Pushes : Moves(p)
  BY MovesStep
<1>2. ASSUME NEW p \in Pushes, InProgress(p)'
      PROVE  ActiveConns(channels') \subseteq push'[p].opened
  BY <1>1, <1>2 DEF Moves, OpenedSound, InProgress
<1>3. ASSUME NEW p \in Pushes, NEW r \in push'[p].todo PROVE r.conn \in push'[p].opened
  <2>1. push[p].pc # "idle"
    BY <1>1 DEF Moves, PushesSound, InProgress
  <2> QED
    BY <1>1, <2>1 DEF Moves, OpenedSound
<1>4. ASSUME NEW p \in Pushes, NEW c \in Conns, UnderWay(p, c)
      PROVE  c \in push'[p].opened
  BY <1>1, <1>4 DEF UnderWay, Moves, OpenedSound, PushesSound
<1>5. ASSUME NEW x \in wire' PROVE x[2] \in push'[x[1]].opened
  <2>1. x[1] \in Pushes /\ x[2] \in Conns
    BY DEF PushTypes
  <2> QED
    BY <1>4, <2>1, CallsStep
<1>6. ASSUME NEW x \in taken' PROVE x[2] \in push'[x[1]].opened
  <2>1. x[1] \in Pushes /\ x[2] \in Conns
    BY DEF PushTypes
  <2>2. CASE x \in taken
    BY <1>1, <2>1, <2>2 DEF OpenedSound, ReachesOnlyActive, PushesSound, Moves
  <2>3. CASE x \notin taken
    <3>1. UnderWay(x[1], x[2])
      BY <2>3, CallsStep
    <3> QED
      BY <1>4, <2>1, <3>1
  <2> QED
    BY <2>2, <2>3
<1> QED
  BY <1>2, <1>3, <1>5, <1>6 DEF OpenedSound, ReachesOnlyActive

-----------------------------------------------------------------------------
(* Pushes carry states of the inventory, and every day has a row in them.  *)
MomentsSound ==
  /\ Current \in past
  /\ \A i \in past, d \in Days : i[d].available # NoBatch
  /\ \A p \in Pushes :
       push[p].pc # "idle" /\ push[p].kind = "availability" => push[p].data \in past
  /\ OtaShowsOneMoment

LEMMA InventoryRows ==
  ASSUME InventoryInv, InvNext, NEW d \in Days
  PROVE  inventory'[d] = inventory[d] \/ inventory'[d].available \in Batches
<1>1. ASSUME NEW w \in Writes, Commit(w)
      PROVE  inventory'[d] = inventory[d] \/ inventory'[d].available \in Batches
  <2>1. PICK b \in Batches : write[w].batch = b
    BY <1>1 DEF Commit, InventoryInv
  <2>2. inventory'[d] = IF d \in DaysOf(b) THEN UpsertInventoryDay(d, b) ELSE inventory[d]
    BY <1>1, <2>1 DEF Commit, UpsertBatch
  <2> QED
    BY <2>1, <2>2 DEF UpsertInventoryDay
<1> QED
  BY <1>1
  DEF InvNext, WriteStep, Receive, Ingest, CheckKey, Rollback, MarkKey, HangUp, ExpireKey

(* With a row for every day, an OTA shows all that a push carries.         *)
LEMMA ShownDays ==
  ASSUME PushTypes, MomentsSound, NEW p \in Pushes, NEW c \in Conns,
         push[p].kind = "availability", push[p].data \in past
  PROVE  Shown(p, c)[c].availability = push[p].data
<1>1. push[p].data \in Updates
  BY DEF PushTypes, PushState
<1>2. \A d \in Days : push[p].data[d].available # NoBatch
  BY DEF MomentsSound
<1>3. Shown(p, c)[c].availability =
        [d \in Days |-> IF push[p].data[d].available # NoBatch
                        THEN push[p].data[d] ELSE ota[c].availability[d]]
  BY ShownFacts
<1> QED
  BY <1>1, <1>2, <1>3 DEF Updates

LEMMA MomentsStep ==
  ASSUME PushTypes, PushesSound, MomentsSound, InventoryInv, Next, ChTypeOK', PushTypes'
  PROVE  MomentsSound'
<1>1. (\A p \in Pushes : Moves(p)) /\ past \subseteq past'
  BY MovesStep
<1>2. \/ WriterStep
      \/ UNCHANGED <<inventory, past>>
  BY DEF Next, PushStep, PushAvailability, PushRates, SaveRates, PushFails, ListChannels,
         OpenJob, CallAdapter, CloseJob, AnswerPush, HangUpPush, ArriveLate, AdminsStep, invVars
<1>3. Current' \in past'
  BY <1>2 DEF WriterStep, MomentsSound, Current
<1>4. ASSUME NEW i \in past', NEW d \in Days PROVE i[d].available # NoBatch
  <2>1. CASE i \in past
    BY <2>1 DEF MomentsSound
  <2>2. CASE i \notin past
    <3>1. InvNext /\ i = Current'
      BY <1>2, <2>2 DEF WriterStep, Current
    <3>2. i[d].available = inventory'[d].available
      BY <3>1 DEF Current, InventoryToChannelUpdates
    <3>3. Current \in past /\ Current[d].available = inventory[d].available
      BY CurrentUpdates DEF MomentsSound, PushTypes
    <3> QED
      BY <3>1, <3>2, <3>3, InventoryRows, InventoryAssumption DEF MomentsSound
  <2> QED
    BY <2>1, <2>2
<1>5. ASSUME NEW p \in Pushes, push'[p].pc # "idle", push'[p].kind = "availability"
      PROVE  push'[p].data \in past'
  BY <1>1, <1>5 DEF Moves, MomentsSound
<1>6. OtaShowsOneMoment'
  <2>1. CASE UNCHANGED ota
    BY <1>1, <2>1 DEF MomentsSound, OtaShowsOneMoment
  <2>2. ASSUME NEW p \in Pushes, NEW c \in Conns, UnderWay(p, c), ota' = Shown(p, c)
        PROVE  OtaShowsOneMoment'
    <3>1. push[p].pc # "idle"
      BY <2>2 DEF UnderWay, PushesSound
    <3>2. ota'[c].availability \in past \cup {ota[c].availability}
      <4>1. CASE push[p].kind = "availability"
        <5>1. push[p].data \in past
          BY <3>1, <4>1 DEF MomentsSound
        <5>2. Shown(p, c)[c].availability = push[p].data
          BY <4>1, <5>1, ShownDays
        <5> QED
          BY <2>2, <5>1, <5>2
      <4>2. CASE push[p].kind # "availability"
        <5>1. Shown(p, c)[c].availability = ota[c].availability
          BY <4>2, ShownFacts
        <5> QED
          BY <2>2, <5>1
      <4> QED
        BY <4>1, <4>2
    <3>3. \A d \in Conns \ {c} : ota'[d] = ota[d]
      <4>1. \A d \in Conns \ {c} : Shown(p, c)[d] = ota[d]
        BY ShownFacts
      <4> QED
        BY <2>2, <4>1
    <3> QED
      BY <1>1, <3>2, <3>3 DEF MomentsSound, OtaShowsOneMoment
  <2> QED
    BY <2>1, <2>2, CallsStep
<1> QED
  BY <1>3, <1>4, <1>5, <1>6 DEF MomentsSound

-----------------------------------------------------------------------------
(* Somebody holds the channel id h together with connection c.             *)
Held(h, c) ==
  \/ \E k \in channels : k.id = h /\ k.conn = c
  \/ \E p \in Pushes : \E r \in push[p].todo : r.id = h /\ r.conn = c
  \/ \E j \in jobs : j.chan = h /\ j.conn = c

(* The call of p over c has its job, or the connection is gone.            *)
Accounted(p, c) ==
  \/ \E j \in jobs : j.push = p /\ j.conn = c
  \/ GetConnectionByID(c) = {}

(* Ids are drawn once: a channel never changes its connection, and a       *)
(* connection that is gone stays gone.                                     *)
JobsSound ==
  /\ \A h \in Chans, c, d \in Conns : Held(h, c) /\ Held(h, d) => c = d
  /\ \A h \in Chans, c \in Conns : Held(h, c) => h \in drawn /\ c \in drawn
  /\ \A p \in Pushes, c \in Conns :
       UnderWay(p, c) \/ <<p, c>> \in taken => c \in drawn /\ Accounted(p, c)
  /\ \A p \in Pushes :
       push[p].pc = "close" /\ push[p].good => <<p, push[p].at.conn>> \in taken
  /\ \A j \in jobs : j.status = "succeeded" => <<j.push, j.conn>> \in taken

(* A step of an admin makes one channel at most, under a new id, and no    *)
(* connection that was deleted.                                            *)
LEMMA AdminTables ==
  ASSUME ChannelsInv, NEW a \in Admins, AdminStep(a) \/ \E c \in Conns : DeleteConnection(a, c)
  PROVE  /\ drawn \subseteq drawn'
         /\ \A c \in Conns \cap drawn : GetConnectionByID(c) = {} => GetConnectionByID(c)' = {}
         /\ \E h \in Chans \cup {NoId}, d \in Conns \cup {NoId} :
              /\ h # NoId => h \notin drawn /\ h \in drawn' /\ d \in drawn
              /\ \A k \in channels' :
                   \/ \E r \in channels : k.id = r.id /\ k.conn = r.conn
                   \/ h # NoId /\ k.id = h /\ k.conn = d
<1> DEFINE Tables ==
         /\ drawn \subseteq drawn'
         /\ \A c \in Conns \cap drawn : GetConnectionByID(c) = {} => GetConnectionByID(c)' = {}
         /\ \E h \in Chans \cup {NoId}, d \in Conns \cup {NoId} :
              /\ h # NoId => h \notin drawn /\ h \in drawn' /\ d \in drawn
              /\ \A k \in channels' :
                   \/ \E r \in channels : k.id = r.id /\ k.conn = r.conn
                   \/ h # NoId /\ k.id = h /\ k.conn = d
<1>1. channels \subseteq Channel /\ connections \subseteq Connection
      /\ \A r \in connections : r.id \in drawn
  BY DEF ChannelsInv, ChTypeOK, IdsSound
<1>2. ASSUME UNCHANGED channels, drawn \subseteq drawn',
             \A q \in connections' : \/ \E r \in connections : q.id = r.id
                                     \/ q.id \notin drawn
      PROVE  Tables
  BY <1>2 DEF GetConnectionByID
<1>3. ASSUME UNCHANGED <<connections, drawn>>,
             \A k \in channels' : \E r \in channels : k.id = r.id /\ k.conn = r.conn
      PROVE  Tables
  BY <1>3 DEF GetConnectionByID
<1>4. ASSUME NEW c \in Conns, NEW n \in Names, NEW p \in Props, NEW secret \in BOOLEAN,
             NEW link \in BOOLEAN, CreateConnection(a, c, n, p, secret, link)
      PROVE  Tables
  <2>1. UNCHANGED channels /\ drawn \subseteq drawn'
    BY <1>4 DEF CreateConnection
  <2>2. \A q \in connections' : q \in connections \/ q.id \notin drawn
    BY <1>4 DEF CreateConnection, CreateConnectionRow
  <2> QED
    BY <1>2, <2>1, <2>2
<1>5. ASSUME NEW h \in Chans, ConnectChannel(a, h) PROVE Tables
  <2>1. UNCHANGED connections /\ h \notin drawn /\ admin[a].conn \in Conns
    BY <1>5 DEF ConnectChannel, ChannelsInv, AdminsSound
  <2>2. CASE UNCHANGED <<channels, drawn>>
    BY <1>3, <2>1, <2>2
  <2>3. CASE ~UNCHANGED <<channels, drawn>>
    <3>1. PICK d \in Conns : d = admin[a].conn
      BY <2>1
    <3>2. /\ GetConnectionByID(d) # {} /\ drawn' = drawn \cup {h}
          /\ channels' = CreateChannelRow(h, admin[a].prop, d)
      BY <1>5, <2>3, <3>1 DEF ConnectChannel
    <3>3. d \in drawn
      BY <1>1, <3>2 DEF GetConnectionByID
    <3>4. \A k \in channels' : k \in channels \/ (k.id = h /\ k.conn = d)
      BY <3>2 DEF CreateChannelRow
    <3>5. h # NoId
      BY ChannelsAssumption
    <3>6. \A c \in Conns \cap drawn : GetConnectionByID(c) = {} => GetConnectionByID(c)' = {}
      BY <2>1 DEF GetConnectionByID
    <3> QED
      BY <2>1, <3>2, <3>3, <3>4, <3>5, <3>6
  <2> QED
    BY <2>2, <2>3
<1>6. ASSUME NEW h \in Chans, NEW p \in Props, NEW op \in {"pause", "resume", "disconnect"},
             SetChannelState(a, h, p, op)
      PROVE  Tables
  <2>1. UNCHANGED <<connections, drawn>>
    BY <1>6 DEF SetChannelState
  <2>2. \A r \in Channel, s \in {"paused", "active"} :
          [r EXCEPT !.status = s].id = r.id /\ [r EXCEPT !.status = s].conn = r.conn
    BY DEF Channel
  <2>3. \A k \in channels' : \E r \in channels : k.id = r.id /\ k.conn = r.conn
    <3>1. CASE channels' \subseteq channels
      BY <3>1
    <3>2. ASSUME NEW s \in {"paused", "active"}, channels' = UpdateChannelStatusRow(h, s)
          PROVE  \A k \in channels' : \E r \in channels : k.id = r.id /\ k.conn = r.conn
      <4>1. \A r \in channels :
              LET k == IF r.id = h THEN [r EXCEPT !.status = s] ELSE r IN
              k.id = r.id /\ k.conn = r.conn
        BY <1>1, <2>2
      <4> QED
        BY <3>2, <4>1 DEF UpdateChannelStatusRow
    <3> QED
      BY <1>6, <3>1, <3>2 DEF SetChannelState, DeleteChannelRow
  <2> QED
    BY <1>3, <2>1, <2>3
<1>7. ASSUME UpdateStatus(a) \/ UpdateName(a) PROVE Tables
  <2>1. UNCHANGED <<channels, drawn>>
    BY <1>7 DEF UpdateStatus, UpdateName
  <2>2. \A r \in Connection : \A s :
          [r EXCEPT !.status = s].id = r.id /\ [r EXCEPT !.name = s].id = r.id
    BY DEF Connection
  <2>3. \A q \in connections' : \E r \in connections : q.id = r.id
    <3>1. CASE UNCHANGED connections
      BY <3>1
    <3>2. ASSUME NEW c, NEW s, connections' = UpdateConnectionStatusRow(c, s)
          PROVE  \A q \in connections' : \E r \in connections : q.id = r.id
      <4>1. \A r \in connections :
              (IF r.id = c THEN [r EXCEPT !.status = s] ELSE r).id = r.id
        BY <1>1, <2>2
      <4> QED
        BY <3>2, <4>1 DEF UpdateConnectionStatusRow
    <3>3. ASSUME NEW c, NEW n, connections' = UpdateConnectionNameRow(c, n)
          PROVE  \A q \in connections' : \E r \in connections : q.id = r.id
      <4>1. \A r \in connections :
              (IF r.id = c THEN [r EXCEPT !.name = n] ELSE r).id = r.id
        BY <1>1, <2>2
      <4> QED
        BY <3>3, <4>1 DEF UpdateConnectionNameRow
    <3> QED
      BY <1>7, <3>1, <3>2, <3>3 DEF UpdateStatus, UpdateName
  <2> QED
    BY <1>2, <2>1, <2>3
<1>8. ASSUME NEW c \in Conns, DeleteConnection(a, c) PROVE Tables
  <2>1. /\ drawn' = drawn /\ connections' \subseteq connections /\ channels' \subseteq channels
    BY <1>8 DEF DeleteConnection, DeleteConnectionRow, Cascade
  <2>2. \A d \in Conns : GetConnectionByID(d) = {} => GetConnectionByID(d)' = {}
    BY <2>1 DEF GetConnectionByID
  <2> QED
    BY <2>1, <2>2
<1>9. ASSUME UNCHANGED <<connections, channels, drawn>> PROVE Tables
  BY <1>2, <1>9
<1>10. ASSUME NEW c \in Conns, NEW p \in Props, FindLink(a, c, p) PROVE Tables
  BY <1>9, <1>10 DEF FindLink
<1>11. ASSUME NEW c \in Conns, NEW n \in Names \cup {NoId},
              NEW s \in {"", "active", "inactive", "disabled"}, UpdateConnection(a, c, n, s)
       PROVE  Tables
  BY <1>9, <1>11 DEF UpdateConnection
<1>12. ASSUME AdminFails(a) PROVE Tables
  BY <1>9, <1>12 DEF AdminFails
<1> HIDE DEF Tables
<1>13. Tables
  BY <1>4, <1>5, <1>6, <1>7, <1>8, <1>10, <1>11, <1>12 DEF AdminStep
<1> QED
  BY <1>13 DEF Tables

(* How a call begins, and how it is known to have succeeded.               *)
Calls(p) ==
  /\ push'[p].pc = "call" =>
       \/ push[p].pc = "call" /\ push'[p].at = push[p].at
       \/ \E r \in push[p].todo :
            /\ push'[p].at = r /\ GetConnectionByID(r.conn) # {}
            /\ jobs' = CreateSyncJob(p, r)
  /\ push'[p].pc = "close" /\ push'[p].good =>
       \/ push[p].pc = "close" /\ push[p].good /\ push'[p].at = push[p].at
       \/ <<p, push'[p].at.conn>> \in taken'

LEMMA CallingStep ==
  ASSUME PushTypes, PushesSound, Next, ChTypeOK'
  PROVE  \A p \in Pushes : Calls(p)
<1> USE DEF Calls
<1>1. ASSUME NEW p \in Pushes, push'[p] = push[p] PROVE Calls(p)
  BY <1>1
<1>2. ASSUME NEW p \in Pushes, PushStep(p) PROVE \A q \in Pushes : Calls(q)
  <2>1. ASSUME OpenJob(p) PROVE Calls(p)
    <3>1. push[p].pc = "next"
      BY <2>1, OpenJobFacts
    <3>2. PICK r \in push[p].todo :
            \/ /\ GetConnectionByID(r.conn) # {} /\ jobs' = CreateSyncJob(p, r)
               /\ Onward(p, "call", push[p].todo, r, push[p].good, push[p].failed)
            \/ Onward(p, "next", push[p].todo \ {r}, push[p].at, push[p].good,
                      push[p].failed + 1)
      BY <2>1, OpenJobFacts
    <3>3. CASE push'[p].pc = "call"
      BY <3>2, <3>3 DEF Onward
    <3>4. CASE push'[p].pc = "next"
      BY <3>4
    <3> QED
      BY <3>2, <3>3, <3>4 DEF Onward
  <2>2. ASSUME CallAdapter(p) PROVE Calls(p)
    <3>1. PICK g \in BOOLEAN :
            /\ Onward(p, "close", push[p].todo, push[p].at, g, push[p].failed)
            /\ g => taken' = taken \cup {<<p, push[p].at.conn>>}
      BY <2>2, CallAdapterFacts
    <3>2. push'[p].pc = "close" /\ push'[p].at = push[p].at /\ push'[p].good = g
      BY <3>1 DEF Onward
    <3>3. push'[p].good => <<p, push'[p].at.conn>> \in taken'
      BY <3>1, <3>2
    <3> QED
      BY <3>2, <3>3
  <2>3. ASSUME PushAvailability(p) PROVE Calls(p)
    BY <2>3, PushAvailabilityFacts DEF Begun
  <2>4. ASSUME PushRates(p) PROVE Calls(p)
    BY <2>4, PushRatesFacts DEF Begun
  <2>5. ASSUME SaveRates(p) PROVE Calls(p)
    BY <2>5, SaveRatesFacts DEF Onward
  <2>6. ASSUME PushFails(p) PROVE Calls(p)
    BY <2>6, PushFailsFacts DEF Onward
  <2>7. ASSUME ListChannels(p) PROVE Calls(p)
    BY <2>7, ListChannelsFacts DEF Onward
  <2>8. ASSUME CloseJob(p) PROVE Calls(p)
    BY <2>8, CloseJobFacts DEF Onward
  <2>9. ASSUME AnswerPush(p) PROVE Calls(p)
    BY <2>9, AnswerPushFacts DEF Onward
  <2>10. ASSUME HangUpPush(p) PROVE Calls(p)
    BY <2>10, HangUpPushFacts DEF Onward
  <2>11. ASSUME \E c \in Conns : ArriveLate(p, c) PROVE Calls(p)
    BY <2>11 DEF ArriveLate
  <2>12. Calls(p)
    BY <1>2, <2>1, <2>2, <2>3, <2>4, <2>5, <2>6, <2>7, <2>8, <2>9, <2>10, <2>11
    DEF PushStep
  <2>13. \A q \in Pushes \ {p} : push'[q] = push[q]
    BY <1>2, OnlyOnePush
  <2> QED
    BY <1>1, <2>12, <2>13
<1>3. ASSUME WriterStep PROVE UNCHANGED push
  BY <1>3 DEF WriterStep
<1>4. ASSUME NEW a \in Admins, AdminsStep(a) PROVE \A q \in Pushes : Calls(q)
  BY <1>4, AdminsFacts DEF ChTypeOK
<1> QED
  BY <1>1, <1>2, <1>3, <1>4 DEF Next

(* The rows of jobs: opened from a list, closed, or gone with a connection.*)
LEMMA JobRows ==
  ASSUME PushTypes, PushesSound, Next
  PROVE  /\ \A j \in jobs' :
              \/ \E i \in jobs : j.push = i.push /\ j.chan = i.chan /\ j.conn = i.conn
              \/ \E p \in Pushes : \E r \in push[p].todo : j.chan = r.id /\ j.conn = r.conn
         /\ \A i \in jobs :
              \/ \E j \in jobs' : j.push = i.push /\ j.conn = i.conn
              \/ GetConnectionByID(i.conn)' = {}
         /\ \A j \in jobs' : j.status = "succeeded" =>
              \/ j \in jobs
              \/ \E p \in Pushes :
                   /\ push[p].pc = "close" /\ push[p].good
                   /\ j.push = p /\ j.chan = push[p].at.id
                   /\ \E i \in jobs : j.push = i.push /\ j.chan = i.chan /\ j.conn = i.conn
<1>1. CASE UNCHANGED jobs
  BY <1>1
<1>2. ASSUME NEW p \in Pushes, NEW r \in push[p].todo, jobs' = CreateSyncJob(p, r)
      PROVE  /\ jobs \subseteq jobs'
             /\ \A j \in jobs' \ jobs :
                  j.push = p /\ j.chan = r.id /\ j.conn = r.conn /\ j.status = "running"
  BY <1>2 DEF CreateSyncJob
<1>3. ASSUME NEW p \in Pushes, NEW s \in {"succeeded", "failed"}, NEW r,
             jobs' = UpdateSyncJobStatus(p, r, s)
      PROVE  /\ \A j \in jobs' : j \in jobs \/
                  /\ j.status = s /\ j.push = p /\ j.chan = r.id
                  /\ \E i \in jobs : j.push = i.push /\ j.chan = i.chan /\ j.conn = i.conn
             /\ \A i \in jobs : \E j \in jobs' : j.push = i.push /\ j.conn = i.conn
  <2> DEFINE new(i) == IF i.push = p /\ i.chan = r.id THEN [i EXCEPT !.status = s] ELSE i
  <2>1. ASSUME NEW i \in jobs
        PROVE  /\ new(i).push = i.push /\ new(i).chan = i.chan /\ new(i).conn = i.conn
               /\ new(i) = i \/ (new(i).status = s /\ i.push = p /\ i.chan = r.id)
    <3>1. i \in Job
      BY DEF PushTypes
    <3> QED
      BY <3>1 DEF Job
  <2>2. jobs' = {new(i) : i \in jobs}
    BY <1>3 DEF UpdateSyncJobStatus
  <2> HIDE DEF new
  <2> QED
    BY <2>1, <2>2
<1>4. ASSUME NEW p \in Pushes, PushStep(p)
      PROVE  \/ UNCHANGED jobs
             \/ \E r \in push[p].todo : jobs' = CreateSyncJob(p, r)
             \/ /\ push[p].pc = "close"
                /\ jobs' = UpdateSyncJobStatus(p, push[p].at,
                             IF push[p].good THEN "succeeded" ELSE "failed")
  BY <1>4
  DEF PushStep, PushAvailability, PushRates, SaveRates, PushFails, ListChannels, OpenJob,
      CallAdapter, CloseJob, AnswerPush, HangUpPush, ArriveLate
<1>5. ASSUME NEW a \in Admins, AdminsStep(a)
      PROVE  /\ jobs' \subseteq jobs
             /\ \A i \in jobs : i \in jobs' \/ GetConnectionByID(i.conn)' = {}
  <2>1. CASE UNCHANGED jobs
    BY <2>1
  <2>2. ASSUME NEW c \in Conns, DeleteConnection(a, c), connections' # connections,
               jobs' = Cascade(jobs, c)
        PROVE  /\ jobs' \subseteq jobs
               /\ \A i \in jobs : i \in jobs' \/ GetConnectionByID(i.conn)' = {}
    <3>1. GetConnectionByID(c)' = {}
      BY <2>2 DEF DeleteConnection, DeleteConnectionRow, GetConnectionByID
    <3> QED
      BY <2>2, <3>1 DEF Cascade
  <2> QED
    BY <1>5, <2>1, <2>2 DEF AdminsStep
<1>6. ASSUME WriterStep PROVE UNCHANGED jobs
  BY <1>6 DEF WriterStep
<1>7. ASSUME NEW p \in Pushes, PushStep(p), jobs' # jobs
      PROVE  \/ \E r \in push[p].todo : jobs' = CreateSyncJob(p, r)
             \/ /\ push[p].pc = "close"
                /\ jobs' = UpdateSyncJobStatus(p, push[p].at,
                             IF push[p].good THEN "succeeded" ELSE "failed")
  BY <1>4, <1>7
<1>8. CASE \E p \in Pushes : \E r \in push[p].todo : jobs' = CreateSyncJob(p, r)
  BY <1>2, <1>8
<1>9. ASSUME NEW p \in Pushes, push[p].pc = "close", push[p].good,
             jobs' = UpdateSyncJobStatus(p, push[p].at, "succeeded")
      PROVE  /\ \A j \in jobs' : j \in jobs \/
                  /\ push[p].pc = "close" /\ push[p].good
                  /\ j.push = p /\ j.chan = push[p].at.id
                  /\ \E i \in jobs : j.push = i.push /\ j.chan = i.chan /\ j.conn = i.conn
             /\ \A i \in jobs : \E j \in jobs' : j.push = i.push /\ j.conn = i.conn
  BY <1>3, <1>9
<1>10. ASSUME NEW p \in Pushes, jobs' = UpdateSyncJobStatus(p, push[p].at, "failed")
       PROVE  /\ \A j \in jobs' : j \in jobs \/
                  /\ j.status # "succeeded"
                  /\ \E i \in jobs : j.push = i.push /\ j.chan = i.chan /\ j.conn = i.conn
              /\ \A i \in jobs : \E j \in jobs' : j.push = i.push /\ j.conn = i.conn
  BY <1>3, <1>10
<1> QED
  BY <1>1, <1>5, <1>6, <1>7, <1>8, <1>9, <1>10 DEF Next

(* Nobody comes to hold a channel id for another connection.               *)
LEMMA HeldStep ==
  ASSUME PushTypes, PushesSound, ChannelsInv, Next, ChTypeOK'
  PROVE  /\ drawn \subseteq drawn'
         /\ \A c \in Conns \cap drawn : GetConnectionByID(c) = {} => GetConnectionByID(c)' = {}
         /\ \E h \in Chans \cup {NoId}, d \in Conns \cup {NoId} :
              /\ h # NoId => h \notin drawn /\ h \in drawn' /\ d \in drawn
              /\ \A k \in Chans, c \in Conns :
                   Held(k, c)' => Held(k, c) \/ (h # NoId /\ k = h /\ c = d)
<1>1. /\ drawn \subseteq drawn'
      /\ \A c \in Conns \cap drawn : GetConnectionByID(c) = {} => GetConnectionByID(c)' = {}
      /\ \E h \in Chans \cup {NoId}, d \in Conns \cup {NoId} :
           /\ h # NoId => h \notin drawn /\ h \in drawn' /\ d \in drawn
           /\ \A k \in channels' :
                \/ \E r \in channels : k.id = r.id /\ k.conn = r.conn
                \/ h # NoId /\ k.id = h /\ k.conn = d
  <2>1. CASE UNCHANGED chVars
    BY <2>1 DEF chVars, GetConnectionByID
  <2>2. CASE ~UNCHANGED chVars
    <3>1. PICK a \in Admins : AdminStep(a) \/ \E c \in Conns : DeleteConnection(a, c)
      BY <2>2
      DEF Next, PushStep, PushAvailability, PushRates, SaveRates, PushFails, ListChannels,
          OpenJob, CallAdapter, CloseJob, AnswerPush, HangUpPush, ArriveLate, WriterStep,
          AdminsStep
    <3> QED
      BY <3>1, AdminTables
  <2> QED
    BY <2>1, <2>2
<1>2. PICK h \in Chans \cup {NoId}, d \in Conns \cup {NoId} :
        /\ h # NoId => h \notin drawn /\ h \in drawn' /\ d \in drawn
        /\ \A k \in channels' :
             \/ \E r \in channels : k.id = r.id /\ k.conn = r.conn
             \/ h # NoId /\ k.id = h /\ k.conn = d
  BY <1>1
<1>3. ASSUME NEW p \in Pushes, NEW r \in push'[p].todo PROVE Held(r.id, r.conn)
  <2>1. r \in push[p].todo \/ r \in channels
    BY MovesStep DEF Moves
  <2> QED
    BY <2>1 DEF Held
<1>4. ASSUME NEW j \in jobs' PROVE Held(j.chan, j.conn)
  BY JobRows DEF Held
<1>5. ASSUME NEW k \in Chans, NEW c \in Conns, Held(k, c)'
      PROVE  Held(k, c) \/ (h # NoId /\ k = h /\ c = d)
  <2>1. CASE \E r \in channels' : r.id = k /\ r.conn = c
    BY <1>2, <2>1 DEF Held
  <2> QED
    BY <1>3, <1>4, <1>5, <2>1 DEF Held
<1> QED
  BY <1>1, <1>2, <1>5

LEMMA JobsStep ==
  ASSUME PushTypes, PushesSound, ChannelsInv, JobsSound, Next, ChTypeOK', PushTypes'
  PROVE  JobsSound'
<1>1. PICK h \in Chans \cup {NoId}, d \in Conns \cup {NoId} :
        /\ h # NoId => h \notin drawn /\ h \in drawn' /\ d \in drawn
        /\ \A k \in Chans, c \in Conns :
             Held(k, c)' => Held(k, c) \/ (h # NoId /\ k = h /\ c = d)
  BY HeldStep
<1>2. /\ drawn \subseteq drawn'
      /\ \A c \in Conns \cap drawn : GetConnectionByID(c) = {} => GetConnectionByID(c)' = {}
  BY HeldStep
<1>3. ASSUME NEW k \in Chans, NEW b \in Conns, NEW c \in Conns, Held(k, b)', Held(k, c)'
      PROVE  b = c
  BY <1>1, <1>3 DEF JobsSound
<1>4. ASSUME NEW k \in Chans, NEW c \in Conns, Held(k, c)' PROVE k \in drawn' /\ c \in drawn'
  BY <1>1, <1>2, <1>4 DEF JobsSound
<1>5. ASSUME NEW p \in Pushes, NEW c \in Conns, UnderWay(p, c) \/ <<p, c>> \in taken
      PROVE  c \in drawn' /\ Accounted(p, c)'
  <2>1. c \in drawn /\ Accounted(p, c)
    BY <1>5 DEF JobsSound
  <2>2. CASE GetConnectionByID(c) = {}
    BY <1>2, <2>1, <2>2 DEF Accounted
  <2>3. CASE \E j \in jobs : j.push = p /\ j.conn = c
    BY <1>2, <2>1, <2>3, JobRows DEF Accounted
  <2> QED
    BY <2>1, <2>2, <2>3 DEF Accounted
<1>6. ASSUME NEW p \in Pushes, NEW c \in Conns, UnderWay(p, c)' \/ <<p, c>> \in taken'
      PROVE  c \in drawn' /\ Accounted(p, c)'
  <2>1. CASE <<p, c>> \in taken'
    BY <1>5, <2>1, CallsStep
  <2>2. CASE <<p, c>> \in wire'
    BY <1>5, <2>2, CallsStep
  <2>3. CASE push'[p].pc = "call" /\ c = push'[p].at.conn
    <3>1. CASE push[p].pc = "call" /\ push'[p].at = push[p].at
      BY <1>5, <2>3, <3>1 DEF UnderWay
    <3>2. ASSUME NEW r \in push[p].todo, push'[p].at = r, jobs' = CreateSyncJob(p, r)
          PROVE  c \in drawn' /\ Accounted(p, c)'
      <4>1. r \in Channel /\ r.conn = c
        BY <2>3, <3>2 DEF PushTypes, PushState
      <4>2. Held(r.id, r.conn) /\ r.id \in Chans
        BY <4>1 DEF Held, Channel
      <4>3. \E j \in jobs' : j.push = p /\ j.conn = c
        <5>1. PICK j : j = [push |-> p, chan |-> r.id, conn |-> r.conn, type |-> JobType(p),
                            status |-> "running"]
          OBVIOUS
        <5>2. j \in jobs' /\ j.push = p /\ j.conn = r.conn
          BY <3>2, <5>1 DEF CreateSyncJob
        <5> QED
          BY <4>1, <5>2
      <4> QED
        BY <1>2, <4>1, <4>2, <4>3 DEF JobsSound, Accounted
    <3> QED
      BY <2>3, <3>1, <3>2, CallingStep DEF Calls
  <2> QED
    BY <1>6, <2>1, <2>2, <2>3 DEF UnderWay
<1>7. ASSUME NEW p \in Pushes, push'[p].pc = "close", push'[p].good
      PROVE  <<p, push'[p].at.conn>> \in taken'
  BY <1>7, CallingStep, MovesStep DEF Calls, JobsSound
<1>8. ASSUME NEW j \in jobs', j.status = "succeeded" PROVE <<j.push, j.conn>> \in taken'
  <2>1. CASE j \in jobs
    BY <1>8, <2>1, MovesStep DEF JobsSound
  <2>2. ASSUME NEW p \in Pushes, push[p].pc = "close", push[p].good,
               j.push = p, j.chan = push[p].at.id,
               NEW i \in jobs, j.push = i.push, j.chan = i.chan, j.conn = i.conn
        PROVE  <<j.push, j.conn>> \in taken'
    <3>1. push[p].at \in push[p].todo /\ push[p].at \in Channel /\ i \in Job
      BY <2>2 DEF PushesSound, PushTypes, PushState
    <3>2. /\ push[p].at.id \in Chans /\ push[p].at.conn \in Conns /\ i.conn \in Conns
          /\ Held(push[p].at.id, push[p].at.conn) /\ Held(i.chan, i.conn)
      BY <3>1 DEF Held, Channel, Job
    <3>3. push[p].at.conn = i.conn
      BY <2>2, <3>2 DEF JobsSound
    <3> QED
      BY <2>2, <3>3, MovesStep DEF JobsSound
  <2> QED
    BY <1>8, <2>1, <2>2, JobRows
<1> QED
  BY <1>3, <1>4, <1>6, <1>7, <1>8 DEF JobsSound

LEMMA JobsTell ==
  ASSUME PushTypes, JobsSound
  PROVE  JobsTellTheTruth
<1>1. ASSUME NEW x \in taken
      PROVE  \/ \E j \in jobs : j.push = x[1] /\ j.conn = x[2]
             \/ GetConnectionByID(x[2]) = {}
  <2>1. x[1] \in Pushes /\ x[2] \in Conns /\ x = <<x[1], x[2]>>
    BY DEF PushTypes
  <2> QED
    BY <2>1 DEF JobsSound, Accounted
<1> QED
  BY <1>1 DEF JobsSound, JobsTellTheTruth

-----------------------------------------------------------------------------
(* Connection c is still to be served by p.                                *)
Left(p, c) ==
  \E r \in push[p].todo :
    r.conn = c /\ ~(push[p].pc = "close" /\ push[p].good /\ push[p].at = r)

(* What is not left to do shows the inventory, as long as nothing failed.  *)
Covered(p) ==
  push[p].pc \in {"next", "call", "close", "done"} /\ push[p].failed = 0 =>
    \A c \in ActiveConns(channels) : Left(p, c) \/ ota[c].availability = Current

LoneSound ==
  \A p \in alone :
    /\ push[p].pc # "idle" /\ push[p].kind = "availability"
    /\ push[p].data = Current
    /\ Others(p) = {}
    /\ Covered(p)

(* Nobody joins a push that is alone.                                      *)
LEMMA OthersStep ==
  ASSUME PushTypes, PushesSound, Next, ChTypeOK', PushTypes', NEW p \in Pushes,
         Others(p) = {}, p \in alone'
  PROVE  Others(p)' = {}
<1>1. ASSUME NEW q \in Pushes \ {p}, push'[q].kind = "availability", InProgress(q)'
      PROVE  FALSE
  <2>1. Moves(q)
    BY MovesStep
  <2>2. push[q].pc # "idle"
    BY <1>1, <2>1 DEF Moves, InProgress
  <2> QED
    BY <1>1, <2>1, <2>2 DEF Moves, Others
<1>2. ASSUME NEW q \in Pushes \ {p}, NEW c \in Conns, push'[q].kind = "availability",
             <<q, c>> \in wire'
      PROVE  FALSE
  <2>1. UnderWay(q, c)
    BY <1>2, CallsStep
  <2>2. push[q].pc # "idle"
    BY <2>1 DEF UnderWay, PushesSound
  <2>3. push[q].kind = "availability"
    BY <1>2, <2>2, MovesStep DEF Moves
  <2> QED
    BY <2>1, <2>3 DEF UnderWay, Others, InProgress
<1> QED
  BY <1>1, <1>2 DEF Others

LEMMA AloneStep ==
  ASSUME Next, NEW p \in Pushes, p \in alone'
  PROVE  \/ PushAvailability(p) /\ Others(p) = {}
         \/ p \in alone /\ UNCHANGED <<inventory, channels>>
<1>1. ASSUME NEW q \in Pushes, PushAvailability(q)
      PROVE  PushAvailability(p) /\ Others(p) = {}
  BY <1>1 DEF PushAvailability
<1>2. ASSUME NEW q \in Pushes, PushStep(q), ~PushAvailability(q)
      PROVE  p \in alone /\ UNCHANGED <<inventory, channels>>
  BY <1>2
  DEF PushStep, PushRates, SaveRates, PushFails, ListChannels, OpenJob, CallAdapter,
      CloseJob, AnswerPush, HangUpPush, ArriveLate, invVars, chVars
<1>3. ASSUME WriterStep PROVE p \in alone /\ UNCHANGED <<inventory, channels>>
  BY <1>3 DEF WriterStep, chVars
<1>4. ASSUME NEW a \in Admins, AdminsStep(a)
      PROVE  p \in alone /\ UNCHANGED <<inventory, channels>>
  BY <1>4 DEF AdminsStep, invVars
<1> QED
  BY <1>1, <1>2, <1>3, <1>4 DEF Next

(* While p is alone, an OTA shows what it showed, or what p carries.       *)
LEMMA LoneOta ==
  ASSUME PushTypes, PushesSound, MomentsSound, LoneSound, Next, NEW p \in alone,
         NEW c \in Conns
  PROVE  ota'[c].availability \in {ota[c].availability, Current}
<1>1. ASSUME NEW q \in Pushes, NEW d \in Conns, UnderWay(q, d), ota' = Shown(q, d)
      PROVE  ota'[c].availability \in {ota[c].availability, Current}
  <2>1. CASE c # d
    <3>1. \A e \in Conns \ {d} : Shown(q, d)[e] = ota[e]
      BY ShownFacts
    <3> QED
      BY <1>1, <2>1, <3>1
  <2>2. CASE c = d /\ q = p
    <3>1. push[p].kind = "availability" /\ push[p].data = Current /\ Current \in past
      BY DEF LoneSound, MomentsSound
    <3> QED
      BY <1>1, <2>2, <3>1, ShownDays
  <2>3. CASE c = d /\ q # p
    <3>1. push[q].kind # "availability"
      BY <1>1, <2>3 DEF LoneSound, Others, UnderWay, InProgress
    <3>2. Shown(q, d)[d].availability = ota[d].availability
      BY <3>1, ShownFacts
    <3> QED
      BY <1>1, <2>3, <3>2
  <2> QED
    BY <2>1, <2>2, <2>3
<1> QED
  BY <1>1, CallsStep

(* A push that goes on leaves nothing out unless it counts a failure.      *)
LEMMA CoveredStep ==
  ASSUME PushTypes, PushesSound, MomentsSound, LoneSound, Next, ChTypeOK', PushTypes',
         NEW p \in alone, UNCHANGED <<inventory, channels>>
  PROVE  Covered(p)'
<1>1. p \in Pushes /\ push[p].failed \in Nat /\ push[p].pc # "idle" /\ push[p].todo \subseteq Channel
      /\ ActiveConns(channels) \subseteq Conns
  BY ActiveConnsType DEF PushTypes, LoneSound, PushState
<1>2. \A c \in Conns : ota'[c].availability \in {ota[c].availability, Current}
  BY LoneOta
<1>3. ASSUME push'[p].pc \in {"next", "call", "close", "done"} /\ push'[p].failed = 0 =>
               /\ push[p].pc \in {"next", "call", "close", "done"} /\ push[p].failed = 0
               /\ \A c \in Conns :
                    Left(p, c) => Left(p, c)' \/ ota'[c].availability = Current
      PROVE  Covered(p)'
  BY <1>1, <1>2, <1>3 DEF LoneSound, Covered, Current
<1>4. ASSUME push'[p].pc = push[p].pc, push'[p].todo = push[p].todo,
             push'[p].at = push[p].at, push'[p].good = push[p].good,
             push'[p].failed = push[p].failed
      PROVE  Covered(p)'
  BY <1>3, <1>4 DEF Left
<1>5. CASE ListChannels(p)
  <2>1. push'[p].todo = {r \in channels : r.prop = Prop /\ r.status = "active"}
        /\ push'[p].pc = "next"
    BY <1>1, <1>5, ListChannelsFacts DEF Onward
  <2>2. \A c \in ActiveConns(channels) : Left(p, c)'
    BY <2>1 DEF Left, ActiveConns
  <2> QED
    BY <2>2 DEF Covered
<1>6. CASE OpenJob(p)
  <2>1. PICK r \in push[p].todo :
          \/ Onward(p, "call", push[p].todo, r, push[p].good, push[p].failed)
          \/ Onward(p, "next", push[p].todo \ {r}, push[p].at, push[p].good,
                    push[p].failed + 1)
    BY <1>1, <1>6, OpenJobFacts
  <2>2. push[p].pc = "next"
    BY <1>1, <1>6, OpenJobFacts
  <2>3. push[p].failed + 1 # 0
    BY <1>1
  <2> QED
    BY <1>3, <2>1, <2>2, <2>3 DEF Onward, Left
<1>7. CASE CallAdapter(p)
  <2>1. PICK g \in BOOLEAN :
          /\ Onward(p, "close", push[p].todo, push[p].at, g, push[p].failed)
          /\ g => ota' = Shown(p, push[p].at.conn)
          /\ push[p].pc = "call" /\ push[p].at.conn \in Conns
    BY <1>1, <1>7, CallAdapterFacts
  <2>2. /\ push'[p].pc = "close" /\ push'[p].todo = push[p].todo /\ push'[p].at = push[p].at
        /\ push'[p].good = g /\ push'[p].failed = push[p].failed
    BY <2>1 DEF Onward
  <2>3. g => ota'[push[p].at.conn].availability = Current
    <3>1. push[p].kind = "availability" /\ push[p].data = Current /\ Current \in past
      BY DEF LoneSound, MomentsSound
    <3> QED
      BY <1>1, <2>1, <3>1, ShownDays
  <2>4. ASSUME NEW c \in Conns, Left(p, c)
        PROVE  Left(p, c)' \/ ota'[c].availability = Current
    <3>1. PICK r \in push[p].todo : r.conn = c
      BY <2>4 DEF Left
    <3>2. CASE g /\ push[p].at = r
      BY <2>3, <3>1, <3>2
    <3>3. CASE ~(g /\ push[p].at = r)
      BY <2>2, <3>1, <3>3 DEF Left
    <3> QED
      BY <3>2, <3>3
  <2> QED
    BY <1>3, <2>1, <2>2, <2>4
<1>8. CASE CloseJob(p)
  <2>1. /\ push[p].pc = "close"
        /\ Onward(p, "next", push[p].todo \ {push[p].at}, NoId, FALSE,
                  IF push[p].good THEN push[p].failed ELSE push[p].failed + 1)
    BY <1>1, <1>8, CloseJobFacts
  <2>2. CASE push[p].good
    BY <1>3, <2>1, <2>2 DEF Onward, Left
  <2>3. CASE ~push[p].good
    <3>1. push'[p].failed = push[p].failed + 1
      BY <2>1, <2>3 DEF Onward
    <3>2. push'[p].failed # 0
      BY <1>1, <3>1
    <3> QED
      BY <1>3, <3>2
  <2> QED
    BY <2>2, <2>3
<1>9. CASE AnswerPush(p)
  BY <1>1, <1>3, <1>9, AnswerPushFacts DEF Onward, Left
<1>10. CASE SaveRates(p) \/ PushFails(p) \/ HangUpPush(p)
  BY <1>1, <1>3, <1>10, SaveRatesFacts, PushFailsFacts, HangUpPushFacts DEF Onward
<1>11. CASE PushAvailability(p) \/ PushRates(p)
  BY <1>1, <1>11, PushAvailabilityFacts, PushRatesFacts
<1>12. ASSUME NEW q \in Pushes \ {p}, PushStep(q) PROVE push'[p] = push[p]
  BY <1>1, <1>12, OnlyOnePush
<1>13. ASSUME NEW c \in Conns, ArriveLate(p, c) PROVE push'[p] = push[p]
  BY <1>13 DEF ArriveLate
<1>14. ASSUME WriterStep PROVE push'[p] = push[p]
  BY <1>14 DEF WriterStep
<1>15. ASSUME NEW a \in Admins, AdminsStep(a) PROVE Covered(p)'
  BY <1>1, <1>4, <1>15, AdminsFacts DEF ChTypeOK
<1> QED
  BY <1>1, <1>4, <1>5, <1>6, <1>7, <1>8, <1>9, <1>10, <1>11, <1>12, <1>13, <1>14, <1>15
  DEF Next, PushStep

LEMMA LoneStep ==
  ASSUME PushTypes, PushesSound, MomentsSound, LoneSound, Next, ChTypeOK', PushTypes'
  PROVE  LoneSound'
<1> SUFFICES ASSUME NEW p \in alone'
             PROVE  /\ push'[p].pc # "idle" /\ push'[p].kind = "availability"
                    /\ push'[p].data = Current'
                    /\ Others(p)' = {}
                    /\ Covered(p)'
  BY DEF LoneSound
<1>1. p \in Pushes
  BY DEF PushTypes
<1>2. CASE PushAvailability(p) /\ Others(p) = {}
  <2>1. /\ push'[p].pc = "list" /\ push'[p].kind = "availability"
        /\ push'[p].data = Current /\ UNCHANGED <<inventory, Current>>
    BY <1>1, <1>2, PushAvailabilityFacts DEF Begun, PushAvailability, invVars, Current
  <2> QED
    BY <1>1, <1>2, <2>1, OthersStep DEF Covered
<1>3. CASE p \in alone /\ UNCHANGED <<inventory, channels>>
  <2>1. /\ push'[p].pc # "idle" /\ push'[p].kind = "availability"
        /\ push'[p].data = Current'
    BY <1>1, <1>3, MovesStep DEF Moves, LoneSound, Current
  <2> QED
    BY <1>1, <1>3, <2>1, OthersStep, CoveredStep DEF LoneSound
<1> QED
  BY <1>1, <1>2, <1>3, AloneStep

-----------------------------------------------------------------------------
(* V.  The composition.                                                    *)

(* The invariant: those of the composed modules, and one group of facts    *)
(* for each promise of the pushes.                                         *)
DistInv ==
  /\ InventoryInv /\ ChannelsInv
  /\ PushTypes /\ PushesSound
  /\ RatesSound /\ OpenedSound /\ MomentsSound /\ JobsSound /\ LoneSound

(* A step of the composition is a step of each of its parts, or none.      *)
LEMMA PartsStep == [Next]_vars => [InvNext]_invVars /\ [ChNext]_chVars
<1> SUFFICES ASSUME [Next]_vars PROVE [InvNext]_invVars /\ [ChNext]_chVars
  OBVIOUS
<1>1. CASE UNCHANGED vars
  BY <1>1 DEF vars
<1>2. ASSUME NEW p \in Pushes, PushStep(p) PROVE UNCHANGED <<invVars, chVars>>
  BY <1>2
  DEF PushStep, PushAvailability, PushRates, SaveRates, PushFails, ListChannels, OpenJob,
      CallAdapter, CloseJob, AnswerPush, HangUpPush, ArriveLate
<1>3. ASSUME WriterStep PROVE InvNext /\ UNCHANGED chVars
  BY <1>3 DEF WriterStep
<1>4. ASSUME NEW a \in Admins, AdminsStep(a) PROVE ChNext /\ UNCHANGED invVars
  BY <1>4 DEF AdminsStep, ChNext
<1> QED
  BY <1>1, <1>2, <1>3, <1>4 DEF Next

LEMMA DistributionInit == DistInit => DistInv
<1> SUFFICES ASSUME DistInit PROVE DistInv
  OBVIOUS
<1>1. InventoryInv /\ ChannelsInv
  BY InventoryInit, ChannelsInit DEF DistInit
<1>2. /\ inventory \in [Days -> DayRow] /\ channels \subseteq Channel
      /\ \A d \in Days : inventory[d].available # NoBatch
  BY <1>1, DistributionAssumption
  DEF InventoryInv, InvTypeOK, ChannelsInv, ChTypeOK, DistInit, InvInit
<1>3. PICK t \in PushState :
        t = [pc |-> "idle", kind |-> "rates", data |-> Unsold, todo |-> {}, at |-> NoId,
             good |-> FALSE, failed |-> 0, opened |-> {}]
  BY <1>2 DEF PushState, Unsold, Updates
<1>4. \A p \in Pushes : push[p] \in PushState /\ push[p].pc = "idle" /\ push[p].todo = {}
  BY <1>3 DEF DistInit
<1>5. push \in [Pushes -> PushState]
  BY <1>3 DEF DistInit
<1>6. Unsold \in Updates /\ [r \in Rooms |-> NoId] \in [Rooms -> Pushes \cup {NoId}]
  BY DEF Unsold, Updates
<1>7. PICK o \in OtaState : o = [availability |-> Unsold, rates |-> [r \in Rooms |-> NoId]]
  BY <1>6 DEF OtaState
<1>8. \A c \in Conns : ota[c] = o /\ o.availability = Unsold /\ \A r \in Rooms : o.rates[r] = NoId
  BY <1>7 DEF DistInit
<1>9. PushTypes /\ PushesSound
  BY <1>2, <1>4, <1>5, <1>7, CurrentUpdates DEF DistInit, PushTypes, PushesSound, Current
<1>10. RatesSound /\ OpenedSound /\ LoneSound
  BY <1>4, <1>8
  DEF DistInit, RatesSound, RatesRecordedFirst, OpenedSound, ReachesOnlyActive, InProgress,
      LoneSound, Sent
<1>11. MomentsSound
  BY <1>2, <1>4, <1>8, CurrentUpdates DEF DistInit, MomentsSound, OtaShowsOneMoment, Current
<1>12. JobsSound
  <2>1. ASSUME NEW h \in Chans, NEW c \in Conns, Held(h, c)
        PROVE  \E k \in channels : k.id = h /\ k.conn = c
    BY <1>4, <2>1 DEF Held, DistInit
  <2>2. \A h, k \in channels : h.id = k.id => h = k
    BY <1>1 DEF ChannelsInv, IdsSound
  <2>3. \A h \in channels : h.id \in drawn /\ h.conn \in drawn
    BY ChannelsAssumption DEF DistInit, ChInit
  <2>4. \A p \in Pushes, c \in Conns : ~UnderWay(p, c) /\ taken = {} /\ jobs = {}
    BY <1>4 DEF UnderWay, DistInit
  <2> QED
    BY <1>4, <2>1, <2>2, <2>3, <2>4 DEF JobsSound, DistInit
<1> QED
  BY <1>1, <1>9, <1>10, <1>11, <1>12 DEF DistInv

LEMMA DistributionStep == DistInv /\ [Next]_vars => DistInv'
<1> SUFFICES ASSUME DistInv, [Next]_vars PROVE DistInv'
  OBVIOUS
<1>1. InventoryInv' /\ ChannelsInv'
  BY PartsStep, InventoryStep, ChannelsStep DEF DistInv
<1>2. InvTypeOK' /\ ChTypeOK'
  BY <1>1 DEF InventoryInv, ChannelsInv
<1>3. CASE Next
  <2>1. PushTypes' /\ PushesSound'
    BY <1>2, <1>3, TypesStep DEF DistInv
  <2>2. RatesSound' /\ OpenedSound'
    BY <1>2, <1>3, <2>1, RatesStep, OpenedStep DEF DistInv
  <2>3. MomentsSound' /\ JobsSound' /\ LoneSound'
    BY <1>2, <1>3, <2>1, MomentsStep, JobsStep, LoneStep DEF DistInv
  <2> QED
    BY <1>1, <2>1, <2>2, <2>3 DEF DistInv
<1>4. CASE UNCHANGED vars
  <2>1. PushTypes' /\ PushesSound' /\ RatesSound' /\ OpenedSound'
    BY <1>4
    DEF DistInv, vars, distVars, invVars, chVars, PushTypes, PushesSound, RatesSound,
        RatesRecordedFirst, OpenedSound, ReachesOnlyActive, InProgress
  <2>2. MomentsSound' /\ JobsSound' /\ LoneSound'
    BY <1>4
    DEF DistInv, vars, distVars, invVars, chVars, MomentsSound, OtaShowsOneMoment, JobsSound,
        Current, Held, UnderWay, Accounted, GetConnectionByID, LoneSound, Others, InProgress, Covered,
        Left
  <2> QED
    BY <1>1, <2>1, <2>2 DEF DistInv
<1> QED
  BY <1>3, <1>4

-----------------------------------------------------------------------------
(* The composition keeps what Inventory promises: pushes only read it.     *)
THEOREM DistributesInventory == Spec => InvSpec
<1>1. DistInit => InvInit
  BY DEF DistInit
<1> QED
  BY <1>1, PartsStep, PTL DEF Spec, InvSpec

(* The same of Channels, whose admins the pushes run beside.               *)
THEOREM DistributesChannels == Spec => ChSpec
<1>1. DistInit => ChInit
  BY DEF DistInit
<1> QED
  BY <1>1, PartsStep, PTL DEF Spec, ChSpec

(* The invariant that the promises of push_availability and push_rates     *)
(* rest on.                                                                *)
THEOREM DistributionInvariant == Spec => []DistInv
BY DistributionInit, DistributionStep, PTL DEF Spec

(* Pushes, jobs, calls and OTAs keep their shapes.                         *)
THEOREM DistributionTypeCorrect == Spec => []TypeOK
<1>1. DistInv => TypeOK
  BY DEF DistInv, InventoryInv, ChannelsInv, PushTypes, TypeOK
<1> QED
  BY <1>1, DistributionInvariant, PTL

(* An OTA shows no rate that push_rates did not commit first.              *)
THEOREM RatesAreRecordedFirst == Spec => []RatesRecordedFirst
<1>1. DistInv => RatesRecordedFirst
  BY DEF DistInv, RatesSound
<1> QED
  BY <1>1, DistributionInvariant, PTL

(* An OTA shows the days of one state of the inventory, however pushes,    *)
(* writers and late calls interleave.                                      *)
THEOREM OtasShowOneMoment == Spec => []OtaShowsOneMoment
<1>1. DistInv => OtaShowsOneMoment
  BY DEF DistInv, MomentsSound
<1> QED
  BY <1>1, DistributionInvariant, PTL

(* push_availability and push_rates reach no channel that was paused or    *)
(* disconnected during the whole push.                                     *)
THEOREM PushesReachActive == Spec => []ReachesOnlyActive
<1>1. DistInv => ReachesOnlyActive
  BY DEF DistInv, OpenedSound
<1> QED
  BY <1>1, DistributionInvariant, PTL

(* A sync job succeeded only if the OTA took its call, and every call has  *)
(* its job until its connection is deleted.                                *)
THEOREM JobsAreTruthful == Spec => []JobsTellTheTruth
<1>1. DistInv => JobsTellTheTruth
  BY JobsTell DEF DistInv
<1> QED
  BY <1>1, DistributionInvariant, PTL

(* A push that ran alone and answers without a failure left every active   *)
(* channel with the inventory of now.                                      *)
THEOREM LonePushSynchronises == Spec => []LonePushBringsUpToDate
<1>1. ASSUME DistInv PROVE LonePushBringsUpToDate
  <2> SUFFICES ASSUME NEW p \in alone, push[p].pc = "done", push[p].failed = 0,
                      NEW c \in ActiveConns(channels)
               PROVE  ota[c].availability = Current
    BY DEF LonePushBringsUpToDate, Current
  <2>1. p \in Pushes /\ push[p].todo = {}
    BY <1>1 DEF DistInv, PushTypes, PushesSound
  <2> QED
    BY <1>1, <2>1 DEF DistInv, LoneSound, Covered, Left
<1> QED
  BY <1>1, DistributionInvariant, PTL
=============================================================================
