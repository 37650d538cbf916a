----------------------------- MODULE Inventory -----------------------------
(***************************************************************************)
(* The inventory of one room type: batches of days written by API clients  *)
(* and by the PMS ingest, each in one transaction, and the idempotency     *)
(* keys in Redis around them.                                              *)
(*                                                                         *)
(* BulkUpsertInventory looks the key up, commits the batch and marks the   *)
(* key, in this order and in three round trips: other calls run in between *)
(* and a client may give up, or the process stop, after any of them.  The  *)
(* event published after the commit has no subscriber and is left out.     *)
(***************************************************************************)
EXTENDS Naturals, FiniteSets, Sequences

CONSTANTS
  Days,      (* stay dates of the room type                                *)
  Batches,   (* batches that are ever written, told apart by their content *)
  EntriesOf, (* EntriesOf[b]: the day each entry of batch b names          *)
  Keyed,     (* batches an API client sends with an idempotency key        *)
  FromPMS,   (* batches of the PMS ingest, each under a key of its own     *)
  Writes,    (* calls of BulkUpsertInventory (bound: one batch each)       *)
  Opening,   (* the batch that made the rows there are at first            *)
  NoBatch    (* no row, or no restriction                                  *)

ASSUME InventoryAssumption ==
  /\ EntriesOf \in [Batches -> Seq(Days)]
  /\ Keyed \subseteq Batches /\ FromPMS \subseteq Batches \ Keyed
  /\ NoBatch \notin Batches
  /\ Opening \in Batches \cup {NoBatch}

VARIABLES
  inventory, (* inventory[d]: the row of day d                             *)
  marked,    (* batches whose key Redis holds                              *)
  write,     (* write[w]: the state of call w                              *)
  commits,   (* history: commits[b], how often batch b was committed       *)
  excused    (* history: batches whose key could not protect them          *)

invVars == <<inventory, marked, write, commits, excused>>

-----------------------------------------------------------------------------
(* available is the batch that set the availability and stop_sell (none:   *)
(* there is no row), limits the one that set min_stay and max_stay (none:  *)
(* no restriction), version counts from the start of the model.  cta and   *)
(* ctd, written beside these, go into no channel update: they are left out.*)
DayRow == [available : Batches \cup {NoBatch},
           limits : Batches \cup {NoBatch}, version : Nat]

Call == [pc : {"idle", "check", "upsert", "mark", "ok", "duplicate", "error"},
         batch : Batches \cup {NoBatch}]

Ended == {"ok", "duplicate", "error"}

InvInit ==
  /\ inventory = [d \in Days |->
       [available |-> Opening, limits |-> Opening, version |-> 0]]
  /\ marked = {}
  /\ write = [w \in Writes |-> [pc |-> "idle", batch |-> NoBatch]]
  /\ commits = [b \in Batches |-> 0]
  /\ excused = {}

(* The entries of batch b for day d: a client may name a day twice, and    *)
(* the ingest does when two offers are of one room type.                   *)
EntriesFor(b, d) == {i \in DOMAIN EntriesOf[b] : EntriesOf[b][i] = d}
DaysOf(b) == {EntriesOf[b][i] : i \in DOMAIN EntriesOf[b]}

(* The calls that carry batch b and may still commit it, or have not yet   *)
(* marked it.                                                              *)
Rivals(w, b) ==
  {x \in Writes \ {w} : write[x].batch = b /\ write[x].pc \in {"upsert", "mark"}}

-----------------------------------------------------------------------------
(* An API client sends batch b: the handler refuses an empty one, and      *)
(* without a key there is nothing to look up.                              *)
Receive(w, b) ==
  /\ write[w].pc = "idle"
  /\ b \notin FromPMS /\ EntriesOf[b] # <<>>
  /\ write' = [write EXCEPT ![w] =
       [pc |-> IF b \in Keyed THEN "check" ELSE "upsert", batch |-> b]]
  /\ UNCHANGED <<inventory, marked, commits, excused>>

(* The ingest turns the offers of the PMS into a batch, an entry for each  *)
(* day and offer of a known room type, and sends it under a key drawn for  *)
(* it: no two calls share one, so its look-up and its mark are left out.   *)
(* No offer, no call.                                                      *)
Ingest(w, b) ==
  /\ write[w].pc = "idle"
  /\ b \in FromPMS /\ EntriesOf[b] # <<>>
  /\ \A x \in Writes : write[x].batch # b
  /\ write' = [write EXCEPT ![w] = [pc |-> "upsert", batch |-> b]]
  /\ UNCHANGED <<inventory, marked, commits, excused>>

(* Mutant: the key is never looked up.                                     *)
CheckNothing(w) ==
  /\ write[w].pc = "check"
  /\ write' = [write EXCEPT ![w].pc = "upsert"]
  /\ UNCHANGED <<inventory, marked, commits, excused>>

(* Mutant: the key is marked before the batch is written.                  *)
CheckAndMark(w) ==
  /\ write[w].pc = "check"
  /\ write' = [write EXCEPT ![w].pc =
       IF write[w].batch \in marked THEN "duplicate" ELSE "upsert"]
  /\ marked' = marked \cup {write[w].batch}
  /\ UNCHANGED <<inventory, commits, excused>>

(* idem.Exists.  Redis may fail: the call ends before it wrote anything.   *)
CheckKey(w) ==
  /\ write[w].pc = "check"
  /\ \E pc \in {IF write[w].batch \in marked THEN "duplicate" ELSE "upsert",
                "error"} :
       /\ write' = [write EXCEPT ![w].pc = pc]
       /\ excused' = IF pc = "upsert" /\ Rivals(w, write[w].batch) # {}
                     THEN excused \cup {write[w].batch} ELSE excused
  /\ UNCHANGED <<inventory, marked, commits>>

(* The restrictions a batch carries: the ingest's rows have availability   *)
(* and stop_sell, and zero values elsewhere.                               *)
LimitsOf(b) == IF b \in FromPMS THEN NoBatch ELSE b

(* Mutant: a day that exists is left as it is.                             *)
InsertInventoryDay(d, b) ==
  IF inventory[d].available # NoBatch THEN inventory[d]
  ELSE [available |-> b, limits |-> LimitsOf(b), version |-> 1]

(* INSERT ... ON CONFLICT DO UPDATE of a day, once for each entry of the   *)
(* batch: every column is replaced, by the last entry in the end, and each *)
(* adds one to the version.                                                *)
UpsertInventoryDay(d, b) ==
  [available |-> b, limits |-> LimitsOf(b),
   version |-> inventory[d].version + Cardinality(EntriesFor(b, d))]

(* One transaction over all entries of the batch: all of them or none.     *)
UpsertBatch(b) ==
  inventory' = [d \in Days |-> IF d \in DaysOf(b) THEN UpsertInventoryDay(d, b)
                               ELSE inventory[d]]

Commit(w) ==
  LET b == write[w].batch IN
  /\ write[w].pc = "upsert"
  /\ UpsertBatch(b)
  /\ commits' = [commits EXCEPT ![b] = @ + 1]
  /\ write' = [write EXCEPT ![w].pc = IF b \in Keyed THEN "mark" ELSE "ok"]
  /\ UNCHANGED <<marked, excused>>

(* The transaction is rolled back.                                         *)
Rollback(w) ==
  /\ write[w].pc = "upsert"
  /\ write' = [write EXCEPT ![w].pc = "error"]
  /\ UNCHANGED <<inventory, marked, commits, excused>>

(* idem.Mark; an error is dropped, since the batch is committed.           *)
MarkKey(w) ==
  LET b == write[w].batch IN
  /\ write[w].pc = "mark"
  /\ \/ marked' = marked \cup {b} /\ UNCHANGED excused
     \/ excused' = excused \cup {b} /\ UNCHANGED marked
  /\ write' = [write EXCEPT ![w].pc = "ok"]
  /\ UNCHANGED <<inventory, commits>>

(* The client hangs up, or the process stops: the request goes no further. *)
HangUp(w) ==
  LET b == write[w].batch IN
  /\ write[w].pc \in {"check", "upsert", "mark"}
  /\ excused' = IF write[w].pc = "mark" THEN excused \cup {b} ELSE excused
  /\ write' = [write EXCEPT ![w].pc = "error"]
  /\ UNCHANGED <<inventory, marked, commits>>

(* Redis drops a key 24 hours after it was marked.                         *)
ExpireKey(b) ==
  /\ b \in marked
  /\ marked' = marked \ {b}
  /\ excused' = excused \cup {b}
  /\ UNCHANGED <<inventory, write, commits>>

WriteStep(w) ==
  \/ \E b \in Batches : Receive(w, b) \/ Ingest(w, b)
  \/ CheckKey(w) \/ Commit(w) \/ Rollback(w) \/ MarkKey(w) \/ HangUp(w)

InvNext ==
  \/ \E w \in Writes : WriteStep(w)
  \/ \E b \in Batches : ExpireKey(b)

InvSpec == InvInit /\ [][InvNext]_invVars

-----------------------------------------------------------------------------
(* Every variable stays in its type.                                       *)
InvTypeOK ==
  /\ inventory \in [Days -> DayRow]
  /\ marked \subseteq Keyed
  /\ write \in [Writes -> Call]
  /\ commits \in [Batches -> Nat]
  /\ excused \subseteq Batches

(* A batch sent with a key is committed at most once, unless two of its    *)
(* calls overlapped, its mark was lost, or its key expired.                *)
KeyedBatchOnce == \A b \in Keyed : commits[b] > 1 => b \in excused

(* A call refused as a duplicate is one whose batch is in the inventory's  *)
(* past: the refusal never swallows a batch that was not written.          *)
DuplicateWasWritten ==
  \A w \in Writes : write[w].pc = "duplicate" => commits[write[w].batch] > 0

(* What was written to day d: each entry of each commit of a batch.        *)
WritesOf(d) ==
  UNION {({b} \X (1..commits[b])) \X EntriesFor(b, d) : b \in Batches}

(* The version of a day is the number of entries committed for it: no      *)
(* batch was written in part, and no write of a day was lost, however      *)
(* often a batch names the day.                                            *)
VersionCountsCommits ==
  \A d \in Days : inventory[d].version = Cardinality(WritesOf(d))
=============================================================================
