-------------------------- MODULE CatalogSyncProofs -------------------------
(***************************************************************************)
(* Proofs about CatalogSync for every set of hotels, types, rooms,         *)
(* connections and requests, and whatever the PMS lists.                   *)
(***************************************************************************)
EXTENDS CatalogSync, TLAPS

(* A room type, and a room under its type, that the tables have active.    *)
HasType(p, t) == \E x \in roomTypes : x.prop = p /\ x.code = t /\ x.active

HasRoom(p, r, t) ==
  \E x \in rooms : x.prop = p /\ x.ext = r /\ x.type = t /\ x.active

(* Rows are found by their keys.                                           *)
KeysSound ==
  /\ \A p, q \in properties : p.id = q.id => p = q
  /\ \A x, y \in roomTypes : x.prop = y.prop /\ x.code = y.code => x = y
  /\ \A x, y \in rooms : x.prop = y.prop /\ x.ext = y.ext => x = y

(* The rows of property p are what the PMS lists for hotel h.              *)
TypesMirrored(p, types) == \A t \in Types : HasType(p, t) <=> t \in types

RoomsMirrored(p, home) ==
  \A r \in Rooms, t \in Types : HasRoom(p, r, t) <=> home[r] = t

Mirrored(h) ==
  \E p \in properties :
    /\ p.ext = h
    /\ TypesMirrored(p.id, pms[h].types) /\ RoomsMirrored(p.id, pms[h].home)

-----------------------------------------------------------------------------
(* What the PMS lists is well-formed.                                      *)
LEMMA ListingFacts ==
  ASSUME NEW l \in Listings
  PROVE  /\ DOMAIN l \subseteq Hotels
         /\ \A h \in DOMAIN l :
              /\ l[h] \in HotelListing
              /\ \A r \in Rooms : l[h].home[r] \in l[h].types \cup {None}
<1>1. PICK H \in SUBSET Hotels : l \in [H -> HotelListing]
  BY CatalogAssumption DEF Listing
<1> QED
  BY <1>1, CatalogAssumption

(* A request that was not sent, field by field.                            *)
LEMMA IdleFacts ==
  /\ Nothing \in HotelListing /\ Nothing.types = {}
  /\ Idle \in SyncState
  /\ Idle.pc = "idle" /\ Idle.conn = None /\ Idle.found = {} /\ Idle.todo = {}
  /\ Idle.hotel = None /\ Idle.prop = None /\ Idle.listing = Nothing /\ Idle.left = {} /\ Idle.type = None
  /\ Idle.beds = {} /\ Idle.seenTypes = {} /\ Idle.seenRooms = {}
  /\ Idle.goneTypes = {} /\ Idle.goneRooms = {} /\ Idle.choice = None
<1>1. Nothing \in HotelListing /\ Nothing.types = {}
  BY DEF Nothing, HotelListing
<1> QED
  BY <1>1 DEF Idle, SyncState


(* What an upsert leaves in its table.                                     *)
LEMMA RoomTypeUpsert ==
  ASSUME roomTypes \subseteq RoomType, KeysSound, NEW p \in PropIds, NEW t \in Types,
         NEW a \in BOOLEAN, UpsertRoomType(p, t, a)
  PROVE  /\ roomTypes' \subseteq RoomType
         /\ \A x, y \in roomTypes' : x.prop = y.prop /\ x.code = y.code => x = y
         /\ \A q \in PropIds, u \in Types :
              HasType(q, u)' <=> IF q = p /\ u = t THEN a ELSE HasType(q, u)
<1>1. PICK n \in RoomType : n = [prop |-> p, code |-> t, active |-> a]
  BY DEF RoomType
<1>2. n.prop = p /\ n.code = t /\ n.active = a
  BY <1>1
<1>3. roomTypes' = {x \in roomTypes : x.prop # p \/ x.code # t} \cup {n}
  BY <1>1 DEF UpsertRoomType
<1> QED
  BY <1>2, <1>3 DEF HasType, KeysSound

(* Likewise for the rooms.                                                 *)
RoomWritten(p, r, t, a) ==
  \A q \in PropIds, e \in Rooms, u \in Types :
    HasRoom(q, e, u)' <=> IF q = p /\ e = r THEN a /\ u = t ELSE HasRoom(q, e, u)

LEMMA RoomUpsert ==
  ASSUME rooms \subseteq Room, KeysSound, NEW p \in PropIds, NEW r \in Rooms,
         NEW t \in Types, NEW a \in BOOLEAN, UpsertRoom(p, r, t, a)
  PROVE  /\ rooms' \subseteq Room
         /\ \A x, y \in rooms' : x.prop = y.prop /\ x.ext = y.ext => x = y
         /\ RoomWritten(p, r, t, a)
<1>1. PICK n \in Room : n = [prop |-> p, ext |-> r, type |-> t, active |-> a]
  BY DEF Room
<1>2. n.prop = p /\ n.ext = r /\ n.type = t /\ n.active = a
  BY <1>1
<1>3. rooms' = {x \in rooms : x.prop # p \/ x.ext # r} \cup {n}
  BY <1>1 DEF UpsertRoom
<1> QED
  BY <1>2, <1>3 DEF HasRoom, KeysSound, RoomWritten

-----------------------------------------------------------------------------
(* The request s goes on as t, and no other moves.  Each lemma below says  *)
(* what t is for one way of going on.                                      *)
Becomes(s, t) ==
  /\ sync' \in [Syncs -> SyncState] /\ sync'[s] = t
  /\ \A q \in Syncs \ {s} : sync'[q] = sync[q]

(* An EXCEPT at s is a step of s alone.                                    *)
LEMMA OneSync ==
  ASSUME sync \in [Syncs -> SyncState], NEW s \in Syncs, NEW t \in SyncState,
         sync' = [sync EXCEPT ![s] = t]
  PROVE  Becomes(s, t)
BY DEF Becomes

(* SyncCatalog is over.                                                    *)
Left(t, o) ==
  /\ t.pc = "elect" /\ t.conn = o.conn /\ t.found = o.found /\ t.todo = {}
  /\ t.prop = None /\ t.listing = Nothing /\ t.left = {} /\ t.type = None /\ t.beds = {}
  /\ t.seenTypes = {} /\ t.seenRooms = {} /\ t.goneTypes = {} /\ t.goneRooms = {}
  /\ t.choice = None

LEMMA LeaveFacts ==
  ASSUME sync \in [Syncs -> SyncState], NEW s \in Syncs,
         Leave(s)
  PROVE  \E t \in SyncState : Becomes(s, t) /\ Left(t, sync[s])
<1>1. sync[s] \in SyncState
  OBVIOUS
<1>2. PICK c \in Conns \cup {None} : c = sync[s].conn
  BY <1>1 DEF SyncState
<1>3. PICK found \in SUBSET Hotels : found = sync[s].found
  BY <1>1 DEF SyncState
<1>4. PICK t \in SyncState : t = [Idle EXCEPT !.pc = "elect", !.conn = c, !.found = found]
  BY IdleFacts DEF SyncState
<1>5. Left(t, sync[s])
  BY <1>2, <1>3, <1>4, IdleFacts DEF SyncState, Left
<1>6. sync' = [sync EXCEPT ![s] = t]
  BY <1>2, <1>3, <1>4 DEF Leave
<1> QED
  BY <1>5, <1>6, OneSync

(* The hotel is left, the search goes on.                                  *)
HotelLeft(t, o) ==
  /\ t.pc = "hotel" /\ t.conn = o.conn /\ t.found = o.found /\ t.todo = o.todo
  /\ t.prop = None /\ t.listing = Nothing /\ t.left = {} /\ t.type = None /\ t.beds = {}
  /\ t.seenTypes = {} /\ t.seenRooms = {} /\ t.goneTypes = {} /\ t.goneRooms = {}
  /\ t.choice = None

LEMMA NextHotelFacts ==
  ASSUME sync \in [Syncs -> SyncState], NEW s \in Syncs,
         NextHotel(s)
  PROVE  \E t \in SyncState : Becomes(s, t) /\ HotelLeft(t, sync[s])
<1>1. sync[s] \in SyncState
  OBVIOUS
<1>2. PICK c \in Conns \cup {None} : c = sync[s].conn
  BY <1>1 DEF SyncState
<1>3. PICK found \in SUBSET Hotels, todo \in SUBSET Hotels :
        found = sync[s].found /\ todo = sync[s].todo
  BY <1>1 DEF SyncState
<1>4. PICK t \in SyncState :
        t = [Idle EXCEPT !.pc = "hotel", !.conn = c, !.found = found, !.todo = todo]
  BY IdleFacts DEF SyncState
<1>5. HotelLeft(t, sync[s])
  BY <1>2, <1>3, <1>4, IdleFacts DEF SyncState, HotelLeft
<1>6. sync' = [sync EXCEPT ![s] = t]
  BY <1>2, <1>3, <1>4 DEF NextHotel
<1> QED
  BY <1>5, <1>6, OneSync

(* Only the place in the code changes.                                     *)
At(t, o, pc) ==
  /\ t.pc = pc /\ t.conn = o.conn /\ t.found = o.found /\ t.todo = o.todo
  /\ t.prop = o.prop /\ t.listing = o.listing /\ t.left = o.left /\ t.type = o.type
  /\ t.beds = o.beds /\ t.seenTypes = o.seenTypes /\ t.seenRooms = o.seenRooms
  /\ t.goneTypes = o.goneTypes /\ t.goneRooms = o.goneRooms /\ t.choice = o.choice

LEMMA GotoFacts ==
  ASSUME sync \in [Syncs -> SyncState], NEW s \in Syncs,
         NEW pc \in {"readRooms", "done"}, Goto(s, pc)
  PROVE  \E t \in SyncState : Becomes(s, t) /\ At(t, sync[s], pc)
<1>1. sync[s] \in SyncState
  OBVIOUS
<1>2. PICK t \in SyncState : t = [sync[s] EXCEPT !.pc = pc]
  BY <1>1, IdleFacts DEF SyncState
<1>3. At(t, sync[s], pc)
  BY <1>1, <1>2, IdleFacts DEF SyncState, At
<1>4. sync' = [sync EXCEPT ![s] = t]
  BY <1>2 DEF Goto
<1> QED
  BY <1>3, <1>4, OneSync

(* The request ends where it is.                                           *)
Stopped(t) ==
  /\ t.pc = "done" /\ t.conn = None /\ t.found = {} /\ t.todo = {} /\ t.prop = None
  /\ t.listing = Nothing /\ t.left = {} /\ t.type = None /\ t.beds = {}
  /\ t.seenTypes = {} /\ t.seenRooms = {} /\ t.goneTypes = {} /\ t.goneRooms = {}
  /\ t.choice = None

LEMMA StopFacts ==
  ASSUME sync \in [Syncs -> SyncState], NEW s \in Syncs,
         StopSync(s)
  PROVE  \E t \in SyncState : Becomes(s, t) /\ Stopped(t)
<1>1. sync[s] \in SyncState
  OBVIOUS
<1>2. PICK t \in SyncState : t = [Idle EXCEPT !.pc = "done"]
  BY IdleFacts DEF SyncState
<1>3. Stopped(t)
  BY <1>2, IdleFacts DEF SyncState, Stopped
<1>4. sync' = [sync EXCEPT ![s] = t]
  BY <1>2 DEF StopSync
<1> QED
  BY <1>3, <1>4, OneSync

(* The request is sent.                                                    *)
Started(t, c) ==
  /\ t.pc = "search" /\ t.conn = c /\ t.found = {} /\ t.todo = {} /\ t.prop = None
  /\ t.listing = Nothing /\ t.left = {} /\ t.type = None /\ t.beds = {}
  /\ t.seenTypes = {} /\ t.seenRooms = {} /\ t.goneTypes = {} /\ t.goneRooms = {}
  /\ t.choice = None

LEMMA StartFacts ==
  ASSUME sync \in [Syncs -> SyncState], NEW s \in Syncs,
         NEW c \in Conns, StartSync(s, c)
  PROVE  \E t \in SyncState : Becomes(s, t) /\ Started(t, c)
<1>1. sync[s] \in SyncState
  OBVIOUS
<1>2. PICK t \in SyncState : t = [Idle EXCEPT !.pc = "search", !.conn = c]
  BY IdleFacts DEF SyncState
<1>3. Started(t, c)
  BY <1>1, <1>2, IdleFacts DEF SyncState, Started
<1>4. sync' = [sync EXCEPT ![s] = t]
  BY <1>2 DEF StartSync
<1> QED
  BY <1>3, <1>4, OneSync

(* The hotels are found.                                                   *)
Searched(t, o, hotels) ==
  /\ t.pc = "hotel" /\ t.conn = o.conn /\ t.found = hotels /\ t.todo = hotels
  /\ t.prop = o.prop /\ t.listing = o.listing /\ t.left = o.left /\ t.type = o.type
  /\ t.beds = o.beds /\ t.seenTypes = o.seenTypes /\ t.seenRooms = o.seenRooms
  /\ t.goneTypes = o.goneTypes /\ t.goneRooms = o.goneRooms /\ t.choice = o.choice

LEMMA SearchFacts ==
  ASSUME sync \in [Syncs -> SyncState], NEW s \in Syncs,
         NEW hotels \in SUBSET Hotels,
         sync' = [sync EXCEPT ![s] = [sync[s] EXCEPT !.pc = "hotel", !.found = hotels,
                                                       !.todo = hotels]]
  PROVE  \E t \in SyncState : Becomes(s, t) /\ Searched(t, sync[s], hotels)
<1>1. sync[s] \in SyncState
  OBVIOUS
<1>2. PICK t \in SyncState : t = [sync[s] EXCEPT !.pc = "hotel", !.found = hotels, !.todo = hotels]
  BY <1>1, IdleFacts DEF SyncState
<1>3. Searched(t, sync[s], hotels)
  BY <1>1, <1>2, IdleFacts DEF SyncState, Searched
<1>4. sync' = [sync EXCEPT ![s] = t]
  BY <1>2 DEF SyncState
<1> QED
  BY <1>3, <1>4, OneSync

(* A hotel is looked for: its row is id, or it has none.                   *)
HotelRead(t, o, h, id, todo) ==
  /\ t.pc = "upsert" /\ t.conn = o.conn /\ t.found = o.found /\ t.todo = todo
  /\ t.hotel = h /\ t.prop = id
  /\ t.seenTypes = o.seenTypes /\ t.seenRooms = o.seenRooms

LEMMA ReadHotelFacts ==
  ASSUME sync \in [Syncs -> SyncState], NEW s \in Syncs,
         NEW todo \in SUBSET Hotels, NEW h \in Hotels, NEW id \in PropIds \cup {None},
         sync' = [sync EXCEPT ![s] = [sync[s] EXCEPT !.pc = "upsert", !.hotel = h,
                                                       !.prop = id, !.todo = todo]]
  PROVE  \E t \in SyncState : Becomes(s, t) /\ HotelRead(t, sync[s], h, id, todo)
<1>1. sync[s] \in SyncState
  OBVIOUS
<1>2. PICK t \in SyncState : t = [sync[s] EXCEPT !.pc = "upsert", !.hotel = h,
                                                 !.prop = id, !.todo = todo]
  BY <1>1, IdleFacts DEF SyncState
<1>3. HotelRead(t, sync[s], h, id, todo)
  BY <1>1, <1>2, IdleFacts DEF SyncState, HotelRead
<1>4. sync' = [sync EXCEPT ![s] = t]
  BY <1>2 DEF SyncState
<1> QED
  BY <1>3, <1>4, OneSync

(* The row that a hotel is looked for under is its own, if it has one.     *)
LEMMA RowOfHotel ==
  ASSUME properties \subseteq Property, NEW s \in Syncs, NEW h \in Hotels,
         GetPropertyByExternal(s, h)
  PROVE  \E id \in PropIds \cup {None} :
           /\ id = None => \A p \in properties : p.ext # h
           /\ id # None => \E p \in properties : p.id = id /\ p.ext = h
           /\ sync' = [sync EXCEPT ![s] = [sync[s] EXCEPT !.pc = "upsert", !.hotel = h,
                        !.prop = id, !.todo = @ \ {h}]]
<1> DEFINE old == {p.id : p \in {q \in properties : q.ext = h}}
<1>1. PICK id \in IF old = {} THEN {None} ELSE old :
        sync' = [sync EXCEPT ![s] = [sync[s] EXCEPT !.pc = "upsert", !.hotel = h,
                   !.prop = id, !.todo = @ \ {h}]]
  BY DEF GetPropertyByExternal
<1>2. CASE old = {}
  <2>1. id = None /\ \A p \in properties : p.ext # h
    BY <1>1, <1>2
  <2> QED
    BY <1>1, <2>1
<1>3. CASE old # {}
  <2>1. PICK p \in properties : p.ext = h /\ p.id = id
    BY <1>1, <1>3
  <2>2. id \in PropIds /\ id # None
    BY <2>1, CatalogAssumption DEF Property
  <2> QED
    BY <1>1, <2>1, <2>2
<1> QED
  BY <1>2, <1>3

(* A hotel is upserted, its rows are next.                                 *)
HotelTaken(t, o, id) ==
  /\ t.pc = "list" /\ t.conn = o.conn /\ t.found = o.found /\ t.todo = o.todo
  /\ t.prop = id /\ t.listing = o.listing /\ t.left = o.left /\ t.type = o.type
  /\ t.beds = o.beds /\ t.seenTypes = o.seenTypes /\ t.seenRooms = o.seenRooms
  /\ t.goneTypes = o.goneTypes /\ t.goneRooms = o.goneRooms /\ t.choice = o.choice

LEMMA TakeHotelFacts ==
  ASSUME sync \in [Syncs -> SyncState], NEW s \in Syncs, NEW id \in PropIds,
         sync' = [sync EXCEPT ![s] = [sync[s] EXCEPT !.pc = "list", !.prop = id,
                                                       !.hotel = None]]
  PROVE  \E t \in SyncState : Becomes(s, t) /\ HotelTaken(t, sync[s], id)
<1>1. sync[s] \in SyncState
  OBVIOUS
<1>2. PICK t \in SyncState : t = [sync[s] EXCEPT !.pc = "list", !.prop = id, !.hotel = None]
  BY <1>1, IdleFacts DEF SyncState
<1>3. HotelTaken(t, sync[s], id)
  BY <1>1, <1>2, IdleFacts DEF SyncState, HotelTaken
<1>4. sync' = [sync EXCEPT ![s] = t]
  BY <1>2 DEF SyncState
<1> QED
  BY <1>3, <1>4, OneSync

(* Its types and rooms are listed.                                         *)
Listed(t, o, l) ==
  /\ t.pc = "type" /\ t.conn = o.conn /\ t.found = o.found /\ t.todo = o.todo
  /\ t.prop = o.prop /\ t.listing = l /\ t.left = l.types /\ t.type = o.type
  /\ t.beds = o.beds /\ t.seenTypes = o.seenTypes /\ t.seenRooms = o.seenRooms
  /\ t.goneTypes = o.goneTypes /\ t.goneRooms = o.goneRooms /\ t.choice = o.choice

LEMMA ListFacts ==
  ASSUME sync \in [Syncs -> SyncState], NEW s \in Syncs,
         NEW l \in HotelListing,
         sync' = [sync EXCEPT ![s] = [sync[s] EXCEPT !.pc = "type", !.listing = l,
                     !.left = l.types]]
  PROVE  \E t \in SyncState : Becomes(s, t) /\ Listed(t, sync[s], l)
<1>1. sync[s] \in SyncState
  OBVIOUS
<1>2. PICK types \in SUBSET Types : types = l.types
  BY DEF HotelListing
<1>3. PICK t \in SyncState : t = [sync[s] EXCEPT !.pc = "type", !.listing = l, !.left = types]
  BY <1>1 DEF SyncState
<1>4. Listed(t, sync[s], l)
  BY <1>1, <1>2, <1>3, IdleFacts DEF SyncState, Listed
<1>5. sync' = [sync EXCEPT ![s] = t]
  BY <1>2, <1>3 DEF SyncState
<1> QED
  BY <1>4, <1>5, OneSync

(* A type whose upsert failed is left out.                                 *)
TypeSkipped(t, o, u) ==
  /\ t.pc = o.pc /\ t.conn = o.conn /\ t.found = o.found /\ t.todo = o.todo
  /\ t.prop = o.prop /\ t.listing = o.listing /\ t.left = o.left \ {u}
  /\ t.type = o.type /\ t.beds = o.beds /\ t.seenTypes = o.seenTypes
  /\ t.seenRooms = o.seenRooms /\ t.goneTypes = o.goneTypes /\ t.goneRooms = o.goneRooms
  /\ t.choice = o.choice

LEMMA SkipTypeFacts ==
  ASSUME sync \in [Syncs -> SyncState], NEW s \in Syncs,
         NEW u, sync' = [sync EXCEPT ![s].left = @ \ {u}]
  PROVE  \E t \in SyncState : Becomes(s, t) /\ TypeSkipped(t, sync[s], u)
<1>1. sync[s] \in SyncState
  OBVIOUS
<1>2. PICK left \in SUBSET Types : left = sync[s].left \ {u}
  BY <1>1 DEF SyncState
<1>3. PICK t \in SyncState : t = [sync[s] EXCEPT !.left = left]
  BY <1>1, <1>2, IdleFacts DEF SyncState
<1>4. TypeSkipped(t, sync[s], u)
  BY <1>1, <1>2, <1>3, IdleFacts DEF SyncState, TypeSkipped
<1>5. sync' = [sync EXCEPT ![s] = t]
  BY <1>2, <1>3 DEF SyncState
<1> QED
  BY <1>4, <1>5, OneSync

(* A type is upserted, its rooms are next.                                 *)
TypeTaken(t, o, u, left, beds) ==
  /\ t.pc = "room" /\ t.conn = o.conn /\ t.found = o.found /\ t.todo = o.todo
  /\ t.prop = o.prop /\ t.listing = o.listing /\ t.left = left /\ t.type = u
  /\ t.beds = beds /\ t.seenTypes = o.seenTypes /\ t.seenRooms = o.seenRooms
  /\ t.goneTypes = o.goneTypes /\ t.goneRooms = o.goneRooms /\ t.choice = o.choice

LEMMA TakeTypeFacts ==
  ASSUME sync \in [Syncs -> SyncState], NEW s \in Syncs,
         NEW u \in Types, NEW left \in SUBSET Types, NEW beds \in SUBSET Rooms,
         sync' = [sync EXCEPT ![s] = [sync[s] EXCEPT !.pc = "room", !.left = left,
                                                       !.type = u, !.beds = beds]]
  PROVE  \E t \in SyncState : Becomes(s, t) /\ TypeTaken(t, sync[s], u, left, beds)
<1>1. sync[s] \in SyncState
  OBVIOUS
<1>2. PICK t \in SyncState : t = [sync[s] EXCEPT !.pc = "room", !.left = left, !.type = u,
                           !.beds = beds]
  BY <1>1, IdleFacts DEF SyncState
<1>3. TypeTaken(t, sync[s], u, left, beds)
  BY <1>1, <1>2, IdleFacts DEF SyncState, TypeTaken
<1>4. sync' = [sync EXCEPT ![s] = t]
  BY <1>2 DEF SyncState
<1> QED
  BY <1>3, <1>4, OneSync

(* A room is upserted.                                                     *)
RoomTaken(t, o, r) ==
  /\ t.pc = o.pc /\ t.conn = o.conn /\ t.found = o.found /\ t.todo = o.todo
  /\ t.prop = o.prop /\ t.listing = o.listing /\ t.left = o.left /\ t.type = o.type
  /\ t.beds = o.beds \ {r} /\ t.seenTypes = o.seenTypes
  /\ t.seenRooms = o.seenRooms \cup {r} /\ t.goneTypes = o.goneTypes
  /\ t.goneRooms = o.goneRooms /\ t.choice = o.choice

LEMMA TakeRoomFacts ==
  ASSUME sync \in [Syncs -> SyncState], NEW s \in Syncs,
         NEW r \in Rooms,
         sync' = [sync EXCEPT ![s] = [sync[s] EXCEPT !.beds = @ \ {r},
                     !.seenRooms = @ \cup {r}]]
  PROVE  \E t \in SyncState : Becomes(s, t) /\ RoomTaken(t, sync[s], r)
<1>1. sync[s] \in SyncState
  OBVIOUS
<1>2. PICK beds \in SUBSET Rooms : beds = sync[s].beds \ {r}
  BY <1>1 DEF SyncState
<1>3. PICK seen \in SUBSET Rooms : seen = sync[s].seenRooms \cup {r}
  BY <1>1 DEF SyncState
<1>4. PICK t \in SyncState : t = [sync[s] EXCEPT !.beds = beds, !.seenRooms = seen]
  BY <1>1 DEF SyncState
<1>5. RoomTaken(t, sync[s], r)
  BY <1>1, <1>2, <1>3, <1>4, IdleFacts DEF SyncState, RoomTaken
<1>6. sync' = [sync EXCEPT ![s] = t]
  BY <1>2, <1>3, <1>4 DEF SyncState
<1> QED
  BY <1>5, <1>6, OneSync

(* The rooms of the type are done.                                         *)
TypeEnded(t, o) ==
  /\ t.pc = "type" /\ t.conn = o.conn /\ t.found = o.found /\ t.todo = o.todo
  /\ t.prop = o.prop /\ t.listing = o.listing /\ t.left = o.left /\ t.type = None
  /\ t.beds = o.beds /\ t.seenTypes = o.seenTypes \cup {o.type}
  /\ t.seenRooms = o.seenRooms /\ t.goneTypes = o.goneTypes /\ t.goneRooms = o.goneRooms
  /\ t.choice = o.choice

LEMMA EndTypeFacts ==
  ASSUME sync \in [Syncs -> SyncState], NEW s \in Syncs,
         sync[s].type \in Types, EndRoomType(s)
  PROVE  \E t \in SyncState : Becomes(s, t) /\ TypeEnded(t, sync[s])
<1>1. sync[s] \in SyncState
  OBVIOUS
<1>2. PICK seen \in SUBSET Types : seen = sync[s].seenTypes \cup {sync[s].type}
  BY <1>1 DEF SyncState
<1>3. PICK t \in SyncState : t = [sync[s] EXCEPT !.pc = "type", !.type = None, !.seenTypes = seen]
  BY <1>1, <1>2, IdleFacts DEF SyncState
<1>4. TypeEnded(t, sync[s])
  BY <1>1, <1>2, <1>3, IdleFacts DEF SyncState, TypeEnded
<1>5. sync' = [sync EXCEPT ![s] = t]
  BY <1>2, <1>3 DEF EndRoomType
<1> QED
  BY <1>4, <1>5, OneSync

(* The types to deactivate are read.                                       *)
TypesToDrop(t, o, gone) ==
  /\ t.pc = "dropTypes" /\ t.conn = o.conn /\ t.found = o.found /\ t.todo = o.todo
  /\ t.prop = o.prop /\ t.listing = o.listing /\ t.left = o.left /\ t.type = o.type
  /\ t.beds = o.beds /\ t.seenTypes = o.seenTypes /\ t.seenRooms = o.seenRooms
  /\ t.goneTypes = gone /\ t.goneRooms = o.goneRooms /\ t.choice = o.choice

LEMMA DropTypesFacts ==
  ASSUME sync \in [Syncs -> SyncState], NEW s \in Syncs,
         NEW gone \in SUBSET RoomType,
         sync' = [sync EXCEPT ![s] = [sync[s] EXCEPT !.pc = "dropTypes", !.goneTypes = gone]]
  PROVE  \E t \in SyncState : Becomes(s, t) /\ TypesToDrop(t, sync[s], gone)
<1>1. sync[s] \in SyncState
  OBVIOUS
<1>2. PICK t \in SyncState : t = [sync[s] EXCEPT !.pc = "dropTypes", !.goneTypes = gone]
  BY <1>1, IdleFacts DEF SyncState
<1>3. TypesToDrop(t, sync[s], gone)
  BY <1>1, <1>2, IdleFacts DEF SyncState, TypesToDrop
<1>4. sync' = [sync EXCEPT ![s] = t]
  BY <1>2 DEF SyncState
<1> QED
  BY <1>3, <1>4, OneSync

(* One of them is done.                                                    *)
TypeDropped(t, o, x) ==
  /\ t.pc = o.pc /\ t.conn = o.conn /\ t.found = o.found /\ t.todo = o.todo
  /\ t.prop = o.prop /\ t.listing = o.listing /\ t.left = o.left /\ t.type = o.type
  /\ t.beds = o.beds /\ t.seenTypes = o.seenTypes /\ t.seenRooms = o.seenRooms
  /\ t.goneTypes = o.goneTypes \ {x} /\ t.goneRooms = o.goneRooms /\ t.choice = o.choice

LEMMA DropTypeFacts ==
  ASSUME sync \in [Syncs -> SyncState], NEW s \in Syncs,
         NEW x, sync' = [sync EXCEPT ![s].goneTypes = @ \ {x}]
  PROVE  \E t \in SyncState : Becomes(s, t) /\ TypeDropped(t, sync[s], x)
<1>1. sync[s] \in SyncState
  OBVIOUS
<1>2. PICK gone \in SUBSET RoomType : gone = sync[s].goneTypes \ {x}
  BY <1>1 DEF SyncState
<1>3. PICK t \in SyncState : t = [sync[s] EXCEPT !.goneTypes = gone]
  BY <1>1, <1>2, IdleFacts DEF SyncState
<1>4. TypeDropped(t, sync[s], x)
  BY <1>1, <1>2, <1>3, IdleFacts DEF SyncState, TypeDropped
<1>5. sync' = [sync EXCEPT ![s] = t]
  BY <1>2, <1>3 DEF SyncState
<1> QED
  BY <1>4, <1>5, OneSync

(* The rooms to deactivate are read.                                       *)
RoomsToDrop(t, o, gone) ==
  /\ t.pc = "dropRooms" /\ t.conn = o.conn /\ t.found = o.found /\ t.todo = o.todo
  /\ t.prop = o.prop /\ t.listing = o.listing /\ t.left = o.left /\ t.type = o.type
  /\ t.beds = o.beds /\ t.seenTypes = o.seenTypes /\ t.seenRooms = o.seenRooms
  /\ t.goneTypes = o.goneTypes /\ t.goneRooms = gone /\ t.choice = o.choice

LEMMA DropRoomsFacts ==
  ASSUME sync \in [Syncs -> SyncState], NEW s \in Syncs,
         NEW gone \in SUBSET Room,
         sync' = [sync EXCEPT ![s] = [sync[s] EXCEPT !.pc = "dropRooms", !.goneRooms = gone]]
  PROVE  \E t \in SyncState : Becomes(s, t) /\ RoomsToDrop(t, sync[s], gone)
<1>1. sync[s] \in SyncState
  OBVIOUS
<1>2. PICK t \in SyncState : t = [sync[s] EXCEPT !.pc = "dropRooms", !.goneRooms = gone]
  BY <1>1, IdleFacts DEF SyncState
<1>3. RoomsToDrop(t, sync[s], gone)
  BY <1>1, <1>2, IdleFacts DEF SyncState, RoomsToDrop
<1>4. sync' = [sync EXCEPT ![s] = t]
  BY <1>2 DEF SyncState
<1> QED
  BY <1>3, <1>4, OneSync

(* One of them is done.                                                    *)
RoomDropped(t, o, x) ==
  /\ t.pc = o.pc /\ t.conn = o.conn /\ t.found = o.found /\ t.todo = o.todo
  /\ t.prop = o.prop /\ t.listing = o.listing /\ t.left = o.left /\ t.type = o.type
  /\ t.beds = o.beds /\ t.seenTypes = o.seenTypes /\ t.seenRooms = o.seenRooms
  /\ t.goneTypes = o.goneTypes /\ t.goneRooms = o.goneRooms \ {x} /\ t.choice = o.choice

LEMMA DropRoomFacts ==
  ASSUME sync \in [Syncs -> SyncState], NEW s \in Syncs,
         NEW x, sync' = [sync EXCEPT ![s].goneRooms = @ \ {x}]
  PROVE  \E t \in SyncState : Becomes(s, t) /\ RoomDropped(t, sync[s], x)
<1>1. sync[s] \in SyncState
  OBVIOUS
<1>2. PICK gone \in SUBSET Room : gone = sync[s].goneRooms \ {x}
  BY <1>1 DEF SyncState
<1>3. PICK t \in SyncState : t = [sync[s] EXCEPT !.goneRooms = gone]
  BY <1>1, <1>2, IdleFacts DEF SyncState
<1>4. RoomDropped(t, sync[s], x)
  BY <1>1, <1>2, <1>3, IdleFacts DEF SyncState, RoomDropped
<1>5. sync' = [sync EXCEPT ![s] = t]
  BY <1>2, <1>3 DEF SyncState
<1> QED
  BY <1>4, <1>5, OneSync

(* A property is chosen for the default.                                   *)
Chosen(t, o, p) ==
  /\ t.pc = "set" /\ t.conn = o.conn /\ t.found = o.found /\ t.todo = o.todo
  /\ t.prop = o.prop /\ t.listing = o.listing /\ t.left = o.left /\ t.type = o.type
  /\ t.beds = o.beds /\ t.seenTypes = o.seenTypes /\ t.seenRooms = o.seenRooms
  /\ t.goneTypes = o.goneTypes /\ t.goneRooms = o.goneRooms /\ t.choice = p.id

LEMMA ChooseFacts ==
  ASSUME sync \in [Syncs -> SyncState], properties \subseteq Property, NEW s \in Syncs,
         NEW p \in properties,
         sync' = [sync EXCEPT ![s] = [sync[s] EXCEPT !.pc = "set", !.choice = p.id]]
  PROVE  \E t \in SyncState : Becomes(s, t) /\ Chosen(t, sync[s], p)
<1>1. sync[s] \in SyncState
  OBVIOUS
<1>2. PICK id \in PropIds : id = p.id
  BY DEF Property
<1>3. PICK t \in SyncState : t = [sync[s] EXCEPT !.pc = "set", !.choice = id]
  BY <1>1, <1>2, IdleFacts DEF SyncState
<1>4. Chosen(t, sync[s], p)
  BY <1>1, <1>2, <1>3, IdleFacts DEF SyncState, Chosen
<1>5. sync' = [sync EXCEPT ![s] = t]
  BY <1>2, <1>3 DEF SyncState
<1> QED
  BY <1>4, <1>5, OneSync

-----------------------------------------------------------------------------
InHotel == {"list", "type", "room", "dropTypes", "dropRooms"}

(* A request at work knows what it works on.                               *)
SoundAt(t) ==
  /\ t.pc \notin {"idle", "done"} => t.conn \in Conns
  /\ t.pc \in InHotel \cup {"readRooms"} => t.prop \in PropIds
  /\ t.pc = "upsert" => t.hotel \in Hotels
  /\ t.pc = "room" => t.type \in Types
  /\ t.pc = "set" => t.choice \in PropIds

SyncsSound == \A s \in Syncs : SoundAt(sync[s])

(* The others know what they knew.                                         *)
LEMMA BecomesSound ==
  ASSUME SyncsSound, NEW s \in Syncs, NEW t \in SyncState, Becomes(s, t), SoundAt(t)
  PROVE  sync' \in [Syncs -> SyncState] /\ SyncsSound'
BY DEF SyncsSound, Becomes

(* Only a request that found no default goes on to set one.                *)
Elects(s, t) == t.pc = "set" => sync[s].pc = "set" \/ default = None

(* Every step of a request goes on to a sound one.                         *)
LEMMA SyncsStep ==
  ASSUME CatTypeOK, SyncsSound, NEW s \in Syncs, SyncStep(s)
  PROVE  \E t \in SyncState : Becomes(s, t) /\ SoundAt(t) /\ Elects(s, t)
<1> USE DEF InHotel
<1>1. /\ sync \in [Syncs -> SyncState] /\ sync[s] \in SyncState /\ SoundAt(sync[s])
      /\ pms \in Listings /\ properties \subseteq Property
  BY DEF CatTypeOK, SyncsSound
<1>2. ASSUME NEW c \in Conns, StartSync(s, c)
      PROVE  \E t \in SyncState : Becomes(s, t) /\ SoundAt(t) /\ Elects(s, t)
  <2>1. PICK t \in SyncState : Becomes(s, t) /\ Started(t, c)
    BY <1>1, <1>2, StartFacts
  <2> QED
    BY <1>1, <1>2, <2>1 DEF Started, SoundAt, Elects
<1>3. ASSUME Leave(s), sync[s].pc \notin {"idle", "done"}
      PROVE  \E t \in SyncState : Becomes(s, t) /\ SoundAt(t) /\ Elects(s, t)
  <2>1. PICK t \in SyncState : Becomes(s, t) /\ Left(t, sync[s])
    BY <1>1, <1>3, LeaveFacts
  <2> QED
    BY <1>1, <1>3, <2>1 DEF Left, SoundAt, Elects
<1>4. ASSUME NextHotel(s), sync[s].pc \notin {"idle", "done"}
      PROVE  \E t \in SyncState : Becomes(s, t) /\ SoundAt(t) /\ Elects(s, t)
  <2>1. PICK t \in SyncState : Becomes(s, t) /\ HotelLeft(t, sync[s])
    BY <1>1, <1>4, NextHotelFacts
  <2> QED
    BY <1>1, <1>4, <2>1 DEF HotelLeft, SoundAt, Elects
<1> DEFINE Goes == \E t \in SyncState : Becomes(s, t) /\ SoundAt(t) /\ Elects(s, t)
<1>5. ASSUME SearchProperties(s) PROVE Goes
  <2>1. PICK hotels \in SUBSET Hotels : hotels = DOMAIN pms
    BY <1>1, ListingFacts
  <2>2. CASE sync' = [sync EXCEPT ![s] = [sync[s] EXCEPT !.pc = "hotel",
                        !.found = hotels, !.todo = hotels]]
    <3>1. sync[s].pc = "search"
      BY <1>5 DEF SearchProperties
    <3>2. PICK t \in SyncState : Becomes(s, t) /\ Searched(t, sync[s], hotels)
      BY <1>1, <2>2, SearchFacts
    <3> QED
      BY <1>1, <3>1, <3>2 DEF Searched, SoundAt, Elects
  <2> QED
    BY <1>3, <1>5, <2>1, <2>2 DEF SearchProperties
<1>6. ASSUME NEW h \in Hotels, GetPropertyByExternal(s, h) PROVE Goes
  <2>1. PICK todo \in SUBSET Hotels : todo = sync[s].todo \ {h}
    BY <1>1 DEF SyncState
  <2>2. PICK id \in PropIds \cup {None} :
          sync' = [sync EXCEPT ![s] = [sync[s] EXCEPT !.pc = "upsert", !.hotel = h,
                                                        !.prop = id, !.todo = todo]]
    BY <1>1, <1>6, <2>1, RowOfHotel
  <2>3. sync[s].pc = "hotel"
    BY <1>6 DEF GetPropertyByExternal
  <2>4. PICK t \in SyncState : Becomes(s, t) /\ HotelRead(t, sync[s], h, id, todo)
    BY <1>1, <2>2, ReadHotelFacts
  <2> QED
    BY <1>1, <2>3, <2>4 DEF HotelRead, SoundAt, Elects
<1>7. ASSUME ListRoomTypes(s) PROVE Goes
  <2>1. CASE NextHotel(s)
    BY <1>4, <1>7, <2>1 DEF ListRoomTypes
  <2>2. CASE ~NextHotel(s)
    <3>1. PICK l \in HotelListing :
            sync' = [sync EXCEPT ![s] = [sync[s] EXCEPT !.pc = "type", !.listing = l,
                                                        !.left = l.types]]
      BY <1>1, <1>7, <2>2, ListingFacts, IdleFacts DEF ListRoomTypes
    <3> QED
      <4>1. sync[s].pc = "list"
        BY <1>7 DEF ListRoomTypes
      <4>2. PICK t \in SyncState : Becomes(s, t) /\ Listed(t, sync[s], l)
        BY <1>1, <3>1, ListFacts
      <4> QED
        BY <1>1, <4>1, <4>2 DEF Listed, SoundAt, Elects
  <2> QED
    BY <2>1, <2>2
<1>8. ASSUME NEW u \in Types, SyncRoomType(s, u) PROVE Goes
  <2>1. CASE sync' = [sync EXCEPT ![s].left = @ \ {u}]
    <3>1. PICK t \in SyncState : Becomes(s, t) /\ TypeSkipped(t, sync[s], u)
      BY <1>1, <2>1, SkipTypeFacts
    <3>2. sync[s].pc = "type"
      BY <1>8 DEF SyncRoomType
    <3> QED
      BY <1>1, <3>1, <3>2 DEF TypeSkipped, SoundAt, Elects
  <2>2. CASE sync' # [sync EXCEPT ![s].left = @ \ {u}]
    <3>1. sync' = [sync EXCEPT ![s] = [sync[s] EXCEPT !.pc = "room", !.left = @ \ {u},
            !.type = u, !.beds = {r \in Rooms : sync[s].listing.home[r] = u}]]
      BY <1>8, <2>2 DEF SyncRoomType
    <3>2. PICK left \in SUBSET Types, beds \in SUBSET Rooms, t \in SyncState :
            Becomes(s, t) /\ TypeTaken(t, sync[s], u, left, beds)
      <4>1. PICK left \in SUBSET Types : left = sync[s].left \ {u}
        BY <1>1 DEF SyncState
      <4>2. PICK beds \in SUBSET Rooms :
              beds = {r \in Rooms : sync[s].listing.home[r] = u}
        OBVIOUS
      <4>3. sync' = [sync EXCEPT ![s] = [sync[s] EXCEPT !.pc = "room", !.left = left,
                                                        !.type = u, !.beds = beds]]
        BY <3>1, <4>1, <4>2
      <4> QED
        BY <1>1, <4>3, TakeTypeFacts
    <3>3. sync[s].pc = "type"
      BY <1>8 DEF SyncRoomType
    <3> QED
      BY <1>1, <3>2, <3>3 DEF TypeTaken, SoundAt, Elects
  <2> QED
    BY <2>1, <2>2
<1>9. ASSUME NEW r \in Rooms, SyncRoom(s, r) PROVE Goes
  <2>1. CASE Leave(s)
    BY <1>3, <1>9, <2>1 DEF SyncRoom
  <2>2. CASE ~Leave(s)
    <3>1. /\ sync[s].pc = "room"
          /\ sync' = [sync EXCEPT ![s] = [sync[s] EXCEPT !.beds = @ \ {r},
                                                        !.seenRooms = @ \cup {r}]]
      BY <1>9, <2>2 DEF SyncRoom
    <3>2. PICK t \in SyncState : Becomes(s, t) /\ RoomTaken(t, sync[s], r)
      BY <1>1, <3>1, TakeRoomFacts
    <3> QED
      BY <1>1, <3>1, <3>2 DEF RoomTaken, SoundAt, Elects
  <2> QED
    BY <2>1, <2>2
<1>10. ASSUME EndRoomType(s) PROVE Goes
  <2>1. sync[s].pc = "room" /\ sync[s].type \in Types
    BY <1>1, <1>10 DEF EndRoomType, SoundAt
  <2>2. PICK t \in SyncState : Becomes(s, t) /\ TypeEnded(t, sync[s])
    BY <1>1, <2>1, <1>10, EndTypeFacts
  <2> QED
    BY <1>1, <2>1, <2>2 DEF TypeEnded, SoundAt, Elects
<1>11. ASSUME ReadRoomTypes(s) PROVE Goes
  <2>1. CASE Goto(s, "readRooms")
    <3>1. sync[s].pc = "type"
      BY <1>11 DEF ReadRoomTypes
    <3>2. PICK t \in SyncState : Becomes(s, t) /\ At(t, sync[s], "readRooms")
      BY <1>1, <2>1, GotoFacts
    <3> QED
      BY <1>1, <3>1, <3>2 DEF At, SoundAt, Elects
  <2>2. CASE ~Goto(s, "readRooms")
    <3>1. PICK gone \in SUBSET RoomType :
            sync' = [sync EXCEPT ![s] = [sync[s] EXCEPT !.pc = "dropTypes",
                                                        !.goneTypes = gone]]
      BY <1>11, <2>2 DEF ReadRoomTypes, CatTypeOK
    <3> QED
      <4>1. sync[s].pc = "type"
        BY <1>11 DEF ReadRoomTypes
      <4>2. PICK t \in SyncState : Becomes(s, t) /\ TypesToDrop(t, sync[s], gone)
        BY <1>1, <3>1, DropTypesFacts
      <4> QED
        BY <1>1, <4>1, <4>2 DEF TypesToDrop, SoundAt, Elects
  <2> QED
    BY <2>1, <2>2
<1>12. ASSUME ReadRooms(s) PROVE Goes
  <2>1. CASE NextHotel(s)
    BY <1>4, <1>12, <2>1 DEF ReadRooms
  <2>2. CASE ~NextHotel(s)
    <3>1. PICK gone \in SUBSET Room :
            sync' = [sync EXCEPT ![s] = [sync[s] EXCEPT !.pc = "dropRooms",
                                                        !.goneRooms = gone]]
      BY <1>12, <2>2 DEF ReadRooms, CatTypeOK
    <3> QED
      <4>1. sync[s].pc \in {"dropTypes", "readRooms"}
        BY <1>12 DEF ReadRooms
      <4>2. PICK t \in SyncState : Becomes(s, t) /\ RoomsToDrop(t, sync[s], gone)
        BY <1>1, <3>1, DropRoomsFacts
      <4> QED
        BY <1>1, <4>1, <4>2 DEF RoomsToDrop, SoundAt, Elects
  <2> QED
    BY <2>1, <2>2
<1>13. ASSUME NEW x, DropRoomType(s, x) PROVE Goes
  <2>1. sync[s].pc = "dropTypes" /\ sync' = [sync EXCEPT ![s].goneTypes = @ \ {x}]
    BY <1>13 DEF DropRoomType
  <2>2. PICK t \in SyncState : Becomes(s, t) /\ TypeDropped(t, sync[s], x)
    BY <1>1, <2>1, DropTypeFacts
  <2> QED
    BY <1>1, <2>1, <2>2 DEF TypeDropped, SoundAt, Elects
<1>14. ASSUME NEW x, DropRoom(s, x) PROVE Goes
  <2>1. sync[s].pc = "dropRooms" /\ sync' = [sync EXCEPT ![s].goneRooms = @ \ {x}]
    BY <1>14 DEF DropRoom
  <2>2. PICK t \in SyncState : Becomes(s, t) /\ RoomDropped(t, sync[s], x)
    BY <1>1, <2>1, DropRoomFacts
  <2> QED
    BY <1>1, <2>1, <2>2 DEF RoomDropped, SoundAt, Elects
<1>15. ASSUME EndHotel(s) \/ EndSync(s) PROVE Goes
  BY <1>3, <1>4, <1>15 DEF EndHotel, EndSync
<1>16. ASSUME ReadDefault(s) PROVE Goes
  <2>1. CASE Goto(s, "done")
    <3>1. sync[s].pc = "elect"
      BY <1>16 DEF ReadDefault
    <3>2. PICK t \in SyncState : Becomes(s, t) /\ At(t, sync[s], "done")
      BY <1>1, <2>1, GotoFacts
    <3> QED
      BY <1>1, <3>1, <3>2 DEF At, SoundAt, Elects
  <2>2. CASE ~Goto(s, "done")
    <3>1. PICK p \in properties :
            sync' = [sync EXCEPT ![s] = [sync[s] EXCEPT !.pc = "set", !.choice = p.id]]
      BY <1>16, <2>2 DEF ReadDefault
    <3>2. p.id \in PropIds
      BY <1>1 DEF Property
    <3>3. PICK t \in SyncState : Becomes(s, t) /\ Chosen(t, sync[s], p)
      BY <1>1, <3>1, ChooseFacts
    <3>4. sync[s].pc = "elect" /\ default = None
      BY <1>16, <2>2 DEF ReadDefault
    <3> QED
      BY <1>1, <3>2, <3>3, <3>4 DEF Chosen, SoundAt, Elects
  <2> QED
    BY <2>1, <2>2
<1>17. ASSUME ElectDefault(s) PROVE Goes
  <2>1. sync[s].pc = "set" /\ Goto(s, "done")
    BY <1>17 DEF ElectDefault
  <2>2. PICK t \in SyncState : Becomes(s, t) /\ At(t, sync[s], "done")
    BY <1>1, <2>1, GotoFacts
  <2> QED
    BY <1>1, <2>1, <2>2 DEF At, SoundAt, Elects
<1>18. ASSUME StopSync(s) PROVE Goes
  <2>1. PICK t \in SyncState : Becomes(s, t) /\ Stopped(t)
    BY <1>1, <1>18, StopFacts
  <2> QED
    BY <1>1, <1>18, <2>1 DEF Stopped, SoundAt, Elects
<1>19. ASSUME SyncProperty(s) PROVE Goes
  <2>1. sync[s].pc = "upsert"
    BY <1>19 DEF SyncProperty
  <2>2. ASSUME NEW id \in PropIds,
               sync' = [sync EXCEPT ![s] = [sync[s] EXCEPT !.pc = "list", !.prop = id,
                                                             !.hotel = None]]
        PROVE  Goes
    <3>1. PICK t \in SyncState : Becomes(s, t) /\ HotelTaken(t, sync[s], id)
      BY <1>1, <2>2, TakeHotelFacts
    <3> QED
      BY <1>1, <2>1, <3>1 DEF HotelTaken, SoundAt, Elects
  <2> QED
    BY <1>4, <1>19, <2>1, <2>2 DEF SyncProperty
<1> QED
  BY <1>2, <1>5, <1>6, <1>7, <1>8, <1>9, <1>10, <1>11, <1>12, <1>13, <1>14, <1>15, <1>16,
     <1>17, <1>18, <1>19
  DEF SyncStep

(* The tables stay in their types and keep their keys.                     *)
LEMMA TablesStep ==
  ASSUME CatTypeOK, KeysSound, SyncsSound, CatNext
  PROVE  CatTypeOK' /\ KeysSound'
<1>1. /\ sync \in [Syncs -> SyncState] /\ pms \in Listings
      /\ roomTypes \subseteq RoomType /\ rooms \subseteq Room
      /\ properties \subseteq Property /\ default \in PropIds \cup {None}
      /\ edits \in 0 .. MaxEdits /\ clean \subseteq Syncs
  BY DEF CatTypeOK
<1>2. sync' \in [Syncs -> SyncState]
  <2>1. ASSUME NEW s \in Syncs, SyncStep(s) PROVE sync' \in [Syncs -> SyncState]
    BY <2>1, SyncsStep DEF Becomes
  <2> QED
    BY <1>1, <2>1 DEF CatNext, ChooseDefault, EditPms, Catalog
<1>3. edits' \in 0 .. MaxEdits /\ pms' \in Listings
  <2>1. ASSUME NEW s \in Syncs, SyncStep(s) PROVE edits' = edits /\ pms' = pms
    BY <2>1
    DEF SyncStep, StartSync, SearchProperties, GetPropertyByExternal, SyncProperty, ListRoomTypes, SyncRoomType,
        SyncRoom, EndRoomType, ReadRoomTypes, ReadRooms, DropRoomType, DropRoom, EndHotel,
        EndSync, ReadDefault, ElectDefault, StopSync
  <2>2. edits < MaxEdits => edits + 1 \in 0 .. MaxEdits
    BY <1>1, CatalogAssumption
  <2> QED
    BY <1>1, <2>1, <2>2 DEF CatNext, ChooseDefault, EditPms
<1>4. clean' \subseteq Syncs
  <2>1. ASSUME NEW s \in Syncs, SyncStep(s) PROVE clean' \subseteq clean \cup {s}
    BY <2>1
    DEF SyncStep, StartSync, SearchProperties, GetPropertyByExternal, SyncProperty, ListRoomTypes, SyncRoomType,
        SyncRoom, EndRoomType, ReadRoomTypes, ReadRooms, DropRoomType, DropRoom, EndHotel,
        EndSync, ReadDefault, ElectDefault, StopSync
  <2> QED
    BY <1>1, <2>1 DEF CatNext, ChooseDefault, EditPms
<1>5. default' \in PropIds \cup {None}
  <2>1. ASSUME NEW s \in Syncs, SyncStep(s) PROVE default' \in PropIds \cup {None}
    <3>1. CASE ElectDefault(s)
      BY <1>1, <3>1 DEF ElectDefault, SetDefault, SyncsSound, SoundAt
    <3> QED
      BY <1>1, <2>1, <3>1
      DEF SyncStep, StartSync, SearchProperties, GetPropertyByExternal, SyncProperty, ListRoomTypes, SyncRoomType,
          SyncRoom, EndRoomType, ReadRoomTypes, ReadRooms, DropRoomType, DropRoom, EndHotel,
          EndSync, ReadDefault, StopSync, Catalog
  <2> QED
    BY <1>1, <2>1 DEF CatNext, ChooseDefault, EditPms, SetDefault, Catalog
<1>6. /\ properties' \subseteq Property
      /\ \A p, q \in properties' : p.id = q.id => p = q
  <2>1. ASSUME NEW s \in Syncs, SyncProperty(s)
        PROVE  /\ properties' \subseteq Property
               /\ \A p, q \in properties' : p.id = q.id => p = q
    <3>1. CASE UNCHANGED properties
      BY <1>1, <3>1 DEF KeysSound
    <3>2. CASE ~UNCHANGED properties
      <4>1. PICK id \in PropIds : UpsertProperty(s, id)
        BY <2>1, <3>2 DEF SyncProperty
      <4>2. sync[s].conn \in Conns /\ sync[s].hotel \in Hotels
        BY <2>1 DEF SyncProperty, SyncsSound, SoundAt
      <4>3. PICK p \in Property :
              /\ properties' \subseteq properties \cup {p}
              /\ \A q \in properties' : q.id = p.id => q = p
        <5>1. CASE \E p \in properties :
                /\ properties' = (properties \ {p}) \cup {[p EXCEPT !.conn = sync[s].conn]}
          <6>1. PICK p \in properties :
                  properties' = (properties \ {p}) \cup {[p EXCEPT !.conn = sync[s].conn]}
            BY <5>1
          <6>2. PICK n \in Property : n = [p EXCEPT !.conn = sync[s].conn]
            BY <1>1, <4>2 DEF Property
          <6>3. n.id = p.id
            BY <1>1, <6>2 DEF Property
          <6>4. ASSUME NEW q \in properties', q.id = n.id PROVE q = n
            BY <6>1, <6>2, <6>3, <6>4 DEF KeysSound
          <6> QED
            BY <6>1, <6>2, <6>4
        <5>2. CASE /\ \A p \in properties : p.id # id
                   /\ properties' = properties \cup
                        {[id |-> id, ext |-> sync[s].hotel, conn |-> sync[s].conn]}
          <6>1. PICK n \in Property :
                  n = [id |-> id, ext |-> sync[s].hotel, conn |-> sync[s].conn]
            BY <4>2 DEF Property
          <6>2. n.id = id
            BY <6>1
          <6> QED
            BY <5>2, <6>1, <6>2
        <5> QED
          BY <4>1, <5>1, <5>2 DEF UpsertProperty
      <4> QED
        BY <1>1, <4>3 DEF KeysSound
    <3> QED
      BY <3>1, <3>2
  <2>2. ASSUME NEW s \in Syncs, SyncStep(s), ~SyncProperty(s)
        PROVE  UNCHANGED properties
    BY <2>2
    DEF SyncStep, StartSync, SearchProperties, GetPropertyByExternal, ListRoomTypes, SyncRoomType,
        SyncRoom, EndRoomType, ReadRoomTypes, ReadRooms, DropRoomType, DropRoom, EndHotel,
        EndSync, ReadDefault, ElectDefault, StopSync, Catalog
  <2> QED
    BY <1>1, <2>1, <2>2 DEF CatNext, ChooseDefault, EditPms, Catalog, KeysSound
<1>7. /\ roomTypes' \subseteq RoomType
      /\ \A x, y \in roomTypes' : x.prop = y.prop /\ x.code = y.code => x = y
  <2>1. ASSUME NEW p \in PropIds, NEW t \in Types, NEW a \in BOOLEAN, UpsertRoomType(p, t, a)
        PROVE  /\ roomTypes' \subseteq RoomType
               /\ \A x, y \in roomTypes' : x.prop = y.prop /\ x.code = y.code => x = y
    BY <1>1, <2>1, RoomTypeUpsert
  <2>2. ASSUME NEW s \in Syncs, NEW t \in Types, SyncRoomType(s, t)
        PROVE  \/ UNCHANGED roomTypes
               \/ \E p \in PropIds : UpsertRoomType(p, t, TRUE)
    BY <2>2 DEF SyncRoomType, SyncsSound, SoundAt, InHotel
  <2>3. ASSUME NEW s \in Syncs, NEW x \in sync[s].goneTypes, DropRoomType(s, x)
        PROVE  \/ UNCHANGED roomTypes
               \/ \E p \in PropIds, t \in Types : UpsertRoomType(p, t, FALSE)
    <3>1. x \in RoomType
      BY <1>1 DEF SyncState
    <3>2. x.prop \in PropIds /\ x.code \in Types
      BY <3>1 DEF RoomType
    <3> QED
      BY <2>3, <3>2 DEF DropRoomType
  <2>4. ASSUME NEW s \in Syncs, SyncStep(s), \A t \in Types : ~SyncRoomType(s, t),
               \A x \in sync[s].goneTypes : ~DropRoomType(s, x)
        PROVE  UNCHANGED roomTypes
    BY <2>4
    DEF SyncStep, StartSync, SearchProperties, GetPropertyByExternal, SyncProperty, ListRoomTypes,
        SyncRoom, EndRoomType, ReadRoomTypes, ReadRooms, DropRoom, EndHotel,
        EndSync, ReadDefault, ElectDefault, StopSync, Catalog
  <2>5. \/ UNCHANGED roomTypes
        \/ \E p \in PropIds, t \in Types, a \in BOOLEAN : UpsertRoomType(p, t, a)
    BY <2>2, <2>3, <2>4 DEF CatNext, ChooseDefault, EditPms, Catalog
  <2> QED
    BY <1>1, <2>1, <2>5 DEF KeysSound
<1>8. /\ rooms' \subseteq Room
      /\ \A x, y \in rooms' : x.prop = y.prop /\ x.ext = y.ext => x = y
  <2>1. ASSUME NEW p \in PropIds, NEW r \in Rooms, NEW t \in Types, NEW a \in BOOLEAN,
               UpsertRoom(p, r, t, a)
        PROVE  /\ rooms' \subseteq Room
               /\ \A x, y \in rooms' : x.prop = y.prop /\ x.ext = y.ext => x = y
    BY <1>1, <2>1, RoomUpsert
  <2>2. ASSUME NEW s \in Syncs, NEW r \in Rooms, SyncRoom(s, r)
        PROVE  \/ UNCHANGED rooms
               \/ \E p \in PropIds, t \in Types : UpsertRoom(p, r, t, TRUE)
    BY <2>2 DEF SyncRoom, SyncsSound, SoundAt, InHotel
  <2>3. ASSUME NEW s \in Syncs, NEW x \in sync[s].goneRooms, DropRoom(s, x)
        PROVE  \/ UNCHANGED rooms
               \/ \E p \in PropIds, r \in Rooms, t \in Types : UpsertRoom(p, r, t, FALSE)
    <3>1. x \in Room
      BY <1>1 DEF SyncState
    <3>2. x.prop \in PropIds /\ x.ext \in Rooms /\ x.type \in Types
      BY <3>1 DEF Room
    <3> QED
      BY <2>3, <3>2 DEF DropRoom
  <2>4. ASSUME NEW s \in Syncs, SyncStep(s), \A r \in Rooms : ~SyncRoom(s, r),
               \A x \in sync[s].goneRooms : ~DropRoom(s, x)
        PROVE  UNCHANGED rooms
    BY <2>4
    DEF SyncStep, StartSync, SearchProperties, GetPropertyByExternal, SyncProperty, ListRoomTypes, SyncRoomType,
        EndRoomType, ReadRoomTypes, ReadRooms, DropRoomType, EndHotel,
        EndSync, ReadDefault, ElectDefault, StopSync, Catalog
  <2>5. \/ UNCHANGED rooms
        \/ \E p \in PropIds, r \in Rooms, t \in Types, a \in BOOLEAN : UpsertRoom(p, r, t, a)
    BY <2>2, <2>3, <2>4 DEF CatNext, ChooseDefault, EditPms, Catalog
  <2> QED
    BY <1>1, <2>1, <2>5 DEF KeysSound
<1> QED
  BY <1>2, <1>3, <1>4, <1>5, <1>6, <1>7, <1>8 DEF CatTypeOK, KeysSound

-----------------------------------------------------------------------------
(* What the sync has written of the types and rooms of its hotel: those    *)
(* seen are active, those of the listing are seen or still to come, and    *)
(* the rows to deactivate are those that are active and were not seen.     *)
Written(t, u) == u \in t.seenTypes \/ (t.pc = "room" /\ u = t.type)

TypesSound(t) ==
  /\ \A u \in Types : Written(t, u) => HasType(t.prop, u)
  /\ \A u \in Types : u \in t.listing.types <=> Written(t, u) \/ u \in t.left
  /\ t.pc \in {"dropTypes", "dropRooms"} => t.left = {}
  /\ t.pc = "dropTypes" =>
       /\ \A x \in t.goneTypes : x.prop = t.prop /\ x.code \notin t.seenTypes
       /\ \A u \in Types : HasType(t.prop, u) /\ u \notin t.seenTypes =>
            \E x \in t.goneTypes : x.code = u
  /\ t.pc = "dropRooms" => TypesMirrored(t.prop, t.listing.types)

RoomsSound(t) ==
  /\ \A r \in t.seenRooms :
       t.listing.home[r] # None /\ HasRoom(t.prop, r, t.listing.home[r])
  /\ \A r \in Rooms : t.listing.home[r] \in t.seenTypes => r \in t.seenRooms
  /\ t.pc = "room" => \A r \in Rooms :
       /\ t.listing.home[r] = t.type => r \in t.seenRooms \cup t.beds
       /\ r \in t.beds => t.listing.home[r] = t.type
  /\ t.pc = "dropRooms" =>
       /\ \A x \in t.goneRooms : x.prop = t.prop /\ x.ext \notin t.seenRooms
       /\ \A r \in Rooms, u \in Types : HasRoom(t.prop, r, u) /\ r \notin t.seenRooms =>
            \E x \in t.goneRooms : x.ext = r

(* The hotel being written is p's; those before it are done.               *)
HotelSound(t, p) ==
  /\ p.id = t.prop /\ p.ext \in t.found
  /\ \A h \in t.found \ t.todo : h = p.ext \/ Mirrored(h)
  /\ t.pc # "list" => t.listing = pms[p.ext] /\ TypesSound(t) /\ RoomsSound(t)

(* The hotel being upserted was looked for; those before it are done.      *)
Looked(t) ==
  /\ t.hotel \in t.found
  /\ \A h \in t.found \ t.todo : h = t.hotel \/ Mirrored(h)
  /\ t.prop = None => \A p \in properties : p.ext # t.hotel
  /\ t.prop # None => \E p \in properties : p.id = t.prop /\ p.ext = t.hotel

CleanAt(t) ==
  /\ t.pc \notin {"idle", "readRooms"}
  /\ t.found \subseteq DOMAIN pms /\ t.todo \subseteq t.found
  /\ t.pc = "search" => t.found = {}
  /\ t.pc \in {"search", "hotel", "upsert", "list"} => t.seenTypes = {} /\ t.seenRooms = {}
  /\ t.pc \in {"elect", "set", "done"} => t.todo = {}
  /\ t.pc \notin InHotel \cup {"upsert"} => \A h \in t.found \ t.todo : Mirrored(h)
  /\ t.pc = "upsert" => Looked(t)
  /\ t.pc \in InHotel => \E p \in properties : HotelSound(t, p)

(* A clean sync is the only one at work, and has mirrored what it is done  *)
(* with.                                                                   *)
CleanSound ==
  \A s \in clean :
    /\ \A q \in Syncs \ {s} : ~Running(q) /\ q \notin clean
    /\ \A t \in SyncState : sync[s] = t => CleanAt(t)

-----------------------------------------------------------------------------
(* A hotel stays mirrored while the rows of another one are written.       *)
LEMMA MirroredFrame ==
  ASSUME properties \subseteq Property, KeysSound, UNCHANGED pms,
         NEW id \in PropIds,
         \A q \in properties : \E n \in properties' : n.id = q.id /\ n.ext = q.ext,
         \A q \in PropIds \ {id}, u \in Types : HasType(q, u)' <=> HasType(q, u),
         \A q \in PropIds \ {id}, r \in Rooms, u \in Types :
            HasRoom(q, r, u)' <=> HasRoom(q, r, u),
         NEW h, Mirrored(h), \A q \in properties : q.id = id => q.ext # h
  PROVE  Mirrored(h)'
<1>1. PICK p \in properties :
        /\ p.ext = h
        /\ TypesMirrored(p.id, pms[h].types) /\ RoomsMirrored(p.id, pms[h].home)
  BY DEF Mirrored
<1>2. p.id \in PropIds \ {id}
  BY <1>1 DEF Property
<1>3. PICK n \in properties' : n.id = p.id /\ n.ext = h
  BY <1>1
<1>4. \A u \in Types : HasType(n.id, u)' <=> u \in pms'[h].types
  BY <1>1, <1>2, <1>3 DEF TypesMirrored
<1>5. \A r \in Rooms, u \in Types : HasRoom(n.id, r, u)' <=> pms'[h].home[r] = u
  BY <1>1, <1>2, <1>3 DEF RoomsMirrored
<1> QED
  BY <1>3, <1>4, <1>5 DEF Mirrored, TypesMirrored, RoomsMirrored

(* Without a write every hotel stays as it is.                             *)
LEMMA MirroredStays ==
  ASSUME UNCHANGED <<pms, properties, roomTypes, rooms>>, NEW h, Mirrored(h)
  PROVE  Mirrored(h)'
BY DEF Mirrored, TypesMirrored, RoomsMirrored, HasType, HasRoom

-----------------------------------------------------------------------------
(* The steps of a clean sync, in the order of the code.                    *)
LEMMA StartClean ==
  ASSUME CatTypeOK, NEW s \in Syncs, NEW c \in Conns, StartSync(s, c)
  PROVE  \E t \in SyncState : Becomes(s, t) /\ CleanAt(t)'
<1>1. sync \in [Syncs -> SyncState]
  BY DEF CatTypeOK
<1>2. PICK t \in SyncState : Becomes(s, t) /\ Started(t, c)
  BY <1>1, StartFacts
<1> QED
  BY <1>2 DEF Started, CleanAt, InHotel

(* SearchProperties: every hotel is still to do.                           *)
LEMMA SearchClean ==
  ASSUME CatTypeOK, NEW s \in clean', CleanAt(sync[s]), s \in Syncs, SearchProperties(s)
  PROVE  \E t \in SyncState : Becomes(s, t) /\ CleanAt(t)'
<1>1. PICK hotels \in SUBSET Hotels : hotels = DOMAIN pms
  BY ListingFacts DEF CatTypeOK
<1>2. sync' = [sync EXCEPT ![s] = [sync[s] EXCEPT !.pc = "hotel", !.found = hotels,
                                                   !.todo = hotels]]
  BY <1>1 DEF SearchProperties
<1>3. sync \in [Syncs -> SyncState]
  BY DEF CatTypeOK
<1>4. PICK t \in SyncState : Becomes(s, t) /\ Searched(t, sync[s], hotels)
  BY <1>2, <1>3, SearchFacts
<1>5. sync[s].pc = "search" /\ UNCHANGED pms
  BY DEF SearchProperties
<1> QED
  BY <1>1, <1>4, <1>5 DEF Searched, CleanAt, InHotel

(* GetPropertyByExternal: nothing is written.                              *)
LEMMA ReadHotelClean ==
  ASSUME CatTypeOK, NEW s \in clean', CleanAt(sync[s]), s \in Syncs,
         NEW h \in Hotels, GetPropertyByExternal(s, h)
  PROVE  \E t \in SyncState : Becomes(s, t) /\ CleanAt(t)'
<1>1. /\ sync \in [Syncs -> SyncState] /\ sync[s] \in SyncState
      /\ properties \subseteq Property
      /\ sync[s].pc = "hotel" /\ h \in sync[s].todo
      /\ UNCHANGED <<pms, properties, roomTypes, rooms>>
  BY DEF CatTypeOK, GetPropertyByExternal, Catalog
<1>2. PICK todo \in SUBSET Hotels : todo = sync[s].todo \ {h}
  BY <1>1 DEF SyncState
<1>3. PICK id \in PropIds \cup {None} :
        /\ id = None => \A p \in properties : p.ext # h
        /\ id # None => \E p \in properties : p.id = id /\ p.ext = h
        /\ sync' = [sync EXCEPT ![s] = [sync[s] EXCEPT !.pc = "upsert", !.hotel = h,
                                                          !.prop = id, !.todo = todo]]
  BY <1>1, <1>2, RowOfHotel
<1>4. PICK t \in SyncState : Becomes(s, t) /\ HotelRead(t, sync[s], h, id, todo)
  BY <1>1, <1>3, ReadHotelFacts
<1>5. \A g \in t.found \ t.todo : g = h \/ Mirrored(g)'
  BY <1>1, <1>2, <1>4, MirroredStays DEF HotelRead, CleanAt, InHotel
<1>6. Looked(t)'
  BY <1>1, <1>3, <1>4, <1>5 DEF HotelRead, Looked, CleanAt
<1> QED
  BY <1>1, <1>2, <1>4, <1>6 DEF CleanAt, InHotel, HotelRead

(* SyncProperty: the hotel is known, the ones before it stay mirrored.     *)
LEMMA HotelClean ==
  ASSUME CatTypeOK, KeysSound, NEW s \in clean', CleanAt(sync[s]), s \in Syncs,
         SyncProperty(s)
  PROVE  \E t \in SyncState : Becomes(s, t) /\ CleanAt(t)'
<1>1. /\ sync \in [Syncs -> SyncState] /\ sync[s] \in SyncState
      /\ properties \subseteq Property
      /\ UNCHANGED <<pms, roomTypes, rooms>> /\ sync[s].pc = "upsert"
  BY DEF CatTypeOK, SyncProperty
<1>2. PICK id \in PropIds :
        /\ UpsertProperty(s, id)
        /\ sync' = [sync EXCEPT ![s] = [sync[s] EXCEPT !.pc = "list", !.prop = id,
                      !.hotel = None]]
  BY DEF SyncProperty
<1>3. PICK h : h = sync[s].hotel
  OBVIOUS
<1>4. Looked(sync[s])
  BY <1>1 DEF CleanAt
<1>5. PICK t \in SyncState : Becomes(s, t) /\ HotelTaken(t, sync[s], id)
  BY <1>1, <1>2, TakeHotelFacts
<1>6. /\ \E n \in properties' : n.id = id /\ n.ext = h
      /\ \A q \in properties : \E n \in properties' : n.id = q.id /\ n.ext = q.ext
      /\ \A q \in properties : q.id = id => q.ext = h
  <2>1. CASE \E p \in properties :
               /\ sync[s].prop = p.id /\ id = p.id
               /\ properties' = (properties \ {p}) \cup {[p EXCEPT !.conn = sync[s].conn]}
    <3>1. PICK p \in properties :
            /\ sync[s].prop = p.id /\ id = p.id
            /\ properties' = (properties \ {p}) \cup {[p EXCEPT !.conn = sync[s].conn]}
      BY <2>1
    <3>2. [p EXCEPT !.conn = sync[s].conn].id = p.id
          /\ [p EXCEPT !.conn = sync[s].conn].ext = p.ext
      BY <1>1 DEF Property
    <3>3. PICK n : n = [p EXCEPT !.conn = sync[s].conn]
      OBVIOUS
    <3>4. n \in properties' /\ n.id = p.id /\ n.ext = p.ext
      BY <3>1, <3>2, <3>3
    <3>5. p.ext = h
      <4>1. p.id \in PropIds
        BY <1>1 DEF Property
      <4> QED
        BY <1>3, <1>4, <3>1, <4>1, CatalogAssumption DEF Looked, KeysSound
    <3>6. \A q \in properties : q.id = id => q.ext = h
      BY <3>1, <3>5 DEF KeysSound
    <3>7. \A q \in properties : q = p \/ q \in properties'
      BY <3>1
    <3> QED
      BY <3>1, <3>4, <3>5, <3>6, <3>7
  <2>2. CASE /\ \A p \in properties : p.id # id
             /\ properties' = properties \cup
                  {[id |-> id, ext |-> h, conn |-> sync[s].conn]}
    <3>1. PICK n : n = [id |-> id, ext |-> h, conn |-> sync[s].conn]
      OBVIOUS
    <3>2. n \in properties' /\ n.id = id /\ n.ext = h
      BY <2>2, <3>1
    <3> QED
      BY <2>2, <3>2
  <2> QED
    BY <1>2, <1>3, <2>1, <2>2 DEF UpsertProperty
<1>7. ASSUME NEW g \in t.found \ t.todo, g # h PROVE Mirrored(g)'
  <2>1. Mirrored(g)
    BY <1>3, <1>4, <1>5, <1>7 DEF Looked, HotelTaken
  <2>2. /\ \A q \in PropIds \ {id}, u \in Types : HasType(q, u)' <=> HasType(q, u)
        /\ \A q \in PropIds \ {id}, r \in Rooms, u \in Types :
             HasRoom(q, r, u)' <=> HasRoom(q, r, u)
    BY <1>1 DEF HasType, HasRoom
  <2>3. \A q \in properties : q.id = id => q.ext # g
    BY <1>6, <1>7
  <2> QED
    BY <1>1, <1>6, <2>1, <2>2, <2>3, MirroredFrame
<1>8. PICK n \in properties' : n.id = id /\ n.ext = h
  BY <1>6
<1>9. HotelSound(t, n)'
  BY <1>3, <1>4, <1>5, <1>7, <1>8 DEF HotelSound, Looked, HotelTaken
<1> QED
  BY <1>1, <1>5, <1>8, <1>9 DEF CleanAt, InHotel, HotelTaken

(* ListRoomTypes: the listing is the PMS's, nothing is seen yet.           *)
LEMMA ListClean ==
  ASSUME CatTypeOK, KeysSound, NEW s \in clean', CleanAt(sync[s]), s \in Syncs,
         ListRoomTypes(s)
  PROVE  \E t \in SyncState : Becomes(s, t) /\ CleanAt(t)'
<1>1. /\ sync \in [Syncs -> SyncState] /\ sync[s] \in SyncState /\ pms \in Listings
      /\ UNCHANGED <<pms, properties, roomTypes, rooms>> /\ sync[s].pc = "list"
  BY DEF CatTypeOK, ListRoomTypes, Catalog
<1>2. PICK p \in properties : HotelSound(sync[s], p)
  BY <1>1 DEF CleanAt, InHotel
<1>3. HotelOf(s) = p.ext
  BY <1>2 DEF HotelOf, HotelSound, KeysSound
<1>4. p.ext \in DOMAIN pms
  BY <1>2 DEF HotelSound, CleanAt
<1>5. PICK l \in HotelListing : l = pms[p.ext]
  BY <1>1, <1>4, ListingFacts
<1>6. sync' = [sync EXCEPT ![s] = [sync[s] EXCEPT !.pc = "type", !.listing = l,
                                                  !.left = l.types]]
  BY <1>3, <1>4, <1>5 DEF ListRoomTypes
<1>7. PICK t \in SyncState : Becomes(s, t) /\ Listed(t, sync[s], l)
  BY <1>1, <1>6, ListFacts
<1>8. t.seenTypes = {} /\ t.seenRooms = {}
  BY <1>1, <1>7 DEF CleanAt, Listed
<1>9. TypesSound(t)' /\ RoomsSound(t)'
  BY <1>7, <1>8 DEF TypesSound, RoomsSound, Written, Listed
<1>10. HotelSound(t, p)'
  BY <1>1, <1>2, <1>5, <1>7, <1>9, MirroredStays DEF HotelSound, Listed
<1> QED
  BY <1>1, <1>7, <1>10 DEF CleanAt, InHotel, Listed

(* While a hotel's rows are written the others stay mirrored.              *)
LEMMA HotelFrame ==
  ASSUME CatTypeOK, KeysSound, NEW o \in SyncState, NEW t \in SyncState,
         NEW p \in properties, HotelSound(o, p), UNCHANGED <<pms, properties>>,
         o.pc # "list", t.found = o.found, t.todo = o.todo, t.prop = o.prop,
         t.listing = o.listing,
         \A q \in PropIds \ {p.id}, u \in Types : HasType(q, u)' <=> HasType(q, u),
         \A q \in PropIds \ {p.id}, r \in Rooms, u \in Types :
            HasRoom(q, r, u)' <=> HasRoom(q, r, u),
         TypesSound(t)', RoomsSound(t)'
  PROVE  HotelSound(t, p)'
<1>1. properties \subseteq Property /\ p.id \in PropIds
  BY DEF CatTypeOK, Property
<1>2. ASSUME NEW h, Mirrored(h), h # p.ext PROVE Mirrored(h)'
  <2>1. \A q \in properties : q.id = p.id => q.ext # h
    BY <1>2 DEF KeysSound
  <2> QED
    BY <1>1, <1>2, <2>1, MirroredFrame
<1>3. \A h \in t.found \ t.todo : h = p.ext \/ Mirrored(h)'
  BY <1>2 DEF HotelSound
<1> QED
  BY <1>3 DEF HotelSound

(* What a step inside a hotel owes.                                        *)
LEMMA InHotelClean ==
  ASSUME NEW o \in SyncState, NEW t \in SyncState, NEW p \in properties, CleanAt(o),
         UNCHANGED <<pms, properties>>, HotelSound(t, p)', t.pc \in InHotel,
         t.pc # "list", t.found = o.found, t.todo = o.todo
  PROVE  CleanAt(t)'
BY DEF CleanAt, InHotel

(* Inside a hotel, what CleanAt says of it.                                *)
LEMMA AtHotel ==
  ASSUME CatTypeOK, NEW s \in Syncs, CleanAt(sync[s]), sync[s].pc \in InHotel,
         sync[s].pc # "list"
  PROVE  \E o \in SyncState, p \in properties :
           /\ o = sync[s] /\ HotelSound(o, p) /\ TypesSound(o) /\ RoomsSound(o)
           /\ o.prop = p.id /\ p.id \in PropIds
<1>1. sync[s] \in SyncState
  BY DEF CatTypeOK
<1>2. PICK o \in SyncState : o = sync[s]
  BY <1>1
<1>3. PICK p \in properties : HotelSound(o, p)
  BY <1>2 DEF CleanAt
<1>4. TypesSound(o) /\ RoomsSound(o) /\ o.prop = p.id
  BY <1>2, <1>3 DEF HotelSound
<1>5. p.id \in PropIds
  BY DEF CatTypeOK, Property
<1> QED
  BY <1>2, <1>3, <1>4, <1>5

(* SyncRoomType: the type is active, its rooms are to come.                *)
LEMMA TypeClean ==
  ASSUME CatTypeOK, KeysSound, NEW s \in clean', CleanAt(sync[s]), s \in Syncs,
         NEW u \in Types, SyncRoomType(s, u)
  PROVE  \E t \in SyncState : Becomes(s, t) /\ CleanAt(t)'
<1>1. /\ sync \in [Syncs -> SyncState] /\ roomTypes \subseteq RoomType
      /\ sync[s].pc = "type" /\ u \in sync[s].left /\ UNCHANGED <<pms, properties, rooms>>
      /\ UpsertRoomType(sync[s].prop, u, TRUE)
      /\ sync' = [sync EXCEPT ![s] = [sync[s] EXCEPT !.pc = "room", !.left = @ \ {u},
            !.type = u, !.beds = {r \in Rooms : sync[s].listing.home[r] = u}]]
  BY DEF CatTypeOK, SyncRoomType
<1>2. PICK o \in SyncState, p \in properties :
        /\ o = sync[s] /\ HotelSound(o, p) /\ TypesSound(o) /\ RoomsSound(o)
        /\ o.prop = p.id /\ p.id \in PropIds
  BY <1>1, AtHotel DEF InHotel
<1>3. PICK left \in SUBSET Types : left = o.left \ {u}
  BY DEF SyncState
<1>4. PICK beds \in SUBSET Rooms : beds = {r \in Rooms : o.listing.home[r] = u}
  OBVIOUS
<1>5. sync' = [sync EXCEPT ![s] = [sync[s] EXCEPT !.pc = "room", !.left = left,
                                                  !.type = u, !.beds = beds]]
  BY <1>1, <1>2, <1>3, <1>4
<1>6. PICK t \in SyncState : Becomes(s, t) /\ TypeTaken(t, o, u, left, beds)
  BY <1>1, <1>2, <1>5, TakeTypeFacts
<1>7. \A q \in PropIds, v \in Types :
        HasType(q, v)' <=> (q = p.id /\ v = u) \/ HasType(q, v)
  BY <1>1, <1>2, RoomTypeUpsert
<1>8. \A q, r, v : HasRoom(q, r, v)' <=> HasRoom(q, r, v)
  BY <1>1 DEF HasRoom
<1>9. TypesSound(t)'
  BY <1>1, <1>2, <1>3, <1>6, <1>7 DEF TypesSound, Written, TypeTaken
<1>10. RoomsSound(t)'
  BY <1>1, <1>2, <1>4, <1>6, <1>8 DEF RoomsSound, TypeTaken
<1>11. HotelSound(t, p)'
  BY <1>1, <1>2, <1>6, <1>7, <1>8, <1>9, <1>10, HotelFrame DEF TypeTaken
<1> QED
  BY <1>1, <1>2, <1>6, <1>11, InHotelClean DEF TypeTaken, InHotel

(* SyncRoom: the room is active under its type.                            *)
LEMMA RoomClean ==
  ASSUME CatTypeOK, KeysSound, SyncsSound, NEW s \in clean', CleanAt(sync[s]), s \in Syncs,
         NEW r \in Rooms, SyncRoom(s, r)
  PROVE  \E t \in SyncState : Becomes(s, t) /\ CleanAt(t)'
<1>1. /\ sync \in [Syncs -> SyncState] /\ rooms \subseteq Room /\ sync[s].type \in Types
      /\ sync[s].pc = "room" /\ r \in sync[s].beds /\ UNCHANGED <<pms, properties, roomTypes>>
      /\ UpsertRoom(sync[s].prop, r, sync[s].type, TRUE)
      /\ sync' = [sync EXCEPT ![s] = [sync[s] EXCEPT !.beds = @ \ {r},
                                                     !.seenRooms = @ \cup {r}]]
  BY DEF CatTypeOK, SyncRoom, SyncsSound, SoundAt
<1>2. PICK o \in SyncState, p \in properties :
        /\ o = sync[s] /\ HotelSound(o, p) /\ TypesSound(o) /\ RoomsSound(o)
        /\ o.prop = p.id /\ p.id \in PropIds
  BY <1>1, AtHotel DEF InHotel
<1>3. PICK t \in SyncState : Becomes(s, t) /\ RoomTaken(t, o, r)
  BY <1>1, <1>2, TakeRoomFacts
<1>4. \A q \in PropIds, e \in Rooms, v \in Types :
        HasRoom(q, e, v)' <=> IF q = p.id /\ e = r THEN v = o.type ELSE HasRoom(q, e, v)
  <2>1. UpsertRoom(p.id, r, o.type, TRUE) /\ o.type \in Types /\ TRUE \in BOOLEAN
    BY <1>1, <1>2
  <2>2. RoomWritten(p.id, r, o.type, TRUE)
    BY <1>1, <1>2, <2>1, RoomUpsert
  <2> QED
    BY <2>2 DEF RoomWritten
<1>5. \A q, v : HasType(q, v)' <=> HasType(q, v)
  BY <1>1 DEF HasType
<1>6. TypesSound(t)'
  BY <1>1, <1>2, <1>3, <1>5 DEF TypesSound, Written, RoomTaken
<1>7. RoomsSound(t)'
  <2>1. o.listing.home[r] = o.type /\ o.type # None
    BY <1>1, <1>2, CatalogAssumption DEF RoomsSound
  <2>2. \A e \in Rooms : o.listing.home[e] # None => o.listing.home[e] \in Types
    BY DEF SyncState, HotelListing
  <2>3. o.seenRooms \subseteq Rooms
    BY DEF SyncState
  <2> QED
    BY <1>1, <1>2, <1>3, <1>4, <2>1, <2>2, <2>3 DEF RoomsSound, RoomTaken
<1>8. HotelSound(t, p)'
  BY <1>1, <1>2, <1>3, <1>4, <1>5, <1>6, <1>7, HotelFrame DEF RoomTaken
<1> QED
  BY <1>1, <1>2, <1>3, <1>8, InHotelClean DEF RoomTaken, InHotel

(* EndRoomType: every room listed under the type was seen.                 *)
LEMMA EndTypeClean ==
  ASSUME CatTypeOK, KeysSound, SyncsSound, NEW s \in clean', CleanAt(sync[s]), s \in Syncs,
         EndRoomType(s)
  PROVE  \E t \in SyncState : Becomes(s, t) /\ CleanAt(t)'
<1>1. /\ sync \in [Syncs -> SyncState] /\ sync[s].type \in Types
      /\ sync[s].pc = "room" /\ sync[s].beds = {}
      /\ UNCHANGED <<pms, properties, roomTypes, rooms>>
  BY DEF CatTypeOK, EndRoomType, SyncsSound, SoundAt, Catalog
<1>2. PICK o \in SyncState, p \in properties :
        /\ o = sync[s] /\ HotelSound(o, p) /\ TypesSound(o) /\ RoomsSound(o)
        /\ o.prop = p.id /\ p.id \in PropIds
  BY <1>1, AtHotel DEF InHotel
<1>3. PICK t \in SyncState : Becomes(s, t) /\ TypeEnded(t, o)
  BY <1>1, <1>2, EndTypeFacts
<1>4. /\ \A q, v : HasType(q, v)' <=> HasType(q, v)
      /\ \A q, e, v : HasRoom(q, e, v)' <=> HasRoom(q, e, v)
  BY <1>1 DEF HasType, HasRoom
<1>5. TypesSound(t)' /\ RoomsSound(t)'
  BY <1>1, <1>2, <1>3, <1>4 DEF TypesSound, RoomsSound, Written, TypeEnded
<1>6. HotelSound(t, p)'
  BY <1>1, <1>2, <1>3, <1>4, <1>5, HotelFrame DEF TypeEnded
<1> QED
  BY <1>1, <1>2, <1>3, <1>6, InHotelClean DEF TypeEnded, InHotel

(* ReadRoomTypes: what is active and was not seen is to go.                *)
LEMMA ReadTypesClean ==
  ASSUME CatTypeOK, KeysSound, NEW s \in clean', CleanAt(sync[s]), s \in Syncs,
         ReadRoomTypes(s)
  PROVE  \E t \in SyncState : Becomes(s, t) /\ CleanAt(t)'
<1>1. /\ sync \in [Syncs -> SyncState] /\ roomTypes \subseteq RoomType
      /\ sync[s].pc = "type" /\ sync[s].left = {}
      /\ UNCHANGED <<pms, properties, roomTypes, rooms>>
      /\ sync' = [sync EXCEPT ![s] = [sync[s] EXCEPT !.pc = "dropTypes",
            !.goneTypes = {x \in roomTypes : /\ x.prop = sync[s].prop /\ x.active
                                             /\ x.code \notin sync[s].seenTypes}]]
  BY DEF CatTypeOK, ReadRoomTypes, Catalog
<1>2. PICK o \in SyncState, p \in properties :
        /\ o = sync[s] /\ HotelSound(o, p) /\ TypesSound(o) /\ RoomsSound(o)
        /\ o.prop = p.id /\ p.id \in PropIds
  BY <1>1, AtHotel DEF InHotel
<1>3. PICK gone \in SUBSET RoomType :
        gone = {x \in roomTypes : /\ x.prop = o.prop /\ x.active
                                  /\ x.code \notin o.seenTypes}
  BY <1>1
<1>4. sync' = [sync EXCEPT ![s] = [sync[s] EXCEPT !.pc = "dropTypes", !.goneTypes = gone]]
  BY <1>1, <1>2, <1>3
<1>5. PICK t \in SyncState : Becomes(s, t) /\ TypesToDrop(t, o, gone)
  BY <1>1, <1>2, <1>4, DropTypesFacts
<1>6. /\ \A q, v : HasType(q, v)' <=> HasType(q, v)
      /\ \A q, e, v : HasRoom(q, e, v)' <=> HasRoom(q, e, v)
  BY <1>1 DEF HasType, HasRoom
<1>7. \A v \in Types : HasType(o.prop, v) /\ v \notin o.seenTypes =>
        \E x \in gone : x.code = v
  BY <1>3 DEF HasType
<1>8. TypesSound(t)' /\ RoomsSound(t)'
  BY <1>1, <1>2, <1>3, <1>5, <1>6, <1>7 DEF TypesSound, RoomsSound, Written, TypesToDrop
<1>9. HotelSound(t, p)'
  BY <1>1, <1>2, <1>5, <1>6, <1>8, HotelFrame DEF TypesToDrop
<1> QED
  BY <1>1, <1>2, <1>5, <1>9, InHotelClean DEF TypesToDrop, InHotel

(* DropRoomType: no type that was seen goes.                               *)
LEMMA DropTypeClean ==
  ASSUME CatTypeOK, KeysSound, NEW s \in clean', CleanAt(sync[s]), s \in Syncs,
         NEW x \in sync[s].goneTypes, DropRoomType(s, x)
  PROVE  \E t \in SyncState : Becomes(s, t) /\ CleanAt(t)'
<1>1. /\ sync \in [Syncs -> SyncState] /\ roomTypes \subseteq RoomType
      /\ sync[s].pc = "dropTypes" /\ UNCHANGED <<pms, properties, rooms>>
      /\ UpsertRoomType(x.prop, x.code, FALSE)
      /\ sync' = [sync EXCEPT ![s].goneTypes = @ \ {x}]
  BY DEF CatTypeOK, DropRoomType
<1>2. PICK o \in SyncState, p \in properties :
        /\ o = sync[s] /\ HotelSound(o, p) /\ TypesSound(o) /\ RoomsSound(o)
        /\ o.prop = p.id /\ p.id \in PropIds
  BY <1>1, AtHotel DEF InHotel
<1>3. PICK t \in SyncState : Becomes(s, t) /\ TypeDropped(t, o, x)
  BY <1>1, <1>2, DropTypeFacts
<1>4. x.prop = p.id /\ x.code \in Types /\ x.code \notin o.seenTypes
  <2>1. x \in RoomType
    BY <1>2 DEF SyncState
  <2> QED
    BY <1>1, <1>2, <2>1 DEF TypesSound, RoomType
<1>5. \A q \in PropIds, v \in Types :
        HasType(q, v)' <=> ~(q = p.id /\ v = x.code) /\ HasType(q, v)
  <2>1. UpsertRoomType(p.id, x.code, FALSE) /\ FALSE \in BOOLEAN
    BY <1>1, <1>4
  <2> QED
    BY <1>1, <1>2, <1>4, <2>1, RoomTypeUpsert
<1>6. \A q, e, v : HasRoom(q, e, v)' <=> HasRoom(q, e, v)
  BY <1>1 DEF HasRoom
<1>7. TypesSound(t)'
  BY <1>1, <1>2, <1>3, <1>4, <1>5 DEF TypesSound, Written, TypeDropped
<1>8. RoomsSound(t)'
  BY <1>1, <1>2, <1>3, <1>6 DEF RoomsSound, TypeDropped
<1>9. HotelSound(t, p)'
  BY <1>1, <1>2, <1>3, <1>5, <1>6, <1>7, <1>8, HotelFrame DEF TypeDropped
<1> QED
  BY <1>1, <1>2, <1>3, <1>9, InHotelClean DEF TypeDropped, InHotel

(* ReadRooms: the types are as listed.                                     *)
LEMMA ReadRoomsClean ==
  ASSUME CatTypeOK, KeysSound, NEW s \in clean', CleanAt(sync[s]), s \in Syncs,
         ReadRooms(s)
  PROVE  \E t \in SyncState : Becomes(s, t) /\ CleanAt(t)'
<1>1. /\ sync \in [Syncs -> SyncState] /\ rooms \subseteq Room
      /\ sync[s].pc = "dropTypes" /\ sync[s].goneTypes = {}
      /\ UNCHANGED <<pms, properties, roomTypes, rooms>>
      /\ sync' = [sync EXCEPT ![s] = [sync[s] EXCEPT !.pc = "dropRooms",
            !.goneRooms = {x \in rooms : /\ x.prop = sync[s].prop /\ x.active
                                         /\ x.ext \notin sync[s].seenRooms}]]
  BY DEF CatTypeOK, ReadRooms, Catalog, CleanAt
<1>2. PICK o \in SyncState, p \in properties :
        /\ o = sync[s] /\ HotelSound(o, p) /\ TypesSound(o) /\ RoomsSound(o)
        /\ o.prop = p.id /\ p.id \in PropIds
  BY <1>1, AtHotel DEF InHotel
<1>3. PICK gone \in SUBSET Room :
        gone = {x \in rooms : /\ x.prop = o.prop /\ x.active
                              /\ x.ext \notin o.seenRooms}
  BY <1>1
<1>4. sync' = [sync EXCEPT ![s] = [sync[s] EXCEPT !.pc = "dropRooms", !.goneRooms = gone]]
  BY <1>1, <1>2, <1>3
<1>5. PICK t \in SyncState : Becomes(s, t) /\ RoomsToDrop(t, o, gone)
  BY <1>1, <1>2, <1>4, DropRoomsFacts
<1>6. /\ \A q, v : HasType(q, v)' <=> HasType(q, v)
      /\ \A q, e, v : HasRoom(q, e, v)' <=> HasRoom(q, e, v)
  BY <1>1 DEF HasType, HasRoom
<1>7. \A r \in Rooms, v \in Types : HasRoom(o.prop, r, v) /\ r \notin o.seenRooms =>
        \E x \in gone : x.ext = r
  BY <1>3 DEF HasRoom
<1>8. TypesSound(t)'
  BY <1>1, <1>2, <1>5, <1>6 DEF TypesSound, TypesMirrored, Written, RoomsToDrop
<1>9. RoomsSound(t)'
  BY <1>1, <1>2, <1>3, <1>5, <1>6, <1>7 DEF RoomsSound, RoomsToDrop
<1>10. HotelSound(t, p)'
  BY <1>1, <1>2, <1>5, <1>6, <1>8, <1>9, HotelFrame DEF RoomsToDrop
<1> QED
  BY <1>1, <1>2, <1>5, <1>10, InHotelClean DEF RoomsToDrop, InHotel

(* DropRoom: no room that was seen goes.                                   *)
LEMMA DropRoomClean ==
  ASSUME CatTypeOK, KeysSound, NEW s \in clean', CleanAt(sync[s]), s \in Syncs,
         NEW x \in sync[s].goneRooms, DropRoom(s, x)
  PROVE  \E t \in SyncState : Becomes(s, t) /\ CleanAt(t)'
<1>1. /\ sync \in [Syncs -> SyncState] /\ rooms \subseteq Room
      /\ sync[s].pc = "dropRooms" /\ UNCHANGED <<pms, properties, roomTypes>>
      /\ UpsertRoom(x.prop, x.ext, x.type, FALSE)
      /\ sync' = [sync EXCEPT ![s].goneRooms = @ \ {x}]
  BY DEF CatTypeOK, DropRoom
<1>2. PICK o \in SyncState, p \in properties :
        /\ o = sync[s] /\ HotelSound(o, p) /\ TypesSound(o) /\ RoomsSound(o)
        /\ o.prop = p.id /\ p.id \in PropIds
  BY <1>1, AtHotel DEF InHotel
<1>3. PICK t \in SyncState : Becomes(s, t) /\ RoomDropped(t, o, x)
  BY <1>1, <1>2, DropRoomFacts
<1>4. x.prop = p.id /\ x.ext \in Rooms /\ x.type \in Types /\ x.ext \notin o.seenRooms
  <2>1. x \in Room
    BY <1>2 DEF SyncState
  <2> QED
    BY <1>1, <1>2, <2>1 DEF RoomsSound, Room
<1>5. \A q \in PropIds, e \in Rooms, v \in Types :
        HasRoom(q, e, v)' <=> ~(q = p.id /\ e = x.ext) /\ HasRoom(q, e, v)
  <2>1. UpsertRoom(p.id, x.ext, x.type, FALSE) /\ FALSE \in BOOLEAN
    BY <1>1, <1>4
  <2>2. RoomWritten(p.id, x.ext, x.type, FALSE)
    BY <1>1, <1>2, <1>4, <2>1, RoomUpsert
  <2> QED
    BY <2>2 DEF RoomWritten
<1>6. \A q, v : HasType(q, v)' <=> HasType(q, v)
  BY <1>1 DEF HasType
<1>7. TypesSound(t)'
  BY <1>1, <1>2, <1>3, <1>6 DEF TypesSound, TypesMirrored, Written, RoomDropped
<1>8. RoomsSound(t)'
  <2>1. o.seenRooms \subseteq Rooms
    BY DEF SyncState
  <2>2. \A e \in Rooms : o.listing.home[e] # None => o.listing.home[e] \in Types
    BY DEF SyncState, HotelListing
  <2> QED
    BY <1>1, <1>2, <1>3, <1>4, <1>5, <2>1, <2>2 DEF RoomsSound, RoomDropped
<1>9. HotelSound(t, p)'
  BY <1>1, <1>2, <1>3, <1>5, <1>6, <1>7, <1>8, HotelFrame DEF RoomDropped
<1> QED
  BY <1>1, <1>2, <1>3, <1>9, InHotelClean DEF RoomDropped, InHotel

(* A hotel left behind is mirrored.                                        *)
LEMMA EndHotelClean ==
  ASSUME CatTypeOK, KeysSound, NEW s \in clean', CleanAt(sync[s]), s \in Syncs,
         EndHotel(s)
  PROVE  \E t \in SyncState : Becomes(s, t) /\ CleanAt(t)'
<1>1. /\ sync \in [Syncs -> SyncState] /\ pms \in Listings /\ properties \subseteq Property
      /\ sync[s].pc = "dropRooms" /\ sync[s].goneRooms = {}
      /\ UNCHANGED <<pms, properties, roomTypes, rooms>> /\ NextHotel(s)
  BY DEF CatTypeOK, EndHotel, Catalog
<1>2. PICK o \in SyncState, p \in properties :
        /\ o = sync[s] /\ HotelSound(o, p) /\ TypesSound(o) /\ RoomsSound(o)
        /\ o.prop = p.id /\ p.id \in PropIds
  BY <1>1, AtHotel DEF InHotel
<1>3. PICK t \in SyncState : Becomes(s, t) /\ HotelLeft(t, o)
  BY <1>1, <1>2, NextHotelFacts
<1>4. CleanAt(o)
  BY <1>2
<1>5. Mirrored(p.ext)
  <2>1. /\ o.listing = pms[p.ext] /\ p.ext \in DOMAIN pms
        /\ \A r \in Rooms : o.listing.home[r] \in o.listing.types \cup {None}
    BY <1>1, <1>2, <1>4, ListingFacts DEF HotelSound, CleanAt
  <2>2. TypesMirrored(p.id, o.listing.types)
    BY <1>1, <1>2 DEF TypesSound
  <2>3. ASSUME NEW r \in Rooms, NEW u \in Types, HasRoom(p.id, r, u)
        PROVE  o.listing.home[r] = u
    <3>1. r \in o.seenRooms
      BY <1>1, <1>2, <2>3 DEF RoomsSound
    <3>2. HasRoom(p.id, r, o.listing.home[r])
      BY <1>2, <3>1 DEF RoomsSound
    <3> QED
      BY <2>3, <3>2 DEF HasRoom, KeysSound
  <2>4. ASSUME NEW r \in Rooms, NEW u \in Types, o.listing.home[r] = u
        PROVE  HasRoom(p.id, r, u)
    <3>1. u \in o.listing.types
      BY <2>1, <2>4, CatalogAssumption
    <3>2. u \in o.seenTypes
      BY <1>1, <1>2, <3>1 DEF TypesSound, Written
    <3> QED
      BY <1>2, <2>4, <3>2 DEF RoomsSound
  <2>5. RoomsMirrored(p.id, o.listing.home)
    BY <2>3, <2>4 DEF RoomsMirrored
  <2> QED
    BY <2>1, <2>2, <2>5 DEF Mirrored
<1>6. \A h \in t.found \ t.todo : Mirrored(h)'
  BY <1>1, <1>2, <1>3, <1>5, MirroredStays DEF HotelSound, HotelLeft
<1>7. t.found \subseteq DOMAIN pms /\ t.todo \subseteq t.found
  BY <1>3, <1>4 DEF CleanAt, HotelLeft
<1>8. CleanAt(t)'
  BY <1>1, <1>3, <1>6, <1>7 DEF CleanAt, HotelLeft, InHotel
<1> QED
  BY <1>3, <1>8

(* Outside a hotel nothing is lost.                                        *)
LEMMA AfterHotels ==
  ASSUME NEW o \in SyncState, NEW t \in SyncState, CleanAt(o),
         UNCHANGED <<pms, properties, roomTypes, rooms>>,
         o.pc \in {"hotel", "elect", "set"}, o.todo = {},
         t.pc \in {"elect", "set", "done"}, t.found = o.found, t.todo = {}
  PROVE  CleanAt(t)'
<1>1. \A h \in t.found : Mirrored(h)'
  BY MirroredStays DEF CleanAt, InHotel
<1> QED
  BY <1>1 DEF CleanAt, InHotel

(* EndSync: every hotel is mirrored.                                       *)
LEMMA EndSyncClean ==
  ASSUME CatTypeOK, NEW s \in clean', CleanAt(sync[s]), s \in Syncs, EndSync(s)
  PROVE  \E t \in SyncState : Becomes(s, t) /\ CleanAt(t)'
<1>1. /\ sync \in [Syncs -> SyncState] /\ sync[s] \in SyncState
      /\ sync[s].pc = "hotel" /\ sync[s].todo = {}
      /\ UNCHANGED <<pms, properties, roomTypes, rooms>> /\ Leave(s)
  BY DEF CatTypeOK, EndSync, Catalog
<1>2. PICK t \in SyncState : Becomes(s, t) /\ Left(t, sync[s])
  BY <1>1, LeaveFacts
<1> QED
  BY <1>1, <1>2, AfterHotels DEF Left

(* ReadDefault and ElectDefault touch no room.                             *)
LEMMA ElectionClean ==
  ASSUME CatTypeOK, NEW s \in clean', CleanAt(sync[s]), s \in Syncs,
         ReadDefault(s) \/ ElectDefault(s)
  PROVE  \E t \in SyncState : Becomes(s, t) /\ CleanAt(t)'
<1>1. /\ sync \in [Syncs -> SyncState] /\ sync[s] \in SyncState
      /\ properties \subseteq Property
      /\ sync[s].pc \in {"elect", "set"}
      /\ UNCHANGED <<pms, properties, roomTypes, rooms>>
  BY DEF CatTypeOK, ReadDefault, ElectDefault, Catalog
<1>2. sync[s].todo = {}
  BY <1>1 DEF CleanAt
<1>3. CASE Goto(s, "done")
  <2>1. PICK t \in SyncState : Becomes(s, t) /\ At(t, sync[s], "done")
    BY <1>1, <1>3, GotoFacts
  <2> QED
    BY <1>1, <1>2, <2>1, AfterHotels DEF At
<1>4. CASE ~Goto(s, "done")
  <2>1. PICK p \in properties :
          sync' = [sync EXCEPT ![s] = [sync[s] EXCEPT !.pc = "set", !.choice = p.id]]
    BY <1>4 DEF ReadDefault, ElectDefault
  <2>2. PICK t \in SyncState : Becomes(s, t) /\ Chosen(t, sync[s], p)
    BY <1>1, <2>1, ChooseFacts
  <2> QED
    BY <1>1, <1>2, <2>2, AfterHotels DEF Chosen
<1> QED
  BY <1>3, <1>4

-----------------------------------------------------------------------------
(* A clean sync stays sound by its own steps.                              *)
LEMMA OwnStep ==
  ASSUME CatTypeOK, KeysSound, SyncsSound, CleanSound, NEW s \in Syncs, SyncStep(s),
         s \in clean'
  PROVE  \E t \in SyncState : Becomes(s, t) /\ CleanAt(t)'
<1> DEFINE Stays == \E t \in SyncState : Becomes(s, t) /\ CleanAt(t)'
<1>1. CASE \E c \in Conns : StartSync(s, c)
  BY <1>1, StartClean
<1>2. CASE StopSync(s)
  BY <1>2 DEF StopSync
<1>3. CASE s \notin clean
  BY <1>1, <1>2, <1>3
  DEF SyncStep, SearchProperties, GetPropertyByExternal, SyncProperty, ListRoomTypes, SyncRoomType,
      SyncRoom, EndRoomType, ReadRoomTypes, ReadRooms, DropRoomType, DropRoom, EndHotel,
      EndSync, ReadDefault, ElectDefault
<1>4. CASE s \in clean
  <2>1. CleanAt(sync[s])
    <3>1. PICK t \in SyncState : t = sync[s]
      BY DEF CatTypeOK
    <3> QED
      BY <1>4, <3>1 DEF CleanSound
  <2>2. SearchProperties(s) => Stays
    BY <2>1, SearchClean
  <2>3. SyncProperty(s) => Stays
    BY <2>1, HotelClean
  <2>4. ListRoomTypes(s) => Stays
    BY <2>1, ListClean
  <2>5. \A u \in Types : SyncRoomType(s, u) => Stays
    BY <2>1, TypeClean
  <2>6. \A r \in Rooms : SyncRoom(s, r) => Stays
    BY <2>1, RoomClean
  <2>7. EndRoomType(s) => Stays
    BY <2>1, EndTypeClean
  <2>8. ReadRoomTypes(s) => Stays
    BY <2>1, ReadTypesClean
  <2>9. \A x \in sync[s].goneTypes : DropRoomType(s, x) => Stays
    BY <2>1, DropTypeClean
  <2>10. ReadRooms(s) => Stays
    BY <2>1, ReadRoomsClean
  <2>11. \A x \in sync[s].goneRooms : DropRoom(s, x) => Stays
    BY <2>1, DropRoomClean
  <2>12. EndHotel(s) => Stays
    BY <2>1, EndHotelClean
  <2>13. EndSync(s) => Stays
    BY <2>1, EndSyncClean
  <2>14. ReadDefault(s) \/ ElectDefault(s) => Stays
    BY <2>1, ElectionClean
  <2>15. \A h \in Hotels : GetPropertyByExternal(s, h) => Stays
    BY <2>1, ReadHotelClean
  <2> QED
    BY <1>1, <1>2, <2>2, <2>3, <2>4, <2>5, <2>6, <2>7, <2>8, <2>9, <2>10, <2>11, <2>12,
       <2>13, <2>14, <2>15
    DEF SyncStep
<1> QED
  BY <1>3, <1>4

(* A step of a request leaves a clean sync that is not its own alone.      *)
LEMMA OtherStep ==
  ASSUME CatTypeOK, SyncsSound, CleanSound, NEW q \in Syncs, SyncStep(q),
         NEW s \in clean', s # q
  PROVE  /\ s \in clean /\ clean' \subseteq clean /\ ~Running(q)'
         /\ UNCHANGED <<pms, properties, roomTypes, rooms>>
<1>1. ~(\E c \in Conns : StartSync(q, c))
  BY DEF StartSync
<1>2. s \in clean /\ clean' \subseteq clean
  BY <1>1
  DEF SyncStep, SearchProperties, GetPropertyByExternal, SyncProperty, ListRoomTypes, SyncRoomType,
      SyncRoom, EndRoomType, ReadRoomTypes, ReadRooms, DropRoomType, DropRoom, EndHotel,
      EndSync, ReadDefault, ElectDefault, StopSync
<1>3. ~Running(q)
  BY <1>2 DEF CleanSound, CatTypeOK
<1>4. ReadDefault(q) \/ ElectDefault(q) \/ StopSync(q)
  BY <1>1, <1>3
  DEF SyncStep, SearchProperties, GetPropertyByExternal, SyncProperty, ListRoomTypes, SyncRoomType,
      SyncRoom, EndRoomType, ReadRoomTypes, ReadRooms, DropRoomType, DropRoom, EndHotel,
      EndSync, Running
<1>5. UNCHANGED <<pms, properties, roomTypes, rooms>>
  BY <1>4 DEF ReadDefault, ElectDefault, StopSync, Catalog
<1>6. sync'[q].pc \in {"set", "done"}
  <2>1. sync \in [Syncs -> SyncState] /\ properties \subseteq Property
    BY DEF CatTypeOK
  <2>2. CASE Goto(q, "done")
    BY <2>1, <2>2, GotoFacts DEF At, Becomes
  <2>3. CASE StopSync(q)
    BY <2>1, <2>3, StopFacts DEF Stopped, Becomes
  <2>4. CASE \E p \in properties :
          sync' = [sync EXCEPT ![q] = [sync[q] EXCEPT !.pc = "set", !.choice = p.id]]
    <3>1. PICK p \in properties :
            sync' = [sync EXCEPT ![q] = [sync[q] EXCEPT !.pc = "set", !.choice = p.id]]
      BY <2>4
    <3>2. PICK t \in SyncState : Becomes(q, t) /\ Chosen(t, sync[q], p)
      BY <2>1, <3>1, ChooseFacts
    <3> QED
      BY <3>2 DEF Chosen, Becomes
  <2> QED
    BY <1>4, <2>2, <2>3, <2>4 DEF ReadDefault, ElectDefault
<1> QED
  BY <1>2, <1>5, <1>6 DEF Running

(* What a clean sync has done stands while no row is written.              *)
LEMMA CleanFrame ==
  ASSUME UNCHANGED <<pms, properties, roomTypes, rooms>>, NEW t \in SyncState, CleanAt(t)
  PROVE  CleanAt(t)'
<1>1. \A h : Mirrored(h) <=> Mirrored(h)'
  BY DEF Mirrored, TypesMirrored, RoomsMirrored, HasType, HasRoom
<1>2. TypesSound(t) <=> TypesSound(t)'
  BY DEF TypesSound, TypesMirrored, Written, HasType
<1>3. RoomsSound(t) <=> RoomsSound(t)'
  BY DEF RoomsSound, HasRoom
<1>4. \A p : HotelSound(t, p) <=> HotelSound(t, p)'
  BY <1>1, <1>2, <1>3 DEF HotelSound
<1>5. Looked(t) <=> Looked(t)'
  BY <1>1 DEF Looked
<1> QED
  BY <1>1, <1>4, <1>5 DEF CleanAt

(* No step makes a clean sync unsound.                                     *)
LEMMA CleanStep ==
  ASSUME CatTypeOK, KeysSound, SyncsSound, CleanSound, CatNext, sync' \in [Syncs -> SyncState]
  PROVE  CleanSound'
<1> SUFFICES ASSUME NEW s \in clean'
             PROVE  /\ \A q \in Syncs \ {s} : ~Running(q)' /\ q \notin clean'
                    /\ \A t \in SyncState : sync'[s] = t => CleanAt(t)'
  BY DEF CleanSound
<1>1. clean \subseteq Syncs /\ sync \in [Syncs -> SyncState]
  BY DEF CatTypeOK
<1>2. ASSUME s \in clean, clean' \subseteq clean, sync'[s] = sync[s],
             UNCHANGED <<pms, properties, roomTypes, rooms>>
      PROVE  \A t \in SyncState : sync'[s] = t => CleanAt(t)'
  BY <1>2, CleanFrame DEF CleanSound
<1>3. CASE \E id \in PropIds : ChooseDefault(id)
  <2>1. UNCHANGED <<pms, properties, roomTypes, rooms, sync, clean>>
    BY <1>3 DEF ChooseDefault
  <2>2. \A q \in Syncs \ {s} : ~Running(q)' /\ q \notin clean'
    BY <2>1 DEF CleanSound, Running
  <2> QED
    BY <1>2, <2>1, <2>2
<1>4. CASE \E l \in Listings : EditPms(l)
  BY <1>4 DEF EditPms
<1>5. ASSUME NEW q \in Syncs, SyncStep(q)
      PROVE  /\ \A r \in Syncs \ {s} : ~Running(r)' /\ r \notin clean'
             /\ \A t \in SyncState : sync'[s] = t => CleanAt(t)'
  <2>1. \A r \in Syncs \ {q} : sync'[r] = sync[r]
    BY <1>5, SyncsStep DEF Becomes
  <2>2. CASE s = q
    <3>1. \A t \in SyncState : sync'[s] = t => CleanAt(t)'
      BY <1>5, <2>2, OwnStep DEF Becomes
    <3>2. \A r \in Syncs \ {s} : ~Running(r) /\ r \notin clean'
      <4>1. CASE \E c \in Conns : StartSync(q, c)
        BY <2>2, <4>1 DEF StartSync
      <4>2. CASE ~(\E c \in Conns : StartSync(q, c))
        <5>1. clean' \subseteq clean
          BY <1>5, <4>2
          DEF SyncStep, SearchProperties, GetPropertyByExternal, SyncProperty, ListRoomTypes, SyncRoomType,
              SyncRoom, EndRoomType, ReadRoomTypes, ReadRooms, DropRoomType, DropRoom,
              EndHotel, EndSync, ReadDefault, ElectDefault, StopSync
        <5> QED
          BY <5>1 DEF CleanSound
      <4> QED
        BY <4>1, <4>2
    <3> QED
      BY <2>1, <2>2, <3>1, <3>2 DEF Running
  <2>3. CASE s # q
    <3>1. /\ s \in clean /\ clean' \subseteq clean /\ ~Running(q)'
          /\ UNCHANGED <<pms, properties, roomTypes, rooms>>
      BY <1>5, <2>3, OtherStep
    <3>2. s \in Syncs \ {q}
      BY <1>1, <2>3, <3>1
    <3>3. \A r \in Syncs \ {s} : ~Running(r)' /\ r \notin clean'
      BY <2>1, <3>1 DEF CleanSound, Running
    <3> QED
      BY <1>2, <2>1, <3>1, <3>2, <3>3
  <2> QED
    BY <2>2, <2>3
<1> QED
  BY <1>3, <1>4, <1>5 DEF CatNext

-----------------------------------------------------------------------------
CatInv == CatTypeOK /\ KeysSound /\ SyncsSound /\ CleanSound

(* The invariant holds at first.                                           *)
LEMMA CatInvInit ==
  ASSUME CatInit
  PROVE  CatInv
<1>1. sync \in [Syncs -> SyncState] /\ \A s \in Syncs : sync[s] = Idle
  BY IdleFacts DEF CatInit
<1>2. CatTypeOK
  BY <1>1, CatalogAssumption DEF CatInit, CatTypeOK
<1>3. KeysSound
  BY DEF CatInit, KeysSound
<1>4. SyncsSound
  BY <1>1, IdleFacts DEF SyncsSound, SoundAt, InHotel
<1>5. CleanSound
  BY DEF CatInit, CleanSound
<1> QED
  BY <1>2, <1>3, <1>4, <1>5 DEF CatInv

(* Every step keeps it.                                                    *)
LEMMA CatInvStep ==
  ASSUME CatInv, CatNext
  PROVE  CatInv'
<1>1. CatTypeOK /\ KeysSound /\ SyncsSound /\ CleanSound
  BY DEF CatInv
<1>2. CatTypeOK' /\ KeysSound'
  BY <1>1, TablesStep
<1>3. sync' \in [Syncs -> SyncState]
  BY <1>2 DEF CatTypeOK
<1>4. SyncsSound'
  <2>1. ASSUME NEW s \in Syncs, SyncStep(s) PROVE SyncsSound'
    BY <1>1, <2>1, SyncsStep, BecomesSound
  <2>2. CASE UNCHANGED sync
    BY <1>1, <2>2 DEF SyncsSound
  <2> QED
    BY <2>1, <2>2 DEF CatNext, ChooseDefault, EditPms
<1>5. CleanSound'
  BY <1>1, <1>3, CleanStep
<1> QED
  BY <1>2, <1>4, <1>5 DEF CatInv

(* So does standing still.                                                 *)
LEMMA CatInvStutters ==
  ASSUME CatInv, UNCHANGED catVars
  PROVE  CatInv'
<1>1. \A t \in SyncState : CleanAt(t) => CleanAt(t)'
  BY CleanFrame DEF catVars
<1>2. CleanSound'
  BY <1>1 DEF CatInv, CleanSound, Running, catVars
<1>3. CatTypeOK'
  BY DEF CatInv, CatTypeOK, catVars
<1>4. KeysSound'
  BY DEF CatInv, KeysSound, catVars
<1>5. SyncsSound'
  BY DEF CatInv, SyncsSound, catVars
<1> QED
  BY <1>2, <1>3, <1>4, <1>5 DEF CatInv

(* What syncs rely on: keys are unique in every table, a request at work   *)
(* knows its property, and a clean one has written what it has passed.     *)
THEOREM CatalogInvariant == CatSpec => []CatInv
<1>1. CatInit => CatInv
  BY CatInvInit
<1>2. CatInv /\ [CatNext]_catVars => CatInv'
  BY CatInvStep, CatInvStutters
<1> QED
  BY <1>1, <1>2, PTL DEF CatSpec

(* sync_catalog and the choices of operators keep every variable in its    *)
(* type.                                                                   *)
THEOREM CatalogTypeCorrect == CatSpec => []CatTypeOK
<1>1. CatInv => CatTypeOK
  BY DEF CatInv
<1> QED
  BY <1>1, CatalogInvariant, PTL

(* A sync that nothing failed in, overlapped or changed the PMS under      *)
(* leaves every hotel it found with exactly the types and rooms listed.    *)
THEOREM LoneSyncsMirror == CatSpec => []LoneSyncMirrors
<1>1. ASSUME CatInv, NEW s \in clean, sync[s].pc \in {"elect", "set", "done"},
             NEW h \in sync[s].found
      PROVE  \E p \in properties :
               /\ p.ext = h
               /\ ActiveTypes(p.id) = pms[h].types
               /\ ActiveRooms(p.id) =
                    {<<r, pms[h].home[r]>> : r \in {q \in Rooms : pms[h].home[q] # None}}
  <2>1. /\ sync \in [Syncs -> SyncState] /\ clean \subseteq Syncs /\ pms \in Listings
        /\ roomTypes \subseteq RoomType /\ rooms \subseteq Room
    BY <1>1 DEF CatInv, CatTypeOK
  <2>2. sync[s] \in SyncState
    BY <2>1
  <2>3. CleanAt(sync[s])
    BY <1>1, <2>2 DEF CatInv, CleanSound
  <2>4. Mirrored(h) /\ h \in DOMAIN pms
    BY <1>1, <2>3 DEF CleanAt, InHotel
  <2>5. PICK p \in properties :
          /\ p.ext = h
          /\ TypesMirrored(p.id, pms[h].types) /\ RoomsMirrored(p.id, pms[h].home)
    BY <2>4 DEF Mirrored
  <2>6. pms[h] \in HotelListing
    BY <2>1, <2>4, ListingFacts
  <2>7. pms[h].types \subseteq Types /\ \A r \in Rooms : pms[h].home[r] \in Types \cup {None}
    BY <2>6 DEF HotelListing
  <2>8. ActiveTypes(p.id) = pms[h].types
    <3>1. \A t : t \in ActiveTypes(p.id) <=> t \in Types /\ HasType(p.id, t)
      BY <2>1 DEF ActiveTypes, HasType, RoomType
    <3> QED
      BY <2>5, <2>7, <3>1 DEF TypesMirrored
  <2>9. ActiveRooms(p.id) =
          {<<r, pms[h].home[r]>> : r \in {q \in Rooms : pms[h].home[q] # None}}
    <3>1. ASSUME NEW x \in rooms, x.prop = p.id, x.active
          PROVE  x.ext \in Rooms /\ x.type \in Types /\ pms[h].home[x.ext] = x.type
      <4>1. x.ext \in Rooms /\ x.type \in Types
        BY <2>1 DEF Room
      <4> QED
        BY <2>5, <3>1, <4>1 DEF RoomsMirrored, HasRoom
    <3>2. ASSUME NEW r \in Rooms, pms[h].home[r] # None
          PROVE  \E x \in rooms : x.prop = p.id /\ x.active /\ x.ext = r
                                  /\ x.type = pms[h].home[r]
      BY <2>5, <2>7, <3>2 DEF RoomsMirrored, HasRoom
    <3>3. ASSUME NEW y \in ActiveRooms(p.id)
          PROVE  y \in {<<r, pms[h].home[r]>> : r \in {q \in Rooms : pms[h].home[q] # None}}
      <4>1. PICK x \in rooms : x.prop = p.id /\ x.active /\ y = <<x.ext, x.type>>
        BY <3>3 DEF ActiveRooms
      <4> QED
        BY <3>1, <4>1, CatalogAssumption
    <3>4. ASSUME NEW r \in Rooms, pms[h].home[r] # None
          PROVE  <<r, pms[h].home[r]>> \in ActiveRooms(p.id)
      BY <3>2, <3>4 DEF ActiveRooms
    <3> QED
      BY <3>3, <3>4
  <2> QED
    BY <2>5, <2>8, <2>9
<1>2. CatInv => LoneSyncMirrors
  BY <1>1 DEF LoneSyncMirrors
<1> QED
  BY <1>2, CatalogInvariant, PTL

(* The default property is only ever replaced by another, and an election  *)
(* only follows a look at an organisation without one.                     *)
THEOREM DefaultsStand == CatSpec => DefaultStands
<1>1. ASSUME CatInv, CatNext
      PROVE  /\ default # None => default' # None
             /\ \A s \in Syncs :
                  sync'[s].pc = "set" /\ sync[s].pc # "set" => default = None
  <2>1. CatTypeOK /\ SyncsSound /\ properties \subseteq Property
    BY <1>1 DEF CatInv, CatTypeOK
  <2>2. None \notin PropIds
    BY CatalogAssumption
  <2>3. ASSUME default # None PROVE default' # None
    <3>1. \A id : SetDefault(id) => default' # None
      BY <2>1, <2>2, <2>3 DEF SetDefault, Property
    <3>2. ASSUME NEW s \in Syncs, SyncStep(s) PROVE default' # None
      <4>1. \A c, h : \/ StartSync(s, c) \/ SearchProperties(s)
                     \/ GetPropertyByExternal(s, h) \/ SyncProperty(s) => UNCHANGED default
        BY DEF StartSync, SearchProperties, GetPropertyByExternal, SyncProperty, Catalog
      <4>2. \A t, r : ListRoomTypes(s) \/ SyncRoomType(s, t) \/ SyncRoom(s, r) =>
                     UNCHANGED default
        BY DEF ListRoomTypes, SyncRoomType, SyncRoom, Catalog
      <4>3. EndRoomType(s) \/ ReadRoomTypes(s) \/ ReadRooms(s) => UNCHANGED default
        BY DEF EndRoomType, ReadRoomTypes, ReadRooms, Catalog
      <4>4. \A x : DropRoomType(s, x) \/ DropRoom(s, x) => UNCHANGED default
        BY DEF DropRoomType, DropRoom
      <4>5. EndHotel(s) \/ EndSync(s) \/ ReadDefault(s) \/ StopSync(s) => UNCHANGED default
        BY DEF EndHotel, EndSync, ReadDefault, StopSync, Catalog
      <4>6. ElectDefault(s) => SetDefault(sync[s].choice)
        BY DEF ElectDefault
      <4> QED
        BY <2>3, <3>1, <3>2, <4>1, <4>2, <4>3, <4>4, <4>5, <4>6 DEF SyncStep
    <3> QED
      BY <1>1, <2>3, <3>1, <3>2 DEF CatNext, ChooseDefault, EditPms, Catalog
  <2>4. ASSUME NEW s \in Syncs, sync'[s].pc = "set", sync[s].pc # "set"
        PROVE  default = None
    <3>1. ASSUME NEW q \in Syncs, SyncStep(q) PROVE default = None
      <4>1. PICK t \in SyncState : Becomes(q, t) /\ Elects(q, t)
        BY <2>1, <3>1, SyncsStep
      <4> QED
        BY <2>4, <4>1 DEF Becomes, Elects
    <3>2. CASE UNCHANGED sync
      BY <2>4, <3>2
    <3> QED
      BY <1>1, <3>1, <3>2 DEF CatNext, ChooseDefault, EditPms
  <2> QED
    BY <2>3, <2>4
<1>2. CatInv /\ [CatNext]_catVars =>
        [ /\ default # None => default' # None
          /\ \A s \in Syncs :
               sync'[s].pc = "set" /\ sync[s].pc # "set" => default = None ]_catVars
  BY <1>1
<1> QED
  BY <1>2, CatalogInvariant, PTL DEF CatSpec, DefaultStands

=============================================================================
