---------------------------- MODULE CatalogSync ----------------------------
(***************************************************************************)
(* The property catalogue of one organisation: sync_catalog copies the     *)
(* hotels, room types and rooms that a PMS lists, deactivates the types    *)
(* and rooms a hotel no longer lists, and elects a default property.       *)
(*                                                                         *)
(* A sync is a loop of PMS calls and one-row transactions.  A failure      *)
(* skips a hotel, skips a room type, ends the sync or is dropped,          *)
(* depending on where it happens, and syncs of one organisation may        *)
(* overlap.  Left out: the columns nothing decides on (names, capacities,  *)
(* a connection's status and last sync), and rooms without an id.          *)
(***************************************************************************)
EXTENDS Naturals, FiniteSets

CONSTANTS
  Hotels,    (* hotels, by the id the PMS gives them                       *)
  Types,     (* codes of room types                                        *)
  Rooms,     (* room ids of the PMS                                        *)
  Listings,  (* what the PMS may list (see Listing)                        *)
  Conns,     (* PMS connections                                            *)
  PropIds,   (* property ids: uuids, each drawn once (bound)               *)
  Syncs,     (* sync_catalog requests (bound: each runs once)              *)
  MaxEdits,  (* changes in the PMS and choices of operators (bound)        *)
  None       (* no id                                                      *)

(* What the PMS lists: for each hotel its room types, and for each room    *)
(* the type it belongs to (None: not listed).  A hotel that is not in the  *)
(* domain is not listed.                                                   *)
HotelListing == [types : SUBSET Types, home : [Rooms -> Types \cup {None}]]
Listing == UNION {[H -> HotelListing] : H \in SUBSET Hotels}

ASSUME CatalogAssumption ==
  /\ Listings \subseteq Listing
  /\ \A l \in Listings : \A h \in DOMAIN l : \A r \in Rooms :
       l[h].home[r] \in l[h].types \cup {None}
  /\ None \notin Hotels \cup Types \cup Rooms \cup Conns \cup PropIds
  /\ MaxEdits \in Nat

VARIABLES
  pms,        (* what the PMS lists now                                    *)
  properties, (* rows of pms.properties                                    *)
  default,    (* the property with is_default, or None                     *)
  roomTypes,  (* rows of pms.room_types                                    *)
  rooms,      (* rows of pms.rooms                                         *)
  sync,       (* sync[s]: the request s                                    *)
  edits,      (* changes and choices so far                                *)
  clean       (* history: syncs that nothing failed in or overlapped, the  *)
              (* PMS unchanged since they began                            *)

catVars == <<pms, properties, default, roomTypes, rooms, sync, edits, clean>>

-----------------------------------------------------------------------------
(* Room types are keyed by property and code, rooms by property and        *)
(* external id.                                                            *)
Property == [id : PropIds, ext : Hotels, conn : Conns]
RoomType == [prop : PropIds, code : Types, active : BOOLEAN]
Room == [prop : PropIds, ext : Rooms, type : Types, active : BOOLEAN]

Nothing == [types |-> {}, home |-> [r \in Rooms |-> None]]

(* todo: hotels of the search still to do.  hotel: the one being upserted, *)
(* prop: its row (None: it has none yet).  listing: what the PMS has of it.*)
(* left: its types (rooms of type) still to write.  seenTypes, seenRooms:  *)
(* the active sets.  goneTypes, goneRooms: rows still to deactivate, as    *)
(* they were read.  choice: the property the election is about to set.     *)
SyncState ==
  [pc : {"idle", "search", "hotel", "upsert", "list", "type", "room",
         "dropTypes", "readRooms", "dropRooms", "elect", "set", "done"},
   conn : Conns \cup {None}, found : SUBSET Hotels, todo : SUBSET Hotels,
   hotel : Hotels \cup {None}, prop : PropIds \cup {None}, listing : HotelListing,
   left : SUBSET Types, type : Types \cup {None}, beds : SUBSET Rooms,
   seenTypes : SUBSET Types, seenRooms : SUBSET Rooms,
   goneTypes : SUBSET RoomType, goneRooms : SUBSET Room,
   choice : PropIds \cup {None}]

Idle ==
  [pc |-> "idle", conn |-> None, found |-> {}, todo |-> {}, hotel |-> None,
   prop |-> None, listing |-> Nothing, left |-> {}, type |-> None, beds |-> {},
   seenTypes |-> {}, seenRooms |-> {}, goneTypes |-> {}, goneRooms |-> {},
   choice |-> None]

(* An organisation whose PMS is connected and was never synced.            *)
CatInit ==
  /\ pms \in Listings
  /\ properties = {} /\ default = None /\ roomTypes = {} /\ rooms = {}
  /\ sync = [s \in Syncs |-> Idle]
  /\ edits = 0
  /\ clean = {}

Running(s) == sync[s].pc \notin {"idle", "elect", "set", "done"}

(* The request goes on at pc, with other fields changed by the caller.     *)
Goto(s, pc) == sync' = [sync EXCEPT ![s].pc = pc]

(* It leaves the current hotel.                                            *)
NextHotel(s) ==
  sync' = [sync EXCEPT ![s] = [Idle EXCEPT !.pc = "hotel", !.conn = sync[s].conn,
             !.found = sync[s].found, !.todo = sync[s].todo]]

(* SyncCatalog is over; OrgDispatch elects a default, whatever came of it. *)
Leave(s) ==
  sync' = [sync EXCEPT ![s] = [Idle EXCEPT !.pc = "elect", !.conn = sync[s].conn,
             !.found = sync[s].found]]

Catalog == <<properties, default, roomTypes, rooms>>

-----------------------------------------------------------------------------
(* OrgDispatch, "sync_catalog", up to the engine: the connection is the    *)
(* one the body names, or the first one listed.                            *)
StartSync(s, c) ==
  /\ sync[s].pc = "idle"
  /\ sync' = [sync EXCEPT ![s] = [Idle EXCEPT !.pc = "search", !.conn = c]]
  /\ clean' = IF \E q \in Syncs \ {s} : Running(q) THEN {} ELSE {s}
  /\ UNCHANGED <<pms, Catalog, edits>>

(* SearchProperties lists the hotels; an engine that cannot be made, or    *)
(* fails to answer, ends the sync.                                         *)
SearchProperties(s) ==
  /\ sync[s].pc = "search"
  /\ \/ /\ sync' = [sync EXCEPT ![s] = [sync[s] EXCEPT !.pc = "hotel",
                      !.found = DOMAIN pms, !.todo = DOMAIN pms]]
        /\ UNCHANGED clean
     \/ Leave(s) /\ clean' = clean \ {s}
  /\ UNCHANGED <<pms, Catalog, edits>>

(* One hotel of the search: its row is looked for by external id in the    *)
(* whole organisation, and any may be found if there are several.          *)
GetPropertyByExternal(s, h) ==
  LET old == {p.id : p \in {q \in properties : q.ext = h}} IN
  /\ sync[s].pc = "hotel" /\ h \in sync[s].todo
  /\ \E id \in IF old = {} THEN {None} ELSE old :
       sync' = [sync EXCEPT ![s] = [sync[s] EXCEPT !.pc = "upsert", !.hotel = h,
                  !.prop = id, !.todo = @ \ {h}]]
  /\ UNCHANGED <<pms, Catalog, edits, clean>>

(* No other row has the hotel on connection c: the unique index.           *)
Unclaimed(h, c, others) == \A q \in others : q.conn = c => q.ext # h

(* The row that was found moves to the connection of the sync; without one *)
(* a row is inserted, whoever may have inserted another meanwhile.         *)
UpsertProperty(s, id) ==
  LET h == sync[s].hotel
      c == sync[s].conn
  IN
  \/ \E p \in properties :
       /\ sync[s].prop = p.id /\ id = p.id
       /\ Unclaimed(h, c, properties \ {p})
       /\ properties' = (properties \ {p}) \cup {[p EXCEPT !.conn = c]}
  \/ /\ sync[s].prop = None /\ \A p \in properties : p.id # id
     /\ Unclaimed(h, c, properties)
     /\ properties' = properties \cup {[id |-> id, ext |-> h, conn |-> c]}

(* The second half of the upsert; if either half fails, or the index       *)
(* refuses the row, the error is logged and the hotel left.                *)
SyncProperty(s) ==
  /\ sync[s].pc = "upsert"
  /\ \/ /\ \E id \in PropIds :
             /\ UpsertProperty(s, id)
             /\ sync' = [sync EXCEPT ![s] = [sync[s] EXCEPT !.pc = "list", !.prop = id,
                           !.hotel = None]]
        /\ UNCHANGED clean
     \/ NextHotel(s) /\ clean' = clean \ {s} /\ UNCHANGED properties
  /\ UNCHANGED <<pms, default, roomTypes, rooms, edits>>

HotelOf(s) == (CHOOSE p \in properties : p.id = sync[s].prop).ext

(* ListRoomTypes asks the PMS for the hotel's types and rooms; a failure   *)
(* leaves the hotel as it was.  A hotel no longer known has none.          *)
ListRoomTypes(s) ==
  LET h == HotelOf(s)
      l == IF h \in DOMAIN pms THEN pms[h] ELSE Nothing
  IN
  /\ sync[s].pc = "list"
  /\ \/ /\ sync' = [sync EXCEPT ![s] = [sync[s] EXCEPT !.pc = "type", !.listing = l,
                      !.left = l.types]]
        /\ UNCHANGED clean
     \/ NextHotel(s) /\ clean' = clean \ {s}
  /\ UNCHANGED <<pms, Catalog, edits>>

UpsertRoomType(p, t, active) ==
  roomTypes' = {x \in roomTypes : x.prop # p \/ x.code # t}
                 \cup {[prop |-> p, code |-> t, active |-> active]}

UpsertRoom(p, r, t, active) ==
  rooms' = {x \in rooms : x.prop # p \/ x.ext # r}
             \cup {[prop |-> p, ext |-> r, type |-> t, active |-> active]}

(* One room type.  A failed upsert skips its rooms too: neither counts as  *)
(* active, and both are deactivated below.                                 *)
SyncRoomType(s, t) ==
  /\ sync[s].pc = "type" /\ t \in sync[s].left
  /\ \/ /\ UpsertRoomType(sync[s].prop, t, TRUE)
        /\ sync' = [sync EXCEPT ![s] = [sync[s] EXCEPT !.pc = "room", !.left = @ \ {t},
                      !.type = t,
                      !.beds = {r \in Rooms : sync[s].listing.home[r] = t}]]
        /\ UNCHANGED clean
     \/ /\ sync' = [sync EXCEPT ![s].left = @ \ {t}]
        /\ clean' = clean \ {s}
        /\ UNCHANGED roomTypes
  /\ UNCHANGED <<pms, properties, default, rooms, edits>>

(* One room of the type; a failed upsert ends the sync.                    *)
SyncRoom(s, r) ==
  /\ sync[s].pc = "room" /\ r \in sync[s].beds
  /\ \/ /\ UpsertRoom(sync[s].prop, r, sync[s].type, TRUE)
        /\ sync' = [sync EXCEPT ![s] = [sync[s] EXCEPT !.beds = @ \ {r},
                      !.seenRooms = @ \cup {r}]]
        /\ UNCHANGED clean
     \/ Leave(s) /\ clean' = clean \ {s} /\ UNCHANGED rooms
  /\ UNCHANGED <<pms, properties, default, roomTypes, edits>>

(* A type whose rooms are written is active.                               *)
EndRoomType(s) ==
  /\ sync[s].pc = "room" /\ sync[s].beds = {}
  /\ sync' = [sync EXCEPT ![s] = [sync[s] EXCEPT !.pc = "type", !.type = None,
                !.seenTypes = @ \cup {sync[s].type}]]
  /\ UNCHANGED <<pms, Catalog, edits, clean>>

(* The hotel's active room types are read; those not in the active set     *)
(* are to go.  A failed read skips them.                                   *)
ReadRoomTypes(s) ==
  LET gone == {x \in roomTypes : /\ x.prop = sync[s].prop /\ x.active
                                 /\ x.code \notin sync[s].seenTypes}
  IN
  /\ sync[s].pc = "type" /\ sync[s].left = {}
  /\ \/ /\ sync' = [sync EXCEPT ![s] = [sync[s] EXCEPT !.pc = "dropTypes",
                      !.goneTypes = gone]]
        /\ UNCHANGED clean
     \/ Goto(s, "readRooms") /\ clean' = clean \ {s}
  /\ UNCHANGED <<pms, Catalog, edits>>

(* Each is written back inactive, as it was read; an error is dropped.     *)
DropRoomType(s, x) ==
  /\ sync[s].pc = "dropTypes" /\ x \in sync[s].goneTypes
  /\ \/ UpsertRoomType(x.prop, x.code, FALSE) /\ UNCHANGED clean
     \/ UNCHANGED roomTypes /\ clean' = clean \ {s}
  /\ sync' = [sync EXCEPT ![s].goneTypes = @ \ {x}]
  /\ UNCHANGED <<pms, properties, default, rooms, edits>>

(* Mutant: rooms are compared with the types that were seen.               *)
ReadRoomsOfGoneTypes(s) ==
  LET gone == {x \in rooms : /\ x.prop = sync[s].prop /\ x.active
                             /\ x.type \notin sync[s].seenTypes}
  IN
  /\ \/ sync[s].pc = "dropTypes" /\ sync[s].goneTypes = {}
     \/ sync[s].pc = "readRooms"
  /\ \/ /\ sync' = [sync EXCEPT ![s] = [sync[s] EXCEPT !.pc = "dropRooms",
                      !.goneRooms = gone]]
        /\ UNCHANGED clean
     \/ NextHotel(s) /\ clean' = clean \ {s}
  /\ UNCHANGED <<pms, Catalog, edits>>

(* The same for its rooms.                                                 *)
ReadRooms(s) ==
  LET gone == {x \in rooms : /\ x.prop = sync[s].prop /\ x.active
                             /\ x.ext \notin sync[s].seenRooms}
  IN
  /\ \/ sync[s].pc = "dropTypes" /\ sync[s].goneTypes = {}
     \/ sync[s].pc = "readRooms"
  /\ \/ /\ sync' = [sync EXCEPT ![s] = [sync[s] EXCEPT !.pc = "dropRooms",
                      !.goneRooms = gone]]
        /\ UNCHANGED clean
     \/ NextHotel(s) /\ clean' = clean \ {s}
  /\ UNCHANGED <<pms, Catalog, edits>>

DropRoom(s, x) ==
  /\ sync[s].pc = "dropRooms" /\ x \in sync[s].goneRooms
  /\ \/ UpsertRoom(x.prop, x.ext, x.type, FALSE) /\ UNCHANGED clean
     \/ UNCHANGED rooms /\ clean' = clean \ {s}
  /\ sync' = [sync EXCEPT ![s].goneRooms = @ \ {x}]
  /\ UNCHANGED <<pms, properties, default, roomTypes, edits>>

EndHotel(s) ==
  /\ sync[s].pc = "dropRooms" /\ sync[s].goneRooms = {}
  /\ NextHotel(s)
  /\ UNCHANGED <<pms, Catalog, edits, clean>>

(* UpdateLastSync and the answer.                                          *)
EndSync(s) ==
  /\ sync[s].pc = "hotel" /\ sync[s].todo = {}
  /\ Leave(s)
  /\ UNCHANGED <<pms, Catalog, edits, clean>>

-----------------------------------------------------------------------------
(* Mutant: the demotion and the promotion are two transactions.            *)
SetDefaultInTwo(id) ==
  default' = IF \E p \in properties : p.id = id THEN id ELSE None

(* SetDefault demotes the default and promotes another in one transaction, *)
(* rolled back when there is no such property.                             *)
SetDefault(id) ==
  default' = IF \E p \in properties : p.id = id THEN id ELSE default

(* ensureDefaultProperty reads the properties in the order of their names: *)
(* any may be the first.  With a default, or none to choose, it is done.   *)
ReadDefault(s) ==
  /\ sync[s].pc = "elect"
  /\ \/ /\ default = None
        /\ \E p \in properties :
             sync' = [sync EXCEPT ![s] = [sync[s] EXCEPT !.pc = "set", !.choice = p.id]]
     \/ /\ default # None \/ properties = {}
        /\ Goto(s, "done")
  /\ UNCHANGED <<pms, Catalog, edits, clean>>

(* It sets the one it chose; what became the default meanwhile is demoted. *)
ElectDefault(s) ==
  /\ sync[s].pc = "set"
  /\ SetDefault(sync[s].choice)
  /\ Goto(s, "done")
  /\ UNCHANGED <<pms, properties, roomTypes, rooms, edits, clean>>

(* An operator picks the default property in the dashboard.                *)
ChooseDefault(id) ==
  /\ edits < MaxEdits
  /\ SetDefault(id)
  /\ edits' = edits + 1
  /\ UNCHANGED <<pms, properties, roomTypes, rooms, sync, clean>>

(* The catalogue changes in the PMS.                                       *)
EditPms(l) ==
  /\ edits < MaxEdits /\ l # pms
  /\ pms' = l
  /\ edits' = edits + 1
  /\ clean' = {}
  /\ UNCHANGED <<Catalog, sync>>

(* The client hangs up, the process stops, or the election's transaction   *)
(* fails: nothing more is written by the request.                          *)
StopSync(s) ==
  /\ sync[s].pc \notin {"idle", "done"}
  /\ sync' = [sync EXCEPT ![s] = [Idle EXCEPT !.pc = "done"]]
  /\ clean' = clean \ {s}
  /\ UNCHANGED <<pms, Catalog, edits>>

SyncStep(s) ==
  \/ \E c \in Conns : StartSync(s, c)
  \/ SearchProperties(s)
  \/ \E h \in Hotels : GetPropertyByExternal(s, h)
  \/ SyncProperty(s)
  \/ ListRoomTypes(s)
  \/ \E t \in Types : SyncRoomType(s, t)
  \/ \E r \in Rooms : SyncRoom(s, r)
  \/ EndRoomType(s) \/ ReadRoomTypes(s) \/ ReadRooms(s)
  \/ \E x \in sync[s].goneTypes : DropRoomType(s, x)
  \/ \E x \in sync[s].goneRooms : DropRoom(s, x)
  \/ EndHotel(s) \/ EndSync(s)
  \/ ReadDefault(s) \/ ElectDefault(s) \/ StopSync(s)

CatNext ==
  \/ \E s \in Syncs : SyncStep(s)
  \/ \E id \in PropIds : ChooseDefault(id)
  \/ \E l \in Listings : EditPms(l)

CatSpec == CatInit /\ [][CatNext]_catVars

-----------------------------------------------------------------------------
(* Every variable stays in its type.                                       *)
CatTypeOK ==
  /\ pms \in Listings
  /\ properties \subseteq Property /\ default \in PropIds \cup {None}
  /\ roomTypes \subseteq RoomType /\ rooms \subseteq Room
  /\ sync \in [Syncs -> SyncState]
  /\ edits \in 0 .. MaxEdits /\ clean \subseteq Syncs

ActiveTypes(p) == {x.code : x \in {y \in roomTypes : y.prop = p /\ y.active}}

ActiveRooms(p) ==
  {<<x.ext, x.type>> : x \in {y \in rooms : y.prop = p /\ y.active}}

(* A sync that no failure, no other sync and no change in the PMS came     *)
(* into leaves of each hotel exactly the types and rooms the PMS lists     *)
(* active, every room under the type the PMS has it under.                 *)
LoneSyncMirrors ==
  \A s \in clean :
    sync[s].pc \in {"elect", "set", "done"} =>
      \A h \in sync[s].found : \E p \in properties :
        /\ p.ext = h
        /\ ActiveTypes(p.id) = pms[h].types
        /\ ActiveRooms(p.id) =
             {<<r, pms[h].home[r]>> : r \in {q \in Rooms : pms[h].home[q] # None}}

(* The organisation never loses its default property once it has one, and  *)
(* an election replaces a default only if there was none when it looked:   *)
(* the booking engine always has a property to fall back to.               *)
DefaultStands ==
  [][ /\ default # None => default' # None
      /\ \A s \in Syncs :
           sync'[s].pc = "set" /\ sync[s].pc # "set" => default = None ]_catVars
=============================================================================
