------------------------------ MODULE Channels ------------------------------
(***************************************************************************)
(* The channel service of one organisation: OTA connections, the channels  *)
(* that link properties to them, and the sync jobs of their dispatches.    *)
(*                                                                         *)
(* Tables are sets of rows, a statement is an operator on them, and a      *)
(* request of an admin takes one step per transaction.  Constraints of the *)
(* tables (unique names, one channel per property and connection, foreign  *)
(* keys that cascade) belong to the statements that meet them.             *)
(***************************************************************************)
EXTENDS Naturals, FiniteSets

CONSTANTS
  Conns,     (* connection ids: uuids, each drawn once (bound)             *)
  Chans,     (* channel ids, the same                                      *)
  Names,     (* pairs of provider and name                                 *)
  Props,     (* properties                                                 *)
  Admins,    (* requests that administer connections (bound: one op each)  *)
  AdminOps,  (* operations the instance lets them ask for                  *)
  Connected, (* rows of connections and channels that are there at first   *)
  Linked,
  NoId       (* no id                                                      *)

VARIABLES
  connections, (* rows of channel.connections                              *)
  channels,    (* rows of channel.channels                                 *)
  drawn,       (* ids drawn so far                                         *)
  admin        (* admin[a]: the request a                                  *)

chVars == <<connections, channels, drawn, admin>>

-----------------------------------------------------------------------------
(* hasSecret: secret_ref is set.  last_sync_at and last_error are shown to *)
(* admins only and left out.                                               *)
Connection == [id : Conns, name : Names,
               status : {"active", "inactive", "disabled"},
               hasSecret : BOOLEAN]

Channel == [id : Chans, prop : Props, conn : Conns,
            status : {"active", "paused"}]

ASSUME ChannelsAssumption ==
  /\ NoId \notin Conns \cup Chans \cup Names
  /\ Conns \cap Chans = {}
  /\ Connected \subseteq Connection /\ Linked \subseteq Channel
  /\ \A r, q \in Connected : r.name = q.name \/ r.id = q.id => r = q
  /\ \A h, k \in Linked :
       h.id = k.id \/ (h.prop = k.prop /\ h.conn = k.conn) => h = k
  /\ \A h \in Linked : \E r \in Connected : r.id = h.conn

AdminState ==
  [pc : {"idle", "link", "insert", "status", "name", "done"},
   prop : Props \cup {NoId}, conn : Conns \cup {NoId}, name : Names \cup {NoId},
   status : {"", "active", "inactive", "disabled"},
   answer : {"", "created", "linked", "already_linked", "link_error",
             "updated", "deleted", "paused", "active", "disconnected",
             "error"}]

(* Statements on connections.                                              *)
GetConnectionByID(c) == {r \in connections : r.id = c}

NameTaken(n, except) == \E r \in connections \ except : r.name = n

CreateConnectionRow(c, n, secret) ==
  connections \cup {[id |-> c, name |-> n, status |-> "active",
                     hasSecret |-> secret]}

UpdateConnectionStatusRow(c, s) ==
  {IF r.id = c THEN [r EXCEPT !.status = s] ELSE r : r \in connections}

UpdateConnectionNameRow(c, n) ==
  {IF r.id = c THEN [r EXCEPT !.name = n] ELSE r : r \in connections}

DeleteConnectionRow(c) == connections \ GetConnectionByID(c)

(* ON DELETE CASCADE: rows that refer to a connection go with it.          *)
Cascade(rows, c) == {r \in rows : r.conn # c}

(* Statements on channels.                                                 *)
GetChannelByID(h) == {r \in channels : r.id = h}

ListChannelsByProperty(p) == {r \in channels : r.prop = p}

CreateChannelRow(h, p, c) ==
  channels \cup {[id |-> h, prop |-> p, conn |-> c, status |-> "active"]}

UpdateChannelStatusRow(h, s) ==
  {IF r.id = h THEN [r EXCEPT !.status = s] ELSE r : r \in channels}

DeleteChannelRow(h) == channels \ GetChannelByID(h)

IdleAdmin ==
  [pc |-> "idle", prop |-> NoId, conn |-> NoId, name |-> NoId,
   status |-> "", answer |-> ""]

ChInit ==
  /\ connections = Connected
  /\ channels = Linked
  /\ drawn = {r.id : r \in Connected \cup Linked}
  /\ admin = [a \in Admins |-> IdleAdmin]

-----------------------------------------------------------------------------
Answer(a, answer) ==
  admin' = [admin EXCEPT ![a] = [@ EXCEPT !.pc = "done", !.answer = answer]]

(* The request fails: an error of the store, or the client is gone.  What  *)
(* earlier steps committed stays.                                          *)
AdminFails(a) ==
  /\ admin[a].pc \notin {"idle", "done"}
  /\ Answer(a, IF admin[a].pc = "link" THEN "link_error" ELSE "error")
  /\ UNCHANGED <<connections, channels, drawn>>

(* createConnection up to the row: a taken name is refused by the unique   *)
(* constraint.  The secret goes to a map in memory first and is left there.*)
CreateConnection(a, c, n, p, secret, link) ==
  /\ "create" \in AdminOps
  /\ admin[a].pc = "idle" /\ c \notin drawn
  /\ IF NameTaken(n, {})
     THEN Answer(a, "error") /\ UNCHANGED <<connections, drawn>>
     ELSE /\ drawn' = drawn \cup {c}
          /\ connections' = CreateConnectionRow(c, n, secret)
          /\ admin' = [admin EXCEPT ![a] =
               [@ EXCEPT !.pc = IF link THEN "link" ELSE "done",
                         !.answer = IF link THEN "" ELSE "created",
                         !.conn = c, !.prop = p]]
  /\ UNCHANGED channels

(* connectChannel up to its insert: a property that is linked already is   *)
(* answered from the list it read.                                         *)
FindLink(a, c, p) ==
  /\ "connect" \in AdminOps
  /\ admin[a].pc = "idle" /\ c \in drawn
  /\ IF \E h \in ListChannelsByProperty(p) : h.conn = c
     THEN Answer(a, "already_linked")
     ELSE admin' = [admin EXCEPT ![a] =
            [@ EXCEPT !.pc = "insert", !.conn = c, !.prop = p]]
  /\ UNCHANGED <<connections, channels, drawn>>

(* Mutant: the unique constraint is missing.                               *)
LinkTwice(a, h) ==
  /\ admin[a].pc \in {"link", "insert"} /\ h \notin drawn
  /\ IF GetConnectionByID(admin[a].conn) = {}
     THEN Answer(a, "error") /\ UNCHANGED <<channels, drawn>>
     ELSE /\ channels' = CreateChannelRow(h, admin[a].prop, admin[a].conn)
          /\ drawn' = drawn \cup {h}
          /\ Answer(a, "linked")
  /\ UNCHANGED connections

(* ConnectChannel of the service: the connection must exist, and a second  *)
(* channel of the property on it is refused by the unique constraint.      *)
(* After create_connection a failure is reported beside the success.       *)
ConnectChannel(a, h) ==
  /\ admin[a].pc \in {"link", "insert"} /\ h \notin drawn
  /\ IF \/ GetConnectionByID(admin[a].conn) = {}
        \/ \E r \in channels : r.prop = admin[a].prop /\ r.conn = admin[a].conn
     THEN /\ Answer(a, IF admin[a].pc = "link" THEN "link_error" ELSE "error")
          /\ UNCHANGED <<channels, drawn>>
     ELSE /\ channels' = CreateChannelRow(h, admin[a].prop, admin[a].conn)
          /\ drawn' = drawn \cup {h}
          /\ Answer(a, "linked")
  /\ UNCHANGED connections

(* setChannelState: the channel must be one of the property in the URL.    *)
(* The read that checks it and the statement are two transactions, but a   *)
(* row deleted in between answers an error, as one that was never found.   *)
SetChannelState(a, h, p, op) ==
  /\ op \in AdminOps
  /\ admin[a].pc = "idle" /\ h \in drawn
  /\ IF \A r \in GetChannelByID(h) : r.prop # p
     THEN Answer(a, "error") /\ UNCHANGED channels
     ELSE \/ /\ op = "pause"
             /\ channels' = UpdateChannelStatusRow(h, "paused")
             /\ Answer(a, "paused")
          \/ /\ op = "resume"
             /\ channels' = UpdateChannelStatusRow(h, "active")
             /\ Answer(a, "active")
          \/ /\ op = "disconnect"
             /\ channels' = DeleteChannelRow(h)
             /\ Answer(a, "disconnected")
  /\ UNCHANGED <<connections, drawn>>

(* updateConnection up to its first write: the connection must exist.  New *)
(* credentials of a row without a secret_ref go to a new reference that no *)
(* row gets.                                                               *)
UpdateConnection(a, c, n, s) ==
  /\ "update" \in AdminOps
  /\ admin[a].pc = "idle" /\ c \in drawn
  /\ IF GetConnectionByID(c) = {}
     THEN Answer(a, "error")
     ELSE admin' = [admin EXCEPT ![a] =
            [@ EXCEPT !.pc = "status", !.conn = c, !.name = n, !.status = s]]
  /\ UNCHANGED <<connections, channels, drawn>>

(* UPDATE of the status, which "" leaves alone; a row that is gone is no   *)
(* error.                                                                  *)
UpdateStatus(a) ==
  /\ admin[a].pc = "status"
  /\ connections' = IF admin[a].status = "" THEN connections
                    ELSE UpdateConnectionStatusRow(admin[a].conn, admin[a].status)
  /\ admin' = [admin EXCEPT ![a].pc = "name"]
  /\ UNCHANGED <<channels, drawn>>

(* Mutant: a connection may take any name.                                 *)
UpdateToAnyName(a) ==
  /\ admin[a].pc = "name"
  /\ connections' = IF admin[a].name = NoId THEN connections
                    ELSE UpdateConnectionNameRow(admin[a].conn, admin[a].name)
  /\ Answer(a, "updated")
  /\ UNCHANGED <<channels, drawn>>

(* UPDATE of the name, which "" leaves alone: a name that is taken fails,  *)
(* after the status was written.                                           *)
UpdateName(a) ==
  LET own == GetConnectionByID(admin[a].conn)
      n   == admin[a].name
  IN
  /\ admin[a].pc = "name"
  /\ IF n # NoId /\ own # {} /\ NameTaken(n, own)
     THEN Answer(a, "error") /\ UNCHANGED connections
     ELSE /\ connections' = IF n = NoId THEN connections
                            ELSE UpdateConnectionNameRow(admin[a].conn, n)
          /\ Answer(a, "updated")
  /\ UNCHANGED <<channels, drawn>>

(* deleteConnection: a connection that is gone is an error.                *)
DeleteConnection(a, c) ==
  /\ "delete" \in AdminOps
  /\ admin[a].pc = "idle" /\ c \in drawn
  /\ IF GetConnectionByID(c) = {}
     THEN Answer(a, "error") /\ UNCHANGED <<connections, channels>>
     ELSE /\ connections' = DeleteConnectionRow(c)
          /\ channels' = Cascade(channels, c)
          /\ Answer(a, "deleted")
  /\ UNCHANGED drawn

(* Steps that change no connection a sync job refers to.                   *)
AdminStep(a) ==
  \/ \E c \in Conns, n \in Names, p \in Props, secret, link \in BOOLEAN :
       CreateConnection(a, c, n, p, secret, link)
  \/ \E c \in Conns, p \in Props : FindLink(a, c, p)
  \/ \E h \in Chans : ConnectChannel(a, h)
  \/ \E h \in Chans, p \in Props, op \in {"pause", "resume", "disconnect"} :
       SetChannelState(a, h, p, op)
  \/ \E c \in Conns, n \in Names \cup {NoId},
        s \in {"", "active", "inactive", "disabled"} :
       UpdateConnection(a, c, n, s)
  \/ UpdateStatus(a) \/ UpdateName(a) \/ AdminFails(a)

ChNext == \E a \in Admins : AdminStep(a) \/ \E c \in Conns : DeleteConnection(a, c)

ChSpec == ChInit /\ [][ChNext]_chVars

-----------------------------------------------------------------------------
ChTypeOK ==
  /\ connections \subseteq Connection
  /\ channels \subseteq Channel
  /\ drawn \subseteq Conns \cup Chans
  /\ admin \in [Admins -> AdminState]

(* Two requests that link one property to one connection at the same time  *)
(* both find no channel: still at most one row is made, on a connection    *)
(* that exists, or every push would go out twice.                          *)
OneChannelPerConnection ==
  /\ \A h, k \in channels : h.prop = k.prop /\ h.conn = k.conn => h = k
  /\ \A h \in channels : \E r \in connections : r.id = h.conn

(* No two connections share provider and name, renames included.           *)
NamesUnique == \A r, q \in connections : r.name = q.name \/ r.id = q.id => r = q
=============================================================================
