--------------------------- MODULE RepeatedRecords ---------------------------
(***************************************************************************)
(* When a booking without a channel connection may get a second row.  No   *)
(* index of the table covers it: the keys that persist remembers are all   *)
(* that stands between a repeated call and another INSERT.  A history      *)
(* variable follows Reservations and notes, per key, what that defence     *)
(* does not cover.                                                         *)
(***************************************************************************)
EXTENDS Reservations

VARIABLE excused  (* history: keys whose bookings may have a second row    *)

repVars == <<resVars, excused>>

(* Calls between their check and their mark.                               *)
InSave == {"lookup", "write", "mark"}

(* The check passes while another call under the key is past its own.      *)
Overlapped ==
  {k \in Keys : \E v, w \in Workers :
     /\ v # w /\ job[v].call.key = k /\ job[w].call.key = k
     /\ job[v].pc = "check" /\ job'[v].pc = "lookup" /\ job[w].pc \in InSave}

(* The INSERT commits and the caller hears of an error: nothing is marked. *)
CommitsUnheard ==
  {k \in Keys : \E w \in Workers :
     /\ job[w].call.key = k /\ job[w].pc = "write" /\ job'[w].outcome = "error"
     /\ rows' # rows}

(* The process stops when the key is marked, or about to be.               *)
Forgotten ==
  IF restarts' = restarts THEN {}
  ELSE {k \in Keys : \/ k \in seenKeys
                     \/ \E w \in Workers : job[w].call.key = k /\ job[w].pc = "mark"}

RepInit == ResInit /\ excused = {}

RepNext ==
  /\ ResNext
  /\ excused' = excused \cup Overlapped \cup CommitsUnheard \cup Forgotten

RepSpec == RepInit /\ [][RepNext]_repVars

-----------------------------------------------------------------------------
(* A caller gives every call for the booking the same key.                 *)
OneKey(ext, key) ==
  /\ key # None
  /\ \A c \in Calls : (c.conn = None /\ c.ext = ext) => c.key = key

(* A booking without a connection that is always recorded under one key    *)
(* gets a second row only if two calls overlapped between check and mark,  *)
(* an INSERT was committed but answered with an error, or the process      *)
(* restarted after the row was there (persist, Repository.Save).           *)
SecondRowExplained ==
  \A c \in Calls : \A i, j \in DOMAIN rows :
    /\ OneKey(c.ext, c.key) /\ c.key \notin excused
    /\ rows[i].conn = None /\ rows[i].ext = c.ext
    /\ rows[j].conn = None /\ rows[j].ext = c.ext
    => i = j
=============================================================================
