-------------------------- MODULE MCDirectBooking --------------------------
(* Small instances of DirectBooking for TLC.                               *)
EXTENDS DirectBooking

CONSTANTS w1, w2, p1

Request(kind, prop, key, hash, stays, booking) ==
  [kind |-> kind, prop |-> prop, key |-> key, hash |-> hash,
   stays |-> stays, booking |-> booking]

(* One request for a stay of two rooms.                                    *)
OneRequest == { Request("create", p1, 1, 1, 2, 0) }

(* A key used again with another payload, a booking of another key, a      *)
(* booking that is mirrored after it was made at the PMS, and the          *)
(* cancellation of the first booking.                                      *)
ReusedKey == { Request("create", p1, 1, 1, 1, 0),
               Request("create", p1, 1, 2, 1, 0),
               Request("create", p1, 2, 1, 2, 0),
               Request("mirror", p1, 3, 1, 1, 4),
               Request("cancel", p1, 4, 1, 1, 1) }

MCKeys == { ReservationKey(r, i) : r \in Requests, i \in 0..1 }

MCWorkers == {w1, w2}
MCOneWorker == {w1}
AllFaults == {"get", "pms", "put", "reply", "expiry"}
=============================================================================
