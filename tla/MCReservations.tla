--------------------------- MODULE MCReservations ---------------------------
(* Small instances of Reservations for TLC.                                *)
EXTENDS RepeatedRecords

CONSTANTS w1, w2, conn1, e1, e2, k1, k2

Persist(op, conn, ext, status, key) ==
  [op |-> op, conn |-> conn, ext |-> ext, status |-> status, key |-> key]

(* A channel booking fetched twice under two keys (as booked, then as      *)
(* cancelled), and a booking of the PMS recorded under a third.            *)
MCCalls ==
  { Persist("ingest", conn1, e1, "confirmed", k1),
    Persist("ingest", conn1, e1, "cancelled", None),
    Persist("record", None, e2, "confirmed", k2) }

(* One direct booking.                                                     *)
MCDirectCalls == { Persist("record", None, e2, "confirmed", k2) }

MCWorkers == {w1, w2}
MCOneWorker == {w1}
=============================================================================
