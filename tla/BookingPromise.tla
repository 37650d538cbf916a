--------------------------- MODULE BookingPromise ---------------------------
(***************************************************************************)
(* What the storefront promises a booking engine that sends create_booking *)
(* with an idempotency key, however often it repeats the request: one      *)
(* booking is made under the key, and every answer names that booking.     *)
(***************************************************************************)
EXTENDS Naturals

CONSTANTS
  Scopes,     (* (property, idempotency key) pairs                         *)
  Bookings    (* confirmation numbers                                      *)

VARIABLES
  booked,     (* booked[s]: the bookings made under scope s                *)
  told        (* told[s]: the bookings answers under scope s have named    *)

promiseVars == <<booked, told>>

PromiseInit ==
  /\ booked = [s \in Scopes |-> {}]
  /\ told = [s \in Scopes |-> {}]

(* The one booking of a scope is made.                                     *)
Book(s, b) ==
  /\ booked[s] = {}
  /\ booked' = [booked EXCEPT ![s] = {b}]
  /\ UNCHANGED told

(* An answer names the booking made under its scope.                       *)
Tell(s, b) ==
  /\ b \in booked[s]
  /\ told' = [told EXCEPT ![s] = @ \cup {b}]
  /\ UNCHANGED booked

PromiseNext ==
  \E s \in Scopes, b \in Bookings : Book(s, b) \/ Tell(s, b)

PromiseSpec == PromiseInit /\ [][PromiseNext]_promiseVars
=============================================================================
