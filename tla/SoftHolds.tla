----------------------------- MODULE SoftHolds -----------------------------
(***************************************************************************)
(* Soft holds of the storefront: get_quote and the availability searches,  *)
(* exact and flexible, over the Redis HoldStore, for one property.         *)
(*                                                                         *)
(* A hold is a Redis key per token with a time to live, and the property   *)
(* has a set that indexes its tokens.  A request reads the index, then     *)
(* each hold, prunes the tokens whose hold was gone, decides, asks the PMS *)
(* for a quote and places its hold: each Redis call is one step, and       *)
(* nothing keeps other requests out in between.  A flexible search reads   *)
(* the holds anew for every stay it may offer.                             *)
(***************************************************************************)
EXTENDS Integers, FiniteSets, Functions

CONSTANTS
  Guests,      (* booking engine visitors                                  *)
  Workers,     (* request goroutines                                       *)
  Tokens,      (* uuids for hold tokens (bound: as many holds are created) *)
  Stays,       (* stays a guest may ask for: physical rooms and nights     *)
  Windows,     (* sets of stays the PMS may answer one search with         *)
  None,        (* no hold, no token                                        *)
  MaxRequests  (* bound: requests                                          *)

ASSUME HoldsAssumption ==
  /\ None \notin Tokens
  /\ MaxRequests \in Nat
  /\ Windows \subseteq (SUBSET Stays) \ {{}}
  /\ \A s \in Stays : s.from \in Int /\ s.to \in Int /\ s.from < s.to

VARIABLES
  hold,      (* hold[t]: the hold stored under token t, or None            *)
  index,     (* the property's set of tokens                               *)
  req,       (* req[w]: the request worker w handles                       *)
  client,    (* client[g]: the token guest g was last given, or None       *)
  issued,    (* the tokens drawn so far                                    *)
  requests,  (* requests so far (bound)                                    *)
  unseen,    (* history: unseen[t] is the set of tokens placed while the   *)
             (* request that placed t was under way                        *)
  strayed    (* history: guests that lost an answer, or sent a request     *)
             (* before the last one was answered                           *)

vars == <<hold, index, req, client, issued, requests, unseen, strayed>>

-----------------------------------------------------------------------------
Hold == [stay : Stays, guest : Guests]
Phases == {"idle", "list", "load", "pms", "place", "done"}
Outcomes == {"none", "held", "refused", "unavailable", "answered", "error"}

(* todo, found, stale: the holds still to read, those read, and the tokens *)
(* without a hold.  left, offered: the stays of a search still to check,   *)
(* and those it will offer.  since: history, for a stay the tokens placed  *)
(* since the list was read for it.  by: history, the owners of the holds   *)
(* that refused this request.                                              *)
Request ==
  [pc : Phases, kind : {"quote", "search"}, guest : Guests, stay : Stays,
   token : Tokens \cup {None}, todo : SUBSET Tokens,
   found : SUBSET [token : Tokens, hold : Hold], stale : SUBSET Tokens,
   left : SUBSET Stays, offered : SUBSET Stays,
   since : [Stays -> SUBSET Tokens], by : SUBSET Guests, outcome : Outcomes]

Idle == [pc |-> "idle"]

(* Stays are half-open: a checkout on the day of a checkin does not        *)
(* overlap it.                                                             *)
Overlaps(s, t) == s.from < t.to /\ t.from < s.to

SharesRoom(s, t) == Range(s.rooms) \cap Range(t.rooms) # {}

(* The rooms are compared as one joined string, in the order given.        *)
SameStay(s, t) == s = t

(* The two stays cannot both be sold.                                      *)
Rivals(s, t) == Overlaps(s, t) /\ SharesRoom(s, t)

(* Mutant: a hold names one room, as it did before it could name several.  *)
BlocksSameRooms(f, r) ==
  /\ r.token # None => f.token # r.token
  /\ ~SameStay(f.hold.stay, r.stay)
  /\ f.hold.stay.rooms = r.stay.rooms /\ Overlaps(f.hold.stay, r.stay)

(* The hold f refuses a quote: it is not the guest's own, not for the very *)
(* same stay, and overlaps it in a room.                                   *)
Blocks(f, r) ==
  /\ r.token # None => f.token # r.token
  /\ ~SameStay(f.hold.stay, r.stay)
  /\ Rivals(f.hold.stay, r.stay)

(* The hold f hides a stay from a search, whoever searches.                *)
Hides(f, r) == Rivals(f.hold.stay, r.stay)

Init ==
  /\ hold = [t \in Tokens |-> None]
  /\ index = {}
  /\ req = [w \in Workers |-> Idle]
  /\ client = [g \in Guests |-> None]
  /\ issued = {}
  /\ requests = 0
  /\ unseen = [t \in Tokens |-> {}]
  /\ strayed = {}

Busy(g) == \E w \in Workers : req[w].pc # "idle" /\ req[w].guest = g

NothingSince == [s \in Stays |-> {}]

Arrive(w, g, s, kind, token, others) ==
  /\ req[w].pc = "idle"
  /\ requests < MaxRequests
  /\ req' = [req EXCEPT ![w] =
       [pc |-> "list", kind |-> kind, guest |-> g, stay |-> s, token |-> token,
        todo |-> {}, found |-> {}, stale |-> {}, left |-> others,
        offered |-> {}, since |-> NothingSince, by |-> {}, outcome |-> "none"]]
  /\ requests' = requests + 1
  /\ strayed' = IF Busy(g) THEN strayed \cup {g} ELSE strayed
  /\ UNCHANGED <<hold, index, client, issued, unseen>>

(* get_quote arrives with the token of the guest's previous quote.         *)
ArriveQuote(w, g, s) == Arrive(w, g, s, "quote", client[g], {})

(* A search asks the PMS before it reads any hold: an exact search for one *)
(* stay, a flexible one for the stays of its window.  It knows no token.   *)
ArriveSearch(w, g, s, window) ==
  s \in window /\ Arrive(w, g, s, "search", None, window \ {s})

(* SMEMBERS of the index.                                                  *)
ListHolds(w) ==
  /\ req[w].pc = "list"
  /\ req' = [req EXCEPT ![w] = [@ EXCEPT !.pc = "load", !.todo = index]]
  /\ UNCHANGED <<hold, index, client, issued, requests, unseen, strayed>>

(* Mutant: a hold that is gone is used as if it were there.                *)
LoadHoldUnchecked(w) ==
  /\ req[w].pc = "load"
  /\ \E t \in req[w].todo :
       req' = [req EXCEPT ![w] =
         [@ EXCEPT !.todo = @ \ {t},
                   !.found = @ \cup {[token |-> t, hold |-> hold[t]]}]]
  /\ UNCHANGED <<hold, index, client, issued, requests, unseen, strayed>>

(* GET of one hold; a token without a hold is remembered as stale.         *)
Loaded(r, t) ==
  IF hold[t] = None THEN [r EXCEPT !.todo = @ \ {t}, !.stale = @ \cup {t}]
  ELSE [r EXCEPT !.todo = @ \ {t},
                 !.found = @ \cup {[token |-> t, hold |-> hold[t]]}]

LoadHold(w) ==
  /\ req[w].pc = "load"
  /\ \E t \in req[w].todo :
       req' = [req EXCEPT ![w] = Loaded(req[w], t)]
  /\ UNCHANGED <<hold, index, client, issued, requests, unseen, strayed>>

(* The index after SREM of the stale tokens, whose failure is ignored.     *)
Pruned(r) == {index \ r.stale, index}

(* Mutant: the holds read for the first stay serve the whole window.       *)
SearchedOnce(r) ==
  LET hidden == \E f \in r.found : Hides(f, r)
      decided == [r EXCEPT !.offered = IF hidden THEN @ ELSE @ \cup {r.stay}]
  IN
  IF r.left = {} THEN {[decided EXCEPT !.pc = "done", !.outcome = "answered"]}
  ELSE {[decided EXCEPT !.stay = s, !.left = @ \ {s}] : s \in r.left}

(* A search offers the stay unless a hold touches one of its rooms; a      *)
(* flexible one goes on with another stay of its window.                   *)
Searched(r) ==
  LET hidden == \E f \in r.found : Hides(f, r)
      decided == [r EXCEPT
        !.todo = {}, !.found = {}, !.stale = {},
        !.offered = IF hidden THEN @ ELSE @ \cup {r.stay},
        !.since[r.stay] = IF hidden THEN {} ELSE @]
  IN
  IF r.left = {} THEN {[decided EXCEPT !.pc = "done", !.outcome = "answered"]}
  ELSE {[decided EXCEPT !.pc = "list", !.stay = s, !.left = @ \ {s}] :
          s \in r.left}

(* A quote goes on to the PMS unless a hold refuses it.                    *)
Checked(r) ==
  LET blocks == {f \in r.found : Blocks(f, r)} IN
    IF blocks = {} THEN {[r EXCEPT !.pc = "pms"]}
    ELSE {[r EXCEPT !.pc = "done", !.outcome = "refused",
                    !.by = {f.hold.guest : f \in blocks}]}

(* ActiveForProperty ends, and the request decides on what it returned.    *)
PruneAndDecide(w) ==
  /\ req[w].pc = "load" /\ req[w].todo = {}
  /\ index' \in Pruned(req[w])
  /\ \E r \in IF req[w].kind = "search" THEN Searched(req[w])
             ELSE Checked(req[w]) :
       req' = [req EXCEPT ![w] = r]
  /\ UNCHANGED <<hold, client, issued, requests, unseen, strayed>>

(* The PMS quotes the rooms it was asked for, or finds them unavailable.   *)
PmsQuotes(w) ==
  /\ req[w].pc = "pms"
  /\ \/ req' = [req EXCEPT ![w].pc = "place"]
     \/ req' = [req EXCEPT ![w] =
                  [@ EXCEPT !.pc = "done", !.outcome = "unavailable"]]
  /\ UNCHANGED <<hold, index, client, issued, requests, unseen, strayed>>

(* Mutant: every quote gets a token of its own.                            *)
HoldTokensFresh(r) == Tokens \ issued

(* The token a quote's hold is placed under: the guest's own, refreshed,   *)
(* or a new uuid.                                                          *)
HoldTokens(r) == IF r.token # None THEN {r.token} ELSE Tokens \ issued

(* History: the stays whose holds request r has begun to read.             *)
StaysRead(r) ==
  IF r.pc = "idle" THEN {}
  ELSE r.offered \cup (IF r.pc \in {"load", "pms", "place"} THEN {r.stay} ELSE {})

PlacedMeanwhile(r, t) ==
  IF StaysRead(r) = {} THEN r
  ELSE [r EXCEPT !.since = [s \in Stays |->
          IF s \in StaysRead(r) THEN @[s] \cup {t} ELSE @[s]]]

(* MULTI: SET of the hold and SADD of its token.  The transaction may be   *)
(* applied and its answer lost: then the request fails.                    *)
Placed(r, t, outcome) ==
  [r EXCEPT !.pc = "done", !.outcome = outcome, !.token = t]

PlaceHold(w) ==
  /\ req[w].pc = "place"
  /\ \E t \in HoldTokens(req[w]), outcome \in {"held", "error"} :
       /\ hold' = [hold EXCEPT ![t] =
                     [stay |-> req[w].stay, guest |-> req[w].guest]]
       /\ index' = index \cup {t}
       /\ issued' = issued \cup {t}
       /\ unseen' = [unseen EXCEPT ![t] = req[w].since[req[w].stay]]
       /\ req' = [v \in Workers |-> IF v = w THEN Placed(req[w], t, outcome)
                                   ELSE PlacedMeanwhile(req[v], t)]
  /\ UNCHANGED <<client, requests, strayed>>

(* A Redis call fails before it changes anything, or the PMS call fails.   *)
CallFails(w) ==
  /\ req[w].pc \in {"list", "load", "pms", "place"}
  /\ req' = [req EXCEPT ![w] = [@ EXCEPT !.pc = "done", !.outcome = "error"]]
  /\ UNCHANGED <<hold, index, client, issued, requests, unseen, strayed>>

(* The answer leaves: the guest keeps the token of its hold.  An answer    *)
(* that is lost, or an error, leaves the guest with the token it had.      *)
Answer(w) ==
  LET r == req[w] IN
  /\ r.pc = "done"
  /\ \/ /\ client' = IF r.outcome = "held"
                     THEN [client EXCEPT ![r.guest] = r.token] ELSE client
        /\ strayed' = IF r.outcome = "error"
                      THEN strayed \cup {r.guest} ELSE strayed
     \/ /\ strayed' = strayed \cup {r.guest}
        /\ UNCHANGED client
  /\ req' = [req EXCEPT ![w] = Idle]
  /\ UNCHANGED <<hold, index, issued, requests, unseen>>

(* The time to live of a hold is over.                                     *)
ExpireHold(t) ==
  /\ hold[t] # None
  /\ hold' = [hold EXCEPT ![t] = None]
  /\ UNCHANGED <<index, req, client, issued, requests, unseen, strayed>>

RequestStep(w) ==
  \/ ListHolds(w)
  \/ LoadHold(w)
  \/ PruneAndDecide(w)
  \/ PmsQuotes(w)
  \/ PlaceHold(w)
  \/ CallFails(w)
  \/ Answer(w)

Next ==
  \/ \E w \in Workers, g \in Guests, s \in Stays :
       \/ ArriveQuote(w, g, s)
       \/ \E window \in Windows : ArriveSearch(w, g, s, window)
  \/ \E w \in Workers : RequestStep(w)
  \/ \E t \in Tokens : ExpireHold(t)

Spec == Init /\ [][Next]_vars

-----------------------------------------------------------------------------
(* Properties.                                                             *)

Live(t) == hold[t] # None
Listed(t) == Live(t) /\ t \in index

(* Holds and requests are well formed, and a stored or listed token was    *)
(* drawn for a quote (Hold, HoldStore.Place).                              *)
TypeOK ==
  /\ hold \in [Tokens -> Hold \cup {None}]
  /\ index \subseteq issued
  /\ req \in [Workers -> Request \cup {Idle}]
  /\ client \in [Guests -> issued \cup {None}]
  /\ issued \subseteq Tokens
  /\ \A t \in Tokens : Live(t) => t \in issued
  /\ unseen \in [Tokens -> SUBSET Tokens]
  /\ strayed \subseteq Guests

(* Two listed holds compete for a room only when they are for the very     *)
(* same stay, or when neither request could see the other's hold because   *)
(* they were under way together: whatever expires, is pruned, refreshed or *)
(* moved to other nights meanwhile (getQuote's check of the active holds). *)
RivalsOnlyIfConcurrent ==
  \A t, u \in Tokens :
    (t # u /\ Listed(t) /\ Listed(u)
       /\ Rivals(hold[t].stay, hold[u].stay)
       /\ ~SameStay(hold[t].stay, hold[u].stay))
    => t \in unseen[u] \/ u \in unseen[t]

(* A guest that received its answers and sends one request at a time is    *)
(* never refused by a hold of its own, whatever stay it asks for next:     *)
(* what the reuse of the token is for (getQuote).                          *)
OwnHoldNeverRefuses ==
  \A w \in Workers : req[w].pc = "done" /\ req[w].outcome = "refused" =>
    req[w].by # {req[w].guest} \/ req[w].guest \in strayed

(* Availability is "PMS inventory minus in-flight storefront holds": a     *)
(* stay that a search offers competes with no listed hold older than the   *)
(* reading of the holds for it, however long ago that was in a flexible    *)
(* search (heldRooms, searchAvailability, searchFlexibleAvailability).     *)
SearchHidesHolds ==
  \A w \in Workers, t \in Tokens :
    (req[w].pc # "idle" /\ Listed(t)) =>
      \A s \in req[w].offered :
        Rivals(hold[t].stay, s) => t \in req[w].since[s]

=============================================================================
