----------------------------- MODULE PromoCodes -----------------------------
(***************************************************************************)
(* Promotional codes and their redemption counter: the pricing service's   *)
(* PromoService over PromoRepository (table pricing.promo_codes), called   *)
(* by the storefront's redeem_promo and release_promo actions.             *)
(*                                                                         *)
(* A code of Codes stands for one pair (org_id, code): the table has       *)
(* UNIQUE (org_id, code), codes are upper-cased before every query, and    *)
(* every statement carries the org_id predicate.                           *)
(*                                                                         *)
(* A checkout of Checkouts is one redeem_promo call and what its caller, a *)
(* booking engine outside this repository, does next: book, and when the   *)
(* booking fails call release_promo, again when the reply is lost.  Each   *)
(* SQL statement is one step, so steps of concurrent calls interleave      *)
(* between the statements of a call.                                       *)
(***************************************************************************)
EXTENDS Integers, FiniteSets

CONSTANTS
  Codes,            (* (org, code) pairs                                   *)
  Checkouts,        (* redeem_promo calls                                  *)
  Properties,       (* property ids                                        *)
  Terms,            (* the definitions an operator may submit for a code   *)
  Null,             (* SQL NULL: no scope, no limit, no bound of validity  *)
  MaxTime,          (* bound: last instant of the clock                    *)
  MaxRows,          (* bound: rows ever inserted for one code              *)
  MaxReleaseCalls   (* bound: release_promo calls a caller makes           *)

ASSUME BoundsAssumption ==
  /\ MaxTime \in Nat
  /\ MaxRows \in Nat
  /\ MaxReleaseCalls \in Nat

ASSUME CheckoutsAssumption == IsFiniteSet(Checkouts)

ASSUME NullAssumption == Null \notin Int /\ Null \notin Properties

OptionalInt == Int \cup {Null}

ASSUME TermsAssumption ==
  Terms \subseteq [ property   : Properties \cup {Null},
                    maxUses    : OptionalInt,
                    validFrom  : OptionalInt,
                    validUntil : OptionalInt,
                    isActive   : BOOLEAN ]

VARIABLES
  promo,        (* promo[c]: the row of code c, or NoPromo                 *)
  created,      (* created[c]: rows inserted for c so far (bound)          *)
  now,          (* the clock PromoService.now reads                        *)
  call,         (* call[k]: progress of checkout k                         *)
  outstanding   (* history: outstanding[c] is the set of checkouts whose   *)
                (* redemption of c's current row was not given back        *)

vars == <<promo, created, now, call, outstanding>>

-----------------------------------------------------------------------------
(* The row and its rules.                                                  *)

NoPromo == Null
PromoRow == [terms : Terms, uses : Int]

Reasons == {"none", "not_found", "inactive", "wrong_property",
            "not_yet_valid", "expired", "exhausted"}

CallState == {"idle", "started", "diagnose", "redeemed", "lost", "refused",
              "error", "booked", "releasing", "released"}

CallRecord ==
  [pc : CallState, code : Codes \cup {Null}, property : Properties \cup {Null},
   at : 0..MaxTime, releases : 0..MaxReleaseCalls, reason : Reasons]

AppliesToProperty(t, p) == t.property = Null \/ t.property = p

Exhausted(row) == row.terms.maxUses # Null /\ row.uses >= row.terms.maxUses

(* PromoCode.Validate: the first rule the code breaks, in source order.    *)
Validate(row, at, p) ==
  IF ~row.terms.isActive THEN "inactive"
  ELSE IF ~AppliesToProperty(row.terms, p) THEN "wrong_property"
  ELSE IF row.terms.validFrom # Null /\ at < row.terms.validFrom
    THEN "not_yet_valid"
  ELSE IF row.terms.validUntil # Null /\ at >= row.terms.validUntil
    THEN "expired"
  ELSE IF Exhausted(row) THEN "exhausted"
  ELSE "none"

(* What a read of code c tells a caller: GetByCode, then Validate.         *)
Diagnosis(c, at, p) ==
  IF promo[c] = NoPromo THEN "not_found" ELSE Validate(promo[c], at, p)

(* Mutant: Redeem without the limit in its WHERE clause.                   *)
RedeemMatchesUnlimited(row, at, p) ==
  /\ row.terms.isActive
  /\ row.terms.property # Null => row.terms.property = p
  /\ row.terms.validFrom # Null => row.terms.validFrom <= at
  /\ row.terms.validUntil # Null => row.terms.validUntil > at

(* The WHERE clause of the conditional UPDATE.                             *)
RedeemMatches(row, at, p) ==
  /\ row.terms.isActive
  /\ row.terms.property # Null => row.terms.property = p
  /\ row.terms.validFrom # Null => row.terms.validFrom <= at
  /\ row.terms.validUntil # Null => row.terms.validUntil > at
  /\ row.terms.maxUses # Null => row.uses < row.terms.maxUses

(* Mutant: the table without its uses-within-max constraint.               *)
CheckConstraintsNoLimit(row) ==
  /\ row.uses >= 0
  /\ row.terms.maxUses # Null => row.terms.maxUses > 0
  /\ (row.terms.validFrom # Null /\ row.terms.validUntil # Null)
       => row.terms.validUntil > row.terms.validFrom

(* The CHECK constraints of pricing.promo_codes that mention these columns. *)
CheckConstraints(row) ==
  /\ row.uses >= 0
  /\ row.terms.maxUses # Null => /\ row.terms.maxUses > 0
                                 /\ row.uses <= row.terms.maxUses
  /\ (row.terms.validFrom # Null /\ row.terms.validUntil # Null)
       => row.terms.validUntil > row.terms.validFrom

NewRow(t) == [terms |-> t, uses |-> 0]

-----------------------------------------------------------------------------
Init ==
  /\ promo = [c \in Codes |-> NoPromo]
  /\ created = [c \in Codes |-> 0]
  /\ now = 0
  /\ call = [k \in Checkouts |->
               [pc |-> "idle", code |-> Null, property |-> Null, at |-> 0,
                releases |-> 0, reason |-> "none"]]
  /\ outstanding = [c \in Codes |-> {}]

Tick ==
  /\ now < MaxTime
  /\ now' = now + 1
  /\ UNCHANGED <<promo, created, call, outstanding>>

(* CreatePromo: the service's checks, then the INSERT under UNIQUE         *)
(* (org_id, code) and the CHECK constraints.                               *)
CreatePromo(c, t) ==
  /\ created[c] < MaxRows
  /\ promo[c] = NoPromo
  /\ t.maxUses # Null => t.maxUses > 0
  /\ (t.validFrom # Null /\ t.validUntil # Null) => t.validUntil > t.validFrom
  /\ CheckConstraints(NewRow(t))
  /\ promo' = [promo EXCEPT ![c] = NewRow(t)]
  /\ created' = [created EXCEPT ![c] = @ + 1]
  /\ UNCHANGED <<now, call, outstanding>>

(* Mutant: an edit that writes the whole row, its counter included.        *)
UpdatePromoResetsUses(c, t) ==
  /\ promo[c] # NoPromo
  /\ CheckConstraints(NewRow(t))
  /\ promo' = [promo EXCEPT ![c] = NewRow(t)]
  /\ UNCHANGED <<created, now, call, outstanding>>

(* UpdatePromo: rewrites every column but uses.  A row that breaks a CHECK *)
(* fails the statement and nothing changes.                                *)
UpdatePromo(c, t) ==
  /\ promo[c] # NoPromo
  /\ LET row == [promo[c] EXCEPT !.terms = t] IN
       /\ CheckConstraints(row)
       /\ promo' = [promo EXCEPT ![c] = row]
  /\ UNCHANGED <<created, now, call, outstanding>>

(* DeletePromo: the row goes, with the redemptions it counted.             *)
DeletePromo(c) ==
  /\ promo[c] # NoPromo
  /\ promo' = [promo EXCEPT ![c] = NoPromo]
  /\ outstanding' = [outstanding EXCEPT ![c] = {}]
  /\ UNCHANGED <<created, now, call>>

(* redeem_promo arrives; PromoService.Redeem reads the clock once.         *)
StartRedeem(k, c, p) ==
  /\ call[k].pc = "idle"
  /\ call' = [call EXCEPT ![k] = [@ EXCEPT !.pc = "started", !.code = c,
                                           !.property = p, !.at = now]]
  /\ UNCHANGED <<promo, created, now, outstanding>>

(* The conditional UPDATE matches: the counter moves, unless a CHECK       *)
(* constraint fails the statement.  The reply may be lost.                 *)
RedeemCounts(k) ==
  LET c == call[k].code
      row == [promo[c] EXCEPT !.uses = @ + 1]
  IN /\ call[k].pc = "started"
     /\ promo[c] # NoPromo
     /\ RedeemMatches(promo[c], call[k].at, call[k].property)
     /\ IF CheckConstraints(row)
        THEN /\ promo' = [promo EXCEPT ![c] = row]
             /\ outstanding' = [outstanding EXCEPT ![c] = @ \cup {k}]
             /\ \E reply \in {"redeemed", "lost"} :
                  call' = [call EXCEPT ![k].pc = reply]
        ELSE /\ call' = [call EXCEPT ![k].pc = "error"]
             /\ UNCHANGED <<promo, outstanding>>
     /\ UNCHANGED <<created, now>>

(* The conditional UPDATE matches no row: the call goes on to find out why. *)
RedeemMisses(k) ==
  LET c == call[k].code IN
  /\ call[k].pc = "started"
  /\ (promo[c] # NoPromo) =>
       ~RedeemMatches(promo[c], call[k].at, call[k].property)
  /\ call' = [call EXCEPT ![k].pc = "diagnose"]
  /\ UNCHANGED <<promo, created, now, outstanding>>

(* The reason redeem_promo reports after its second read.                  *)
RefusalReason(diagnosis) ==
  IF diagnosis = "none" THEN "exhausted" ELSE diagnosis

(* The second, unconditional read; its instant is the UPDATE's own "at".   *)
DiagnoseRefusal(k) ==
  LET diagnosis == Diagnosis(call[k].code, call[k].at, call[k].property) IN
  /\ call[k].pc = "diagnose"
  /\ call' = [call EXCEPT ![k] =
                [@ EXCEPT !.pc = "refused",
                          !.reason = RefusalReason(diagnosis)]]
  /\ UNCHANGED <<promo, created, now, outstanding>>

(* The caller's booking, outside this module: it stands or it fails.       *)
BookingOutcome(k) ==
  /\ call[k].pc = "redeemed"
  /\ \E outcome \in {"booked", "releasing"} :
       call' = [call EXCEPT ![k].pc = outcome]
  /\ UNCHANGED <<promo, created, now, outstanding>>

(* Mutant: the clamp is off by one.                                        *)
ReleasedAboveOne(row) ==
  IF row.uses > 1 THEN [row EXCEPT !.uses = @ - 1] ELSE row

(* The row of code c after a release: one use back, clamped at zero.       *)
Released(row) == IF row.uses > 0 THEN [row EXCEPT !.uses = @ - 1] ELSE row

(* release_promo: an unconditional decrement by code.  The booking engine  *)
(* that gets no reply calls again.                                         *)
ReleaseRedemption(k) ==
  LET c == call[k].code IN
  /\ call[k].pc = "releasing"
  /\ call[k].releases < MaxReleaseCalls
  /\ promo' = IF promo[c] = NoPromo THEN promo
              ELSE [promo EXCEPT ![c] = Released(@)]
  /\ outstanding' = [outstanding EXCEPT ![c] = @ \ {k}]
  /\ \E reply \in {"released", "releasing"} :
       call' = [call EXCEPT ![k] = [@ EXCEPT !.pc = reply,
                                             !.releases = call[k].releases + 1]]
  /\ UNCHANGED <<created, now>>

CheckoutStep(k) ==
  \/ \E c \in Codes, p \in Properties : StartRedeem(k, c, p)
  \/ RedeemCounts(k)
  \/ RedeemMisses(k)
  \/ DiagnoseRefusal(k)
  \/ BookingOutcome(k)
  \/ ReleaseRedemption(k)

OperatorStep(c) ==
  \/ \E t \in Terms : CreatePromo(c, t)
  \/ \E t \in Terms : UpdatePromo(c, t)
  \/ DeletePromo(c)

Next ==
  \/ Tick
  \/ \E k \in Checkouts : CheckoutStep(k)
  \/ \E c \in Codes : OperatorStep(c)

Spec == Init /\ [][Next]_vars

-----------------------------------------------------------------------------
(* Properties.                                                             *)

(* Every variable has its type, a call past its start names a code, and    *)
(* every refusal of redeem_promo carries a reason (promoReason).           *)
TypeOK ==
  /\ promo \in [Codes -> PromoRow \cup {NoPromo}]
  /\ created \in [Codes -> 0..MaxRows]
  /\ now \in 0..MaxTime
  /\ call \in [Checkouts -> CallRecord]
  /\ outstanding \in [Codes -> SUBSET Checkouts]
  /\ \A k \in Checkouts :
       /\ call[k].pc # "idle" => call[k].code \in Codes
       /\ call[k].pc = "refused" => call[k].reason # "none"

(* So far every redemption of c was released once at most, and the code    *)
(* string was not reused.                                                  *)
ReleasedOnce(c) ==
  /\ created[c] <= 1
  /\ \A k \in Checkouts : call[k].code = c => call[k].releases <= 1

(* No interleaving of redemptions, releases and operator edits leaves a    *)
(* counter below zero or above its limit: "only a single writer can make   *)
(* MaxUses hold" (PromoCode, PromoRepository.Redeem and Update).           *)
UsesWithinMax ==
  \A c \in Codes : promo[c] # NoPromo =>
    /\ promo[c].uses >= 0
    /\ promo[c].terms.maxUses # Null => promo[c].uses <= promo[c].terms.maxUses

(* A redemption is refused by a rule and never by the database's backstop: *)
(* the WHERE clause of Redeem is at least as strict as the CHECK           *)
(* constraints, whatever an operator changed since the code was looked up. *)
BackstopNeverFires ==
  \A k \in Checkouts : call[k].pc # "error"

(* The counter never claims more redemptions than callers hold, so no      *)
(* guest is told "exhausted" by capacity that nobody has: every failed     *)
(* booking's release does give its use back, clamp and deletes included    *)
(* (PromoRepository.ReleaseRedemption).                                    *)
CounterBacked ==
  \A c \in Codes : promo[c] # NoPromo =>
    promo[c].uses <= Cardinality(outstanding[c])

(* As long as no redemption of a code is released twice and its code       *)
(* string is not reused, its counter is exactly the number of redemptions  *)
(* not given back (PromoService.Redeem and ReleaseRedemption).             *)
CounterExact ==
  \A c \in Codes : (promo[c] # NoPromo /\ ReleasedOnce(c)) =>
    promo[c].uses = Cardinality(outstanding[c])

(* At most max_uses guests hold a redemption of a code: what max_uses is   *)
(* for.  ReleaseRedemption is keyed by code alone, so this rests on        *)
(* callers that release once, and on codes that are not reused.            *)
OutstandingWithinMax ==
  \A c \in Codes :
    (promo[c] # NoPromo /\ promo[c].terms.maxUses # Null)
      => Cardinality(outstanding[c]) <= promo[c].terms.maxUses

-----------------------------------------------------------------------------
(* Inductive strengthenings.                                               *)

(* Every stored row satisfies the table's constraints.                     *)
RowsPassChecks ==
  \A c \in Codes : promo[c] # NoPromo => CheckConstraints(promo[c])

(* A call that has not run its UPDATE is not counted anywhere.             *)
NotYetCounted ==
  \A k \in Checkouts, c \in Codes :
    call[k].pc \in {"idle", "started"} => k \notin outstanding[c]

CounterInv ==
  /\ TypeOK
  /\ RowsPassChecks
  /\ NotYetCounted
  /\ BackstopNeverFires
  /\ CounterBacked

(* The caller's redemption has not been given back.                        *)
Holds(k) ==
  \/ call[k].pc \in {"redeemed", "booked", "lost"}
  \/ call[k].pc = "releasing" /\ call[k].releases = 0

SingleReleaseInv ==
  /\ \A k \in Checkouts : call[k].pc \notin {"releasing", "released"}
                            => call[k].releases = 0
  /\ \A k \in Checkouts : Holds(k) =>
       /\ created[call[k].code] # 0
       /\ (promo[call[k].code] # NoPromo /\ created[call[k].code] <= 1)
            => k \in outstanding[call[k].code]
  /\ \A c \in Codes : created[c] = 0 => promo[c] = NoPromo /\ outstanding[c] = {}
  /\ CounterExact
=============================================================================
