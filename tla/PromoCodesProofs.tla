-------------------------- MODULE PromoCodesProofs --------------------------
(***************************************************************************)
(* Proofs about PromoCodes for every set of codes, checkouts, properties   *)
(* and operator terms, and every bound.                                    *)
(***************************************************************************)
EXTENDS PromoCodes, FiniteSetTheorems, TLAPS

(* A code that is not absent has a row with the columns of the table.      *)
LEMMA RowType ==
  ASSUME TypeOK, NEW c \in Codes, promo[c] # NoPromo
  PROVE  /\ promo[c] \in PromoRow
         /\ promo[c].terms \in Terms
         /\ promo[c].uses \in Int
  BY DEF TypeOK, PromoRow

(* Every diagnosis is one of the reasons of promoReason.                   *)
LEMMA DiagnosisType ==
  ASSUME NEW c, NEW at, NEW p
  PROVE  Diagnosis(c, at, p) \in Reasons
  BY DEF Diagnosis, Validate, Reasons

(* Replacing one call by a well-formed record keeps the calls well-formed. *)
LEMMA CallUpdate ==
  ASSUME TypeOK, NEW k \in Checkouts, NEW r \in CallRecord,
         call' = [call EXCEPT ![k] = r],
         r.pc # "idle" => r.code \in Codes,
         r.pc = "refused" => r.reason # "none"
  PROVE  /\ call' \in [Checkouts -> CallRecord]
         /\ \A j \in Checkouts :
              /\ call'[j].pc # "idle" => call'[j].code \in Codes
              /\ call'[j].pc = "refused" => call'[j].reason # "none"
  BY DEF TypeOK

(* A submitted definition has the columns of the table.                    *)
LEMMA TermsType ==
  ASSUME NEW t \in Terms
  PROVE  /\ t.maxUses \in Int \cup {Null}
         /\ t.validFrom \in Int \cup {Null}
         /\ t.validUntil \in Int \cup {Null}
  BY TermsAssumption DEF OptionalInt

-----------------------------------------------------------------------------
(* Type correctness.                                                       *)

LEMMA TypeStep == TypeOK /\ [Next]_vars => TypeOK'
<1> SUFFICES ASSUME TypeOK, [Next]_vars PROVE TypeOK'
  OBVIOUS
<1> USE BoundsAssumption
<1>1. CASE Tick
  BY <1>1 DEF Tick, TypeOK
<1>2. ASSUME NEW c \in Codes, NEW t \in Terms, CreatePromo(c, t)
      PROVE  TypeOK'
  <2>1. NewRow(t) \in PromoRow
    BY DEF NewRow, PromoRow
  <2> QED
    BY <1>2, <2>1 DEF CreatePromo, TypeOK
<1>3. ASSUME NEW c \in Codes, NEW t \in Terms, UpdatePromo(c, t)
      PROVE  TypeOK'
  <2>1. [promo[c] EXCEPT !.terms = t] \in PromoRow
    BY <1>3, RowType DEF UpdatePromo, PromoRow
  <2> QED
    BY <1>3, <2>1 DEF UpdatePromo, TypeOK
<1>4. ASSUME NEW c \in Codes, DeletePromo(c)
      PROVE  TypeOK'
  BY <1>4 DEF DeletePromo, TypeOK
<1>5. ASSUME NEW k \in Checkouts, NEW c \in Codes, NEW p \in Properties,
             StartRedeem(k, c, p)
      PROVE  TypeOK'
  <2>1. call \in [Checkouts -> CallRecord] /\ now \in 0..MaxTime
    BY DEF TypeOK
  <2>2. PICK r \in CallRecord :
          r = [call[k] EXCEPT !.pc = "started", !.code = c, !.property = p, !.at = now]
    BY <2>1 DEF CallRecord, CallState
  <2>3. /\ call' = [call EXCEPT ![k] = r]
        /\ UNCHANGED <<promo, created, now, outstanding>>
    BY <1>5, <2>2 DEF StartRedeem
  <2>4. call' \in [Checkouts -> CallRecord]
    BY <2>1, <2>3
  <2>5. r.pc = "started" /\ r.code = c
    BY <2>1, <2>2 DEF CallRecord
  <2>6. ASSUME NEW j \in Checkouts
        PROVE  /\ call'[j].pc # "idle" => call'[j].code \in Codes
               /\ call'[j].pc = "refused" => call'[j].reason # "none"
    <3>1. CASE j = k
      BY <2>1, <2>3, <2>5, <3>1
    <3>2. CASE j # k
      <4>1. call'[j] = call[j]
        BY <2>1, <2>3, <3>2
      <4> QED
        BY <4>1 DEF TypeOK
    <3> QED
      BY <3>1, <3>2
  <2> QED
    BY <2>3, <2>4, <2>6 DEF TypeOK
<1>6. ASSUME NEW k \in Checkouts, RedeemCounts(k)
      PROVE  TypeOK'
  <2> DEFINE c == call[k].code
             row == [promo[c] EXCEPT !.uses = @ + 1]
  <2>1. c \in Codes /\ promo[c] # NoPromo
    BY <1>6 DEF RedeemCounts, TypeOK
  <2>2. row \in PromoRow
    BY <2>1, RowType DEF PromoRow
  <2> HIDE DEF row
  <2>3. CASE CheckConstraints(row)
    <3>1. PICK reply \in {"redeemed", "lost"} :
            call' = [call EXCEPT ![k].pc = reply]
      BY <1>6, <2>3 DEF RedeemCounts, row
    <3>2. call' \in [Checkouts -> CallRecord]
      BY <3>1 DEF TypeOK, CallRecord, CallState
    <3>3. promo' = [promo EXCEPT ![c] = row]
          /\ outstanding' = [outstanding EXCEPT ![c] = @ \cup {k}]
          /\ UNCHANGED <<created, now>>
      BY <1>6, <2>3 DEF RedeemCounts, row
    <3> QED
      BY <1>6, <2>1, <2>2, <3>1, <3>2, <3>3 DEF RedeemCounts, TypeOK, CallRecord
  <2>4. CASE ~CheckConstraints(row)
    <3>1. call' = [call EXCEPT ![k].pc = "error"]
          /\ UNCHANGED <<promo, outstanding, created, now>>
      BY <1>6, <2>4 DEF RedeemCounts, row
    <3> QED
      BY <2>1, <3>1 DEF TypeOK, CallRecord, CallState
  <2> QED
    BY <2>3, <2>4
<1>7. ASSUME NEW k \in Checkouts, RedeemMisses(k)
      PROVE  TypeOK'
  <2> DEFINE r == [call[k] EXCEPT !.pc = "diagnose"]
  <2>1. /\ call[k].pc = "started"
        /\ call' = [call EXCEPT ![k] = r]
        /\ UNCHANGED <<promo, created, now, outstanding>>
    BY <1>7 DEF RedeemMisses
  <2>2. r \in CallRecord /\ r.pc = "diagnose" /\ r.code \in Codes
    BY <2>1 DEF TypeOK, CallRecord, CallState
  <2> HIDE DEF r
  <2> QED
    BY <2>1, <2>2, CallUpdate DEF TypeOK
<1>8. ASSUME NEW k \in Checkouts, DiagnoseRefusal(k)
      PROVE  TypeOK'
  <2> DEFINE d == Diagnosis(call[k].code, call[k].at, call[k].property)
  <2>1. d \in Reasons
    BY DiagnosisType
  <2> DEFINE r == [call[k] EXCEPT !.pc = "refused", !.reason = RefusalReason(d)]
  <2>2. /\ call[k].pc = "diagnose"
        /\ call' = [call EXCEPT ![k] = r]
        /\ UNCHANGED <<promo, created, now, outstanding>>
    BY <1>8 DEF DiagnoseRefusal
  <2> HIDE DEF d
  <2>3. RefusalReason(d) \in Reasons /\ RefusalReason(d) # "none"
    BY <2>1 DEF RefusalReason, Reasons
  <2>4. /\ r \in CallRecord
        /\ r.code \in Codes /\ r.reason # "none"
    BY <2>1, <2>2, <2>3 DEF TypeOK, CallRecord, CallState
  <2> HIDE DEF r
  <2> QED
    BY <2>2, <2>4, CallUpdate DEF TypeOK
<1>9. ASSUME NEW k \in Checkouts, BookingOutcome(k)
      PROVE  TypeOK'
  BY <1>9 DEF BookingOutcome, TypeOK, CallRecord, CallState
<1>10. ASSUME NEW k \in Checkouts, ReleaseRedemption(k)
       PROVE  TypeOK'
  <2> DEFINE c == call[k].code
  <2>1. c \in Codes
    BY <1>10 DEF ReleaseRedemption, TypeOK
  <2>2. promo[c] # NoPromo => Released(promo[c]) \in PromoRow
    BY <2>1, RowType DEF Released, PromoRow
  <2>3. promo' \in [Codes -> PromoRow \cup {NoPromo}]
    BY <1>10, <2>1, <2>2 DEF ReleaseRedemption, TypeOK
  <2>5. PICK reply \in {"released", "releasing"} :
          call' = [call EXCEPT ![k] = [@ EXCEPT !.pc = reply,
                                                !.releases = call[k].releases + 1]]
    BY <1>10 DEF ReleaseRedemption
  <2> DEFINE r == [call[k] EXCEPT !.pc = reply, !.releases = call[k].releases + 1]
  <2>4. call' = [call EXCEPT ![k] = r]
    BY <2>5
  <2>6. call[k].releases + 1 \in 0..MaxReleaseCalls
    BY <1>10 DEF ReleaseRedemption, TypeOK, CallRecord
  <2>7. /\ r \in CallRecord
        /\ r.code \in Codes /\ r.pc # "refused"
    BY <2>1, <2>6 DEF TypeOK, CallRecord, CallState
  <2> HIDE DEF r
  <2>8. outstanding' = [outstanding EXCEPT ![c] = @ \ {k}]
        /\ UNCHANGED <<created, now>>
    BY <1>10 DEF ReleaseRedemption
  <2> QED
    BY <2>3, <2>4, <2>7, <2>8, CallUpdate DEF TypeOK
<1>11. CASE UNCHANGED vars
  BY <1>11 DEF vars, TypeOK
<1> QED
  BY <1>1, <1>2, <1>3, <1>4, <1>5, <1>6, <1>7, <1>8, <1>9, <1>10, <1>11
     DEF Next, CheckoutStep, OperatorStep

(* Rows, calls and history keep their types, and every refusal of          *)
(* redeem_promo carries a reason.                                          *)
THEOREM TypeCorrect == Spec => []TypeOK
<1>1. Init => TypeOK
  BY BoundsAssumption
     DEF Init, TypeOK, CallRecord, CallState, Reasons, PromoRow
<1> QED
  BY <1>1, TypeStep, PTL DEF Spec

-----------------------------------------------------------------------------
(* Safety of the counter.                                                  *)

(* A finite set loses at most one element when one is removed.             *)
LEMMA RemoveOne ==
  ASSUME NEW S, IsFiniteSet(S), NEW x, NEW n \in Int, n <= Cardinality(S)
  PROVE  /\ n - 1 <= Cardinality(S \ {x})
         /\ x \in S => Cardinality(S \ {x}) = Cardinality(S) - 1
         /\ Cardinality(S \ {x}) \in Nat
<1>1. /\ Cardinality(S) \in Nat
      /\ IsFiniteSet(S \ {x})
      /\ Cardinality(S \ {x}) = IF x \in S THEN Cardinality(S) - 1
                                            ELSE Cardinality(S)
  BY FS_CardinalityType, FS_RemoveElement
<1>2. Cardinality(S \ {x}) \in Nat
  BY <1>1, FS_CardinalityType
<1> QED
  BY <1>1, <1>2

(* The history of a code is a finite set of checkouts.                     *)
LEMMA OutstandingFinite ==
  ASSUME TypeOK, NEW c \in Codes
  PROVE  /\ IsFiniteSet(outstanding[c])
         /\ Cardinality(outstanding[c]) \in Nat
<1>1. outstanding[c] \subseteq Checkouts
  BY DEF TypeOK
<1> QED
  BY <1>1, CheckoutsAssumption, FS_Subset, FS_CardinalityType

(* Redeem's WHERE clause implies the table's constraints on the new row.   *)
LEMMA MatchPassesChecks ==
  ASSUME TypeOK, RowsPassChecks, NEW c \in Codes, promo[c] # NoPromo,
         NEW at, NEW p, RedeemMatches(promo[c], at, p)
  PROVE  CheckConstraints([promo[c] EXCEPT !.uses = @ + 1])
<1>1. promo[c] \in PromoRow /\ promo[c].terms \in Terms /\ promo[c].uses \in Int
  BY RowType
<1>2. promo[c].terms.maxUses \in Int \cup {Null}
  BY <1>1, TermsType
<1>3. CheckConstraints(promo[c])
  BY DEF RowsPassChecks
<1> DEFINE row == [promo[c] EXCEPT !.uses = @ + 1]
<1>4. row.terms = promo[c].terms /\ row.uses = promo[c].uses + 1
  BY <1>1 DEF PromoRow
<1> HIDE DEF row
<1>5. CheckConstraints(row)
  BY <1>1, <1>2, <1>3, <1>4, NullAssumption DEF CheckConstraints, RedeemMatches
<1> QED
  BY <1>5 DEF row

(* A step that leaves rows and history alone keeps the counters right.     *)
LEMMA CallOnlyStep ==
  ASSUME CounterInv, UNCHANGED <<promo, outstanding>>,
         \A k \in Checkouts :
           /\ call'[k].pc \in {"idle", "started"}
                => call[k].pc \in {"idle", "started"}
           /\ call'[k].pc = "error" => call[k].pc = "error"
  PROVE  (RowsPassChecks /\ NotYetCounted /\ BackstopNeverFires /\ CounterBacked)'
<1>1. RowsPassChecks'
  BY DEF CounterInv, RowsPassChecks
<1>2. NotYetCounted'
  BY DEF CounterInv, NotYetCounted
<1>3. BackstopNeverFires'
  BY DEF CounterInv, BackstopNeverFires
<1>4. CounterBacked'
  BY DEF CounterInv, CounterBacked
<1> QED
  BY <1>1, <1>2, <1>3, <1>4

LEMMA CounterStep == CounterInv /\ [Next]_vars => CounterInv'
<1> SUFFICES ASSUME CounterInv, [Next]_vars PROVE CounterInv'
  OBVIOUS
<1> DEFINE Goal == RowsPassChecks' /\ NotYetCounted' /\ BackstopNeverFires'
                     /\ CounterBacked'
<1>0. TypeOK /\ TypeOK'
  BY TypeStep DEF CounterInv
<1>1. ASSUME Tick PROVE Goal
  BY <1>1, CallOnlyStep DEF Tick
<1>2. ASSUME NEW c \in Codes, NEW t \in Terms, CreatePromo(c, t)
      PROVE  Goal
  <2>1. /\ promo' = [promo EXCEPT ![c] = NewRow(t)]
        /\ CheckConstraints(NewRow(t)) /\ UNCHANGED <<call, outstanding>>
    BY <1>2 DEF CreatePromo
  <2>2. RowsPassChecks'
    BY <1>0, <2>1 DEF CounterInv, RowsPassChecks, TypeOK
  <2>3. NotYetCounted' /\ BackstopNeverFires'
    BY <2>1 DEF CounterInv, NotYetCounted, BackstopNeverFires
  <2>5. CounterBacked'
    BY <1>0, <2>1, OutstandingFinite DEF CounterInv, CounterBacked, TypeOK, NewRow
  <2> QED
    BY <2>2, <2>3, <2>5
<1>3. ASSUME NEW c \in Codes, NEW t \in Terms, UpdatePromo(c, t)
      PROVE  Goal
  <2> DEFINE row == [promo[c] EXCEPT !.terms = t]
  <2>1. /\ promo[c] # NoPromo /\ promo' = [promo EXCEPT ![c] = row]
        /\ CheckConstraints(row) /\ UNCHANGED <<call, outstanding>>
    BY <1>3 DEF UpdatePromo
  <2>2. row.uses = promo[c].uses
    BY <1>0, <2>1, RowType DEF PromoRow
  <2> HIDE DEF row
  <2>3. RowsPassChecks'
    BY <1>0, <2>1 DEF CounterInv, RowsPassChecks, TypeOK
  <2>5. NotYetCounted' /\ BackstopNeverFires'
    BY <2>1 DEF CounterInv, NotYetCounted, BackstopNeverFires
  <2>4. CounterBacked'
    BY <1>0, <2>1, <2>2 DEF CounterInv, CounterBacked, TypeOK
  <2> QED
    BY <2>3, <2>5, <2>4
<1>4. ASSUME NEW c \in Codes, DeletePromo(c)
      PROVE  Goal
  <2>1. /\ promo' = [promo EXCEPT ![c] = NoPromo]
        /\ outstanding' = [outstanding EXCEPT ![c] = {}]
        /\ UNCHANGED call
    BY <1>4 DEF DeletePromo
  <2>2. RowsPassChecks' /\ NotYetCounted' /\ BackstopNeverFires'
    BY <1>0, <2>1
       DEF CounterInv, RowsPassChecks, NotYetCounted, BackstopNeverFires, TypeOK
  <2>3. CounterBacked'
    BY <1>0, <2>1 DEF CounterInv, CounterBacked, TypeOK
  <2> QED
    BY <2>2, <2>3
<1>5. ASSUME NEW k \in Checkouts, NEW c \in Codes, NEW p \in Properties,
             StartRedeem(k, c, p)
      PROVE  Goal
  BY <1>0, <1>5, CallOnlyStep DEF StartRedeem, TypeOK, CallRecord
<1>6. ASSUME NEW k \in Checkouts, RedeemCounts(k)
      PROVE  Goal
  <2> DEFINE c == call[k].code
             row == [promo[c] EXCEPT !.uses = @ + 1]
  <2>1. /\ c \in Codes /\ call[k].pc = "started" /\ promo[c] # NoPromo
        /\ RedeemMatches(promo[c], call[k].at, call[k].property)
    BY <1>0, <1>6 DEF RedeemCounts, TypeOK
  <2>2. CheckConstraints(row)
    BY <1>0, <2>1, MatchPassesChecks DEF CounterInv
  <2>3. row.uses = promo[c].uses + 1 /\ promo[c].uses \in Int
    BY <1>0, <2>1, RowType DEF PromoRow
  <2>5. /\ promo' = [promo EXCEPT ![c] = row]
        /\ outstanding' = [outstanding EXCEPT ![c] = @ \cup {k}]
        /\ \E reply \in {"redeemed", "lost"} :
             call' = [call EXCEPT ![k].pc = reply]
    BY <1>6, <2>2 DEF RedeemCounts
  <2> HIDE DEF row
  <2>4. RowsPassChecks'
    BY <1>0, <2>1, <2>2, <2>5 DEF CounterInv, RowsPassChecks, TypeOK
  <2>6. NotYetCounted' /\ BackstopNeverFires'
    BY <1>0, <2>1, <2>5
       DEF CounterInv, NotYetCounted, BackstopNeverFires, TypeOK, CallRecord
  <2>7. k \notin outstanding[c]
    BY <2>1 DEF CounterInv, NotYetCounted
  <2>8. Cardinality(outstanding[c] \cup {k}) = Cardinality(outstanding[c]) + 1
    BY <1>0, <2>1, <2>7, OutstandingFinite, FS_AddElement
  <2>9. CounterBacked'
    BY <1>0, <2>1, <2>3, <2>5, <2>8, OutstandingFinite
       DEF CounterInv, CounterBacked, TypeOK
  <2> QED
    BY <2>4, <2>6, <2>9
<1>7. ASSUME NEW k \in Checkouts, RedeemMisses(k)
      PROVE  Goal
  BY <1>0, <1>7, CallOnlyStep DEF RedeemMisses, TypeOK, CallRecord
<1>8. ASSUME NEW k \in Checkouts, DiagnoseRefusal(k)
      PROVE  Goal
  BY <1>0, <1>8, CallOnlyStep DEF DiagnoseRefusal, TypeOK, CallRecord
<1>9. ASSUME NEW k \in Checkouts, BookingOutcome(k)
      PROVE  Goal
  BY <1>0, <1>9, CallOnlyStep DEF BookingOutcome, TypeOK, CallRecord
<1>10. ASSUME NEW k \in Checkouts, ReleaseRedemption(k)
       PROVE  Goal
  <2> DEFINE c == call[k].code
  <2>1. /\ c \in Codes /\ call[k].pc = "releasing"
        /\ outstanding' = [outstanding EXCEPT ![c] = @ \ {k}]
        /\ \E reply \in {"released", "releasing"} :
             call' = [call EXCEPT ![k] =
                       [@ EXCEPT !.pc = reply, !.releases = call[k].releases + 1]]
    BY <1>0, <1>10 DEF ReleaseRedemption, TypeOK
  <2>2. promo' = IF promo[c] = NoPromo THEN promo
                 ELSE [promo EXCEPT ![c] = Released(promo[c])]
    BY <1>10 DEF ReleaseRedemption
  <2>3. NotYetCounted' /\ BackstopNeverFires'
    BY <1>0, <2>1
       DEF CounterInv, NotYetCounted, BackstopNeverFires, TypeOK, CallRecord
  <2>5. CASE promo[c] = NoPromo
    <3>1. RowsPassChecks'
      BY <2>2, <2>5 DEF CounterInv, RowsPassChecks
    <3>2. CounterBacked'
      BY <1>0, <2>1, <2>2, <2>5 DEF CounterInv, CounterBacked, TypeOK
    <3> QED
      BY <2>3, <3>1, <3>2
  <2>4. CASE promo[c] # NoPromo
    <3>1. /\ promo[c] \in PromoRow /\ promo[c].uses \in Int
          /\ promo[c].terms.maxUses \in Int \cup {Null}
      BY <1>0, <2>1, <2>4, RowType, TermsType
    <3>2. /\ CheckConstraints(promo[c])
          /\ promo[c].uses <= Cardinality(outstanding[c])
      BY <2>1, <2>4 DEF CounterInv, RowsPassChecks, CounterBacked
    <3>3. /\ Released(promo[c]).terms = promo[c].terms
          /\ Released(promo[c]).uses =
               IF promo[c].uses > 0 THEN promo[c].uses - 1 ELSE promo[c].uses
      BY <3>1 DEF Released, PromoRow
    <3>4. CheckConstraints(Released(promo[c]))
      BY <3>1, <3>2, <3>3, NullAssumption DEF CheckConstraints
    <3>5. RowsPassChecks'
      BY <1>0, <2>1, <2>2, <2>4, <3>4 DEF CounterInv, RowsPassChecks, TypeOK
    <3>6. /\ promo[c].uses - 1 <= Cardinality(outstanding[c] \ {k})
          /\ Cardinality(outstanding[c] \ {k}) \in Nat
      BY <1>0, <2>1, <3>1, <3>2, OutstandingFinite, RemoveOne
    <3>7. Released(promo[c]).uses <= Cardinality(outstanding[c] \ {k})
      BY <3>1, <3>3, <3>6
    <3>8. CounterBacked'
      BY <1>0, <2>1, <2>2, <2>4, <3>7 DEF CounterInv, CounterBacked, TypeOK
    <3> QED
      BY <2>3, <3>5, <3>8
  <2> QED
    BY <2>5, <2>4
<1>11. ASSUME UNCHANGED vars PROVE Goal
  BY <1>11, CallOnlyStep DEF vars
<1> QED
  BY <1>0, <1>1, <1>2, <1>3, <1>4, <1>5, <1>6, <1>7, <1>8, <1>9, <1>10, <1>11
     DEF Next, CheckoutStep, OperatorStep, CounterInv

LEMMA CounterInit == Init => CounterInv
<1> SUFFICES ASSUME Init PROVE CounterInv
  OBVIOUS
<1>1. TypeOK
  BY BoundsAssumption
     DEF Init, TypeOK, CallRecord, CallState, Reasons, PromoRow
<1> QED
  BY <1>1 DEF Init, CounterInv, RowsPassChecks, NotYetCounted,
              BackstopNeverFires, CounterBacked

LEMMA CounterInvariant == Spec => []CounterInv
BY CounterInit, CounterStep, PTL DEF Spec

(* No counter leaves 0..max_uses, whatever redemptions, releases and edits *)
(* interleave (PromoRepository.Redeem, ReleaseRedemption and Update).      *)
THEOREM UsesStayWithinMax == Spec => []UsesWithinMax
<1>1. CounterInv => UsesWithinMax
  <2> SUFFICES ASSUME CounterInv, NEW c \in Codes, promo[c] # NoPromo
               PROVE  /\ promo[c].uses >= 0
                      /\ promo[c].terms.maxUses # Null
                           => promo[c].uses <= promo[c].terms.maxUses
    BY DEF UsesWithinMax
  <2> QED
    BY DEF CounterInv, RowsPassChecks, CheckConstraints
<1> QED
  BY <1>1, CounterInvariant, PTL

(* The database's CHECK never turns a refusal into a server error: Redeem's *)
(* WHERE clause is at least as strict as the constraints of the table.     *)
THEOREM BackstopSilent == Spec => []BackstopNeverFires
<1>1. CounterInv => BackstopNeverFires
  BY DEF CounterInv
<1> QED
  BY <1>1, CounterInvariant, PTL

(* The counter never claims a use that no caller has                       *)
(* (PromoRepository.ReleaseRedemption's clamp, DeletePromo included).      *)
THEOREM CounterNeverOverstates == Spec => []CounterBacked
<1>1. CounterInv => CounterBacked
  BY DEF CounterInv
<1> QED
  BY <1>1, CounterInvariant, PTL

-----------------------------------------------------------------------------
(* The counter is exact as long as callers release once.                   *)

(* A code released twice, or created twice, stays so: calls keep their code *)
(* and only count releases up.                                             *)
LEMMA ReleasedOnceBefore ==
  ASSUME TypeOK, TypeOK', NEW c \in Codes, ReleasedOnce(c)',
         created[c] <= created'[c],
         \A k \in Checkouts :
           \/ call[k].releases = 0
           \/ /\ call'[k].code = call[k].code
              /\ call[k].releases <= call'[k].releases
  PROVE  ReleasedOnce(c)
<1>1. created[c] \in Nat /\ created'[c] \in Nat
  BY BoundsAssumption DEF TypeOK
<1>2. \A k \in Checkouts : call[k].releases \in Nat /\ call'[k].releases \in Nat
  BY BoundsAssumption DEF TypeOK, CallRecord
<1>3. created[c] <= 1
  BY <1>1 DEF ReleasedOnce
<1>4. ASSUME NEW k \in Checkouts, call[k].code = c
      PROVE  call[k].releases <= 1
  BY <1>2, <1>4 DEF ReleasedOnce
<1> QED
  BY <1>3, <1>4 DEF ReleasedOnce

(* Steps that keep rows and history, and neither gain nor lose a holder.   *)
LEMMA SingleReleaseCallOnly ==
  ASSUME TypeOK, TypeOK', SingleReleaseInv, UNCHANGED <<promo, outstanding, created>>,
         \A k \in Checkouts :
           /\ Holds(k)' => Holds(k) /\ call'[k].code = call[k].code
           /\ call'[k].pc \notin {"releasing", "released"} => call'[k].releases = 0
           /\ call[k].releases = 0 \/ UNCHANGED <<call[k].code, call[k].releases>>
  PROVE  SingleReleaseInv'
<1>1. \A k \in Checkouts : Holds(k)' =>
        /\ created'[call'[k].code] # 0
        /\ (promo'[call'[k].code] # NoPromo /\ created'[call'[k].code] <= 1)
               => k \in outstanding'[call'[k].code]
  BY DEF SingleReleaseInv
<1>2. ASSUME NEW c \in Codes, ReleasedOnce(c)'
      PROVE  ReleasedOnce(c)
  <2>1. created[c] \in Nat /\ created'[c] = created[c]
    BY BoundsAssumption DEF TypeOK
  <2>2. \A k \in Checkouts : call[k].releases \in Nat
    BY BoundsAssumption DEF TypeOK, CallRecord
  <2> QED
    BY <1>2, <2>1, <2>2, ReleasedOnceBefore
<1>3. CounterExact'
  BY <1>2 DEF SingleReleaseInv, CounterExact
<1> QED
  BY <1>1, <1>3 DEF SingleReleaseInv

LEMMA SingleReleaseStep ==
  CounterInv /\ SingleReleaseInv /\ [Next]_vars => SingleReleaseInv'
<1> SUFFICES ASSUME CounterInv, SingleReleaseInv, [Next]_vars
             PROVE  SingleReleaseInv'
  OBVIOUS
<1>0. TypeOK /\ TypeOK'
  BY TypeStep DEF CounterInv
<1>a. /\ \A c \in Codes : created[c] \in Nat
      /\ \A k \in Checkouts : call[k].releases \in Nat
  BY <1>0, BoundsAssumption DEF TypeOK, CallRecord
<1>1. ASSUME Tick PROVE SingleReleaseInv'
  BY <1>0, <1>1, SingleReleaseCallOnly DEF Tick, SingleReleaseInv, Holds
<1>2. ASSUME NEW c \in Codes, NEW t \in Terms, CreatePromo(c, t)
      PROVE  SingleReleaseInv'
  <2>1. /\ promo' = [promo EXCEPT ![c] = NewRow(t)]
        /\ created' = [created EXCEPT ![c] = @ + 1]
        /\ created[c] < MaxRows /\ UNCHANGED <<call, outstanding>>
    BY <1>2 DEF CreatePromo
  <2>2. /\ created'[c] = created[c] + 1
        /\ \A d \in Codes \ {c} : /\ created'[d] = created[d]
                                  /\ promo'[d] = promo[d]
    BY <1>0, <2>1 DEF TypeOK
  <2>3. ASSUME NEW d \in Codes, ReleasedOnce(d)', d # c
        PROVE  ReleasedOnce(d)
    BY <2>1, <2>2, <2>3 DEF ReleasedOnce
  <2>5. ASSUME created'[c] <= 1
        PROVE  created[c] = 0 /\ outstanding[c] = {}
    BY <1>a, <2>2, <2>5 DEF SingleReleaseInv
  <2>4. promo'[c] # NoPromo /\ ReleasedOnce(c)'
          => promo'[c].uses = Cardinality(outstanding'[c])
    BY <1>0, <2>1, <2>5, FS_EmptySet DEF ReleasedOnce, TypeOK, NewRow
  <2>6. CounterExact'
    BY <2>1, <2>2, <2>3, <2>4 DEF SingleReleaseInv, CounterExact
  <2>7. ASSUME NEW k \in Checkouts, Holds(k)'
        PROVE  /\ created'[call'[k].code] # 0
               /\ (promo'[call'[k].code] # NoPromo /\ created'[call'[k].code] <= 1)
                    => k \in outstanding'[call'[k].code]
    <3>1. Holds(k) /\ call[k].code \in Codes /\ call' = call
      BY <1>0, <2>1, <2>7 DEF Holds, TypeOK
    <3>2. created[call[k].code] # 0
      BY <3>1 DEF SingleReleaseInv
    <3>3. CASE call[k].code = c
      BY <1>a, <2>2, <2>5, <3>1, <3>2, <3>3
    <3>4. CASE call[k].code # c
      BY <2>1, <2>2, <3>1, <3>4 DEF SingleReleaseInv
    <3> QED
      BY <3>3, <3>4
  <2>8. \A d \in Codes : created'[d] = 0 => promo'[d] = NoPromo /\ outstanding'[d] = {}
    BY <1>a, <2>1, <2>2 DEF SingleReleaseInv
  <2> QED
    BY <2>1, <2>6, <2>7, <2>8 DEF SingleReleaseInv
<1>3. ASSUME NEW c \in Codes, NEW t \in Terms, UpdatePromo(c, t)
      PROVE  SingleReleaseInv'
  <2> DEFINE row == [promo[c] EXCEPT !.terms = t]
  <2>1. /\ promo[c] # NoPromo /\ promo' = [promo EXCEPT ![c] = row]
        /\ UNCHANGED <<created, call, outstanding>>
    BY <1>3 DEF UpdatePromo
  <2>2. row.uses = promo[c].uses
    BY <1>0, <2>1, RowType DEF PromoRow
  <2> HIDE DEF row
  <2>3. \A d \in Codes : promo'[d] # NoPromo =>
           promo[d] # NoPromo /\ promo'[d].uses = promo[d].uses
    BY <1>0, <2>1, <2>2 DEF TypeOK
  <2>5. CounterExact'
    BY <2>1, <2>3 DEF SingleReleaseInv, CounterExact, ReleasedOnce
  <2>4. \A k \in Checkouts : Holds(k) => call[k].code \in Codes
    BY <1>0 DEF TypeOK, Holds
  <2>6. \A k \in Checkouts : Holds(k)' => Holds(k)
    BY <2>1 DEF Holds
  <2>7. \A d \in Codes : created'[d] = 0 => promo'[d] = NoPromo /\ outstanding'[d] = {}
    BY <1>0, <2>1 DEF SingleReleaseInv, TypeOK
  <2> QED
    BY <2>1, <2>3, <2>5, <2>4, <2>6, <2>7 DEF SingleReleaseInv
<1>4. ASSUME NEW c \in Codes, DeletePromo(c)
      PROVE  SingleReleaseInv'
  <2>1. /\ promo' = [promo EXCEPT ![c] = NoPromo]
        /\ outstanding' = [outstanding EXCEPT ![c] = {}]
        /\ UNCHANGED <<created, call>>
    BY <1>4 DEF DeletePromo
  <2>2. \A d \in Codes : promo'[d] # NoPromo =>
           promo'[d] = promo[d] /\ outstanding'[d] = outstanding[d]
    BY <1>0, <2>1 DEF TypeOK
  <2>3. CounterExact'
    BY <2>1, <2>2 DEF SingleReleaseInv, CounterExact, ReleasedOnce
  <2>5. \A k \in Checkouts : Holds(k) => call[k].code \in Codes
    BY <1>0 DEF TypeOK, Holds
  <2>4. \A k \in Checkouts : Holds(k)' => Holds(k)
    BY <2>1 DEF Holds
  <2>6. \A d \in Codes : created'[d] = 0 => promo'[d] = NoPromo /\ outstanding'[d] = {}
    BY <1>0, <2>1 DEF SingleReleaseInv, TypeOK
  <2> QED
    BY <2>1, <2>2, <2>3, <2>5, <2>4, <2>6 DEF SingleReleaseInv
<1>5. ASSUME NEW k \in Checkouts, NEW c \in Codes, NEW p \in Properties,
             StartRedeem(k, c, p)
      PROVE  SingleReleaseInv'
  BY <1>0, <1>5, SingleReleaseCallOnly
     DEF StartRedeem, TypeOK, CallRecord, SingleReleaseInv, Holds
<1>6. ASSUME NEW k \in Checkouts, RedeemCounts(k)
      PROVE  SingleReleaseInv'
  <2> DEFINE c == call[k].code
             row == [promo[c] EXCEPT !.uses = @ + 1]
  <2>1. /\ c \in Codes /\ call[k].pc = "started" /\ promo[c] # NoPromo
        /\ RedeemMatches(promo[c], call[k].at, call[k].property)
        /\ UNCHANGED created
    BY <1>0, <1>6 DEF RedeemCounts, TypeOK
  <2>2. CheckConstraints(row)
    BY <1>0, <2>1, MatchPassesChecks DEF CounterInv
  <2>3. row.uses = promo[c].uses + 1
    BY <1>0, <2>1, RowType DEF PromoRow
  <2>5. /\ promo' = [promo EXCEPT ![c] = row]
        /\ outstanding' = [outstanding EXCEPT ![c] = @ \cup {k}]
    BY <1>6, <2>2 DEF RedeemCounts
  <2>4. PICK reply \in {"redeemed", "lost"} :
          call' = [call EXCEPT ![k].pc = reply]
    BY <1>6, <2>2 DEF RedeemCounts
  <2> HIDE DEF row
  <2>6. /\ call[k].releases = 0 /\ call' \in [Checkouts -> CallRecord]
        /\ call'[k].releases = 0 /\ call'[k].code = c
        /\ \A j \in Checkouts \ {k} : call'[j] = call[j]
    BY <1>0, <2>1, <2>4 DEF TypeOK, CallRecord, SingleReleaseInv
  <2>7. Cardinality(outstanding[c] \cup {k}) = Cardinality(outstanding[c]) + 1
    BY <1>0, <2>1, OutstandingFinite, FS_AddElement DEF CounterInv, NotYetCounted
  <2>8. CounterExact'
    <3>1. ASSUME NEW d \in Codes, ReleasedOnce(d)'
          PROVE  ReleasedOnce(d)
      BY <2>1, <2>6, <3>1 DEF ReleasedOnce
    <3> QED
      BY <1>0, <2>1, <2>3, <2>5, <2>7, <3>1 DEF SingleReleaseInv, CounterExact, TypeOK
  <2>9. \A d \in Codes : created'[d] = 0 => promo'[d] = NoPromo /\ outstanding'[d] = {}
    BY <1>0, <2>1, <2>5 DEF SingleReleaseInv, TypeOK
  <2>10. ASSUME NEW j \in Checkouts, Holds(j)'
         PROVE  /\ created'[call'[j].code] # 0
                /\ (promo'[call'[j].code] # NoPromo /\ created'[call'[j].code] <= 1)
                     => j \in outstanding'[call'[j].code]
    <3>1. CASE j = k
      BY <1>0, <2>1, <2>5, <2>6, <3>1 DEF SingleReleaseInv, TypeOK
    <3>2. CASE j # k
      <4>1. Holds(j) /\ call[j].code \in Codes /\ call'[j].code = call[j].code
        BY <1>0, <2>6, <2>10, <3>2 DEF Holds, TypeOK
      <4> QED
        BY <1>0, <2>1, <2>5, <4>1 DEF SingleReleaseInv, TypeOK
    <3> QED
      BY <3>1, <3>2
  <2>11. \A j \in Checkouts : call'[j].pc \notin {"releasing", "released"}
                               => call'[j].releases = 0
    BY <2>6 DEF SingleReleaseInv
  <2> QED
    BY <2>8, <2>9, <2>10, <2>11 DEF SingleReleaseInv
<1>7. ASSUME NEW k \in Checkouts, RedeemMisses(k)
      PROVE  SingleReleaseInv'
  BY <1>0, <1>7, SingleReleaseCallOnly
     DEF RedeemMisses, TypeOK, CallRecord, SingleReleaseInv, Holds
<1>8. ASSUME NEW k \in Checkouts, DiagnoseRefusal(k)
      PROVE  SingleReleaseInv'
  BY <1>0, <1>8, SingleReleaseCallOnly
     DEF DiagnoseRefusal, TypeOK, CallRecord, SingleReleaseInv, Holds
<1>9. ASSUME NEW k \in Checkouts, BookingOutcome(k)
      PROVE  SingleReleaseInv'
  BY <1>0, <1>9, SingleReleaseCallOnly
     DEF BookingOutcome, TypeOK, CallRecord, SingleReleaseInv, Holds
<1>10. ASSUME NEW k \in Checkouts, ReleaseRedemption(k)
       PROVE  SingleReleaseInv'
  <2>0. PICK c \in Codes : c = call[k].code
    BY <1>0, <1>10 DEF ReleaseRedemption, TypeOK
  <2>1. /\ call[k].pc = "releasing"
        /\ call[k].releases < MaxReleaseCalls
        /\ outstanding' = [outstanding EXCEPT ![c] = @ \ {k}]
        /\ UNCHANGED created
    BY <1>10, <2>0 DEF ReleaseRedemption
  <2>2. PICK reply \in {"released", "releasing"} :
          call' = [call EXCEPT ![k] =
                    [@ EXCEPT !.pc = reply, !.releases = call[k].releases + 1]]
    BY <1>10 DEF ReleaseRedemption
  <2>3. promo' = IF promo[c] = NoPromo THEN promo
                 ELSE [promo EXCEPT ![c] = Released(promo[c])]
    BY <1>10, <2>0 DEF ReleaseRedemption
  <2>4. /\ call'[k].releases = call[k].releases + 1 /\ call'[k].code = c
        /\ call'[k].pc \in {"released", "releasing"}
        /\ \A j \in Checkouts \ {k} : call'[j] = call[j]
    BY <1>0, <2>0, <2>2 DEF TypeOK, CallRecord
  <2>5. ASSUME NEW d \in Codes, ReleasedOnce(d)'
        PROVE  ReleasedOnce(d) /\ (d = c => call[k].releases = 0)
    BY <1>a, <2>0, <2>1, <2>5, <2>4 DEF ReleasedOnce
  <2>6. promo[c] # NoPromo /\ ReleasedOnce(c)' => k \in outstanding[c]
    <3> SUFFICES ASSUME promo[c] # NoPromo, ReleasedOnce(c)'
                 PROVE  k \in outstanding[c]
      OBVIOUS
    <3>1. created[c] <= 1 /\ call[k].releases = 0
      BY <2>1, <2>5 DEF ReleasedOnce
    <3> QED
      BY <2>0, <2>1, <3>1 DEF SingleReleaseInv, Holds
  <2>7. \A d \in Codes : promo'[d] # NoPromo => promo[d] # NoPromo
    BY <1>0, <2>1, <2>3 DEF TypeOK
  <2>8. promo[c] # NoPromo /\ ReleasedOnce(c)' =>
          Released(promo[c]).uses = Cardinality(outstanding[c] \ {k})
    <3> SUFFICES ASSUME promo[c] # NoPromo, ReleasedOnce(c)'
                 PROVE  Released(promo[c]).uses = Cardinality(outstanding[c] \ {k})
      OBVIOUS
    <3>1. promo[c].uses = Cardinality(outstanding[c]) /\ promo[c] \in PromoRow
      BY <1>0, <2>1, <2>5, RowType DEF SingleReleaseInv, CounterExact
    <3>2. /\ IsFiniteSet(outstanding[c]) /\ Cardinality(outstanding[c]) \in Nat
          /\ Cardinality(outstanding[c] \ {k}) = Cardinality(outstanding[c]) - 1
          /\ Cardinality(outstanding[c] \ {k}) \in Nat
      BY <1>0, <2>1, <2>6, OutstandingFinite, RemoveOne
    <3>3. promo[c].uses > 0
      BY <3>1, <3>2
    <3> QED
      BY <3>1, <3>2, <3>3 DEF Released, PromoRow
  <2>9. CounterExact'
    BY <1>0, <2>1, <2>3, <2>5, <2>7, <2>8 DEF SingleReleaseInv, CounterExact, TypeOK
  <2>10. \A d \in Codes : created'[d] = 0 => promo'[d] = NoPromo /\ outstanding'[d] = {}
    BY <1>0, <2>1, <2>3 DEF SingleReleaseInv, TypeOK
  <2>11. ASSUME NEW j \in Checkouts, Holds(j)'
         PROVE  /\ created'[call'[j].code] # 0
                /\ (promo'[call'[j].code] # NoPromo /\ created'[call'[j].code] <= 1)
                     => j \in outstanding'[call'[j].code]
    <3>1. j # k
      BY <1>a, <2>4, <2>11 DEF Holds
    <3>2. Holds(j) /\ call[j].code \in Codes /\ call'[j].code = call[j].code
      BY <1>0, <2>4, <2>11, <3>1 DEF Holds, TypeOK
    <3> QED
      BY <1>0, <2>1, <2>7, <3>1, <3>2 DEF SingleReleaseInv, TypeOK
  <2>12. \A j \in Checkouts : call'[j].pc \notin {"releasing", "released"}
                               => call'[j].releases = 0
    BY <2>4 DEF SingleReleaseInv
  <2> QED
    BY <2>9, <2>10, <2>11, <2>12 DEF SingleReleaseInv
<1>11. ASSUME UNCHANGED vars PROVE SingleReleaseInv'
  BY <1>0, <1>11, SingleReleaseCallOnly DEF vars, SingleReleaseInv, Holds
<1> QED
  BY <1>1, <1>2, <1>3, <1>4, <1>5, <1>6, <1>7, <1>8, <1>9, <1>10, <1>11
     DEF Next, CheckoutStep, OperatorStep

(* As long as the redemptions of a code are released once at most and its  *)
(* code string is not reused, the counter is the number of redemptions not *)
(* given back (PromoService.Redeem and ReleaseRedemption).                 *)
THEOREM ExactWhileReleasedOnce == Spec => []CounterExact
<1>1. Init => SingleReleaseInv
  BY FS_EmptySet DEF Init, SingleReleaseInv, Holds, CounterExact
<1>2. CounterInv /\ SingleReleaseInv /\ [Next]_vars => SingleReleaseInv'
  BY SingleReleaseStep
<1>3. SingleReleaseInv => CounterExact
  BY DEF SingleReleaseInv
<1> QED
  BY <1>1, <1>2, <1>3, CounterInvariant, PTL DEF Spec

(* Under the same condition at most max_uses guests hold a redemption      *)
(* (what max_uses is for; Redeem's WHERE clause).                          *)
THEOREM HoldersWithinMax ==
  Spec => []((\A c \in Codes : ReleasedOnce(c)) => OutstandingWithinMax)
<1>1. CounterInv /\ CounterExact
        => ((\A c \in Codes : ReleasedOnce(c)) => OutstandingWithinMax)
  BY DEF OutstandingWithinMax, CounterExact, CounterInv, RowsPassChecks,
         CheckConstraints
<1> QED
  BY <1>1, ExactWhileReleasedOnce, CounterInvariant, PTL
=============================================================================
