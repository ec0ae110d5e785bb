--------------------------- MODULE Checkout_proofs ---------------------------
(***************************************************************************)
(* What surrounds an order, for any number of requests, any limits and any *)
(* interleaving: the server knows an order when its customer can pay for   *)
(* it, the orders on their way and the cancellations of a user are         *)
(* bounded, an order follows the money, cached settings are fresh, and     *)
(* what the page offers is honoured.                                       *)
(***************************************************************************)
EXTENDS Checkout, ConfigCache_proofs, FiniteSetTheorems, SequenceTheorems,
        WellFoundedInduction

(***************************************************************************)
(* The creation of orders.                                                 *)
(***************************************************************************)

CreationPCs == {"idle", "count", "insert", "create", "attach", "handed", "failed"}
RowStatuses == {"absent", "PENDING", "PAID", "EXPIRED", "CANCELLED"}

Creations == [pc : CreationPCs, row : RowStatuses, attached : BOOLEAN,
              intent : {"none", "made", "paid"}]

\* The row is there from the insert until the request fails, and nobody pays
\* before the way to pay is handed out.
SlotOK(r) ==
    /\ r.pc \in {"idle", "count", "insert"} => r.row = "absent"
    /\ r.pc \in {"create", "attach", "handed"} => r.row # "absent"
    /\ r.pc = "handed" => r.attached
    /\ r.row = "PAID" \/ r.intent = "paid" => r.pc = "handed"

\* A request that has counted, or its pending row, has a share in the limit on
\* pending orders; one that was given the instance and is not paid has a share
\* in what the instance may collect.
Claims(r) == r.row = "PENDING" \/ r.pc = "insert"
Unpaid(r) == r.pc # "idle" /\ r.row # "PAID"

Claimants == {s \in Slots : Claims(creation[s])}
Debtors == {s \in Slots : Unpaid(creation[s])}

CreationTypes ==
    /\ creation \in [Slots -> Creations] /\ usedToday \in Nat
    /\ setAside \in 0..MaxSetAside

CreationBounds ==
    /\ Cardinality(Claimants) <= MaxPendingOrders - 1 + MaxInFlight
    /\ usedToday + setAside + Cardinality(Debtors)
         <= InstanceDailyLimit - 1 + Cardinality(Slots) + MaxSetAside

CreationInv ==
    /\ CreationTypes
    /\ \A s \in Slots : SlotOK(creation[s])
    /\ CreationBounds

-----------------------------------------------------------------------------
(* How a request or its row goes on, from p to r: without a new share in   *)
(* either limit, or in one of three ways that the limits are about.        *)

Quiet(p, r) ==
    /\ Claims(r) => Claims(p)
    /\ Unpaid(r) => Unpaid(p)
    /\ UNCHANGED <<usedToday, setAside>>

Selected(r) ==
    /\ usedToday + 1 <= InstanceDailyLimit
    /\ ~Claims(r)
    /\ UNCHANGED <<usedToday, setAside>>

Counted(p) ==
    /\ Cardinality(At("insert")) < MaxInFlight
    /\ Cardinality(PendingRows) < MaxPendingOrders
    /\ Unpaid(p)
    /\ UNCHANGED <<usedToday, setAside>>

Collected(p, r) ==
    /\ Unpaid(p) /\ ~Unpaid(r) /\ ~Claims(r)
    /\ usedToday' = usedToday + 1 /\ setAside' = setAside

SlotNext(s) ==
    \/ resolve_payment_selection(s) \/ count_pending_by_user(s)
    \/ insert_pending(s) \/ create_payment_for_order(s)
    \/ attach_payment_creation(s) \/ delete_order(s) \/ RequestEnds(s)
    \/ CustomerPaysIntent(s) \/ PaymentConfirmed(s) \/ RowCloses(s)
    \/ Forgotten(s)

SlotMoves(s) ==
    \E r \in Creations :
        /\ creation' = [creation EXCEPT ![s] = r]
        /\ SlotOK(r)
        /\ \/ Quiet(creation[s], r) \/ Selected(r)
           \/ Counted(creation[s]) \/ Collected(creation[s], r)

LEMMA SlotSteps ==
    ASSUME CreationInv, NEW s \in Slots, SlotNext(s)
    PROVE  SlotMoves(s)
<1> DEFINE p == creation[s]
<1>1. p \in Creations /\ SlotOK(p) /\ creation \in [Slots -> Creations]
  BY DEF CreationInv, CreationTypes
<1> USE DEF Creations, CreationPCs, RowStatuses
<1>2. CASE resolve_payment_selection(s)
  <2> DEFINE r == [p EXCEPT !.pc = "count"]
  <2>1. creation' = [creation EXCEPT ![s] = r] /\ p.pc = "idle" /\ Selected(r)
    BY <1>1, <1>2 DEF resolve_payment_selection, Step, instance_accepts_amount,
       Selected, SlotOK, Claims
  <2>2. r \in Creations /\ SlotOK(r)
    BY <1>1, <2>1 DEF SlotOK
  <2>3. QED BY <2>1, <2>2 DEF SlotMoves
<1>3. CASE count_pending_by_user(s)
  <2> DEFINE r == [p EXCEPT !.pc = "insert"]
  <2>1. creation' = [creation EXCEPT ![s] = r] /\ p.pc = "count" /\ Counted(p)
    BY <1>1, <1>3 DEF count_pending_by_user, Step, Counted, SlotOK, Unpaid
  <2>2. r \in Creations /\ SlotOK(r)
    BY <1>1, <2>1 DEF SlotOK
  <2>3. QED BY <2>1, <2>2 DEF SlotMoves
<1>4. CASE insert_pending(s)
  <2> DEFINE r == [p EXCEPT !.pc = "create", !.row = "PENDING"]
  <2>1. /\ creation' = [creation EXCEPT ![s] = r] /\ p.pc = "insert"
        /\ UNCHANGED <<usedToday, setAside>>
    BY <1>4 DEF insert_pending, Step
  <2>2. r \in Creations /\ SlotOK(r) /\ Quiet(p, r)
    BY <1>1, <2>1 DEF SlotOK, Quiet, Claims, Unpaid
  <2>3. QED BY <2>1, <2>2 DEF SlotMoves
<1>5. CASE create_payment_for_order(s)
  <2> DEFINE r == [p EXCEPT !.pc = "attach", !.intent = "made"]
  <2>1. /\ creation' = [creation EXCEPT ![s] = r] /\ p.pc = "create"
        /\ UNCHANGED <<usedToday, setAside>>
    BY <1>5 DEF create_payment_for_order, Step
  <2>2. r \in Creations /\ SlotOK(r) /\ Quiet(p, r)
    BY <1>1, <2>1 DEF SlotOK, Quiet, Claims, Unpaid
  <2>3. QED BY <2>1, <2>2 DEF SlotMoves
<1>6. CASE attach_payment_creation(s)
  <2> DEFINE r == [p EXCEPT !.pc = "handed", !.attached = TRUE]
  <2>1. /\ creation' = [creation EXCEPT ![s] = r] /\ p.pc = "attach"
        /\ UNCHANGED <<usedToday, setAside>>
    BY <1>6 DEF attach_payment_creation, Step
  <2>2. r \in Creations /\ SlotOK(r) /\ Quiet(p, r)
    BY <1>1, <2>1 DEF SlotOK, Quiet, Claims, Unpaid
  <2>3. QED BY <2>1, <2>2 DEF SlotMoves
<1>7. CASE delete_order(s)
  <2>1. PICK known \in {"none", "made"}, row \in {"absent", p.row} :
           Step(s, "create", [p EXCEPT !.pc = "failed", !.row = row, !.intent = known])
    BY <1>7 DEF delete_order
  <2> DEFINE r == [p EXCEPT !.pc = "failed", !.row = row, !.intent = known]
  <2>2. /\ creation' = [creation EXCEPT ![s] = r] /\ p.pc = "create"
        /\ UNCHANGED <<usedToday, setAside>>
    BY <1>7, <2>1 DEF delete_order, Step
  <2>3. r \in Creations /\ SlotOK(r) /\ Quiet(p, r)
    BY <1>1, <2>2 DEF SlotOK, Quiet, Claims, Unpaid
  <2>4. QED BY <2>2, <2>3 DEF SlotMoves
<1>8. CASE RequestEnds(s)
  <2>1. PICK row \in {p.row} \cup (IF p.pc = "insert" THEN {"PENDING"} ELSE {}),
             attached \in {FALSE, p.pc = "attach"} :
           creation' = [creation EXCEPT ![s].pc = "failed", ![s].row = row,
                                        ![s].attached = attached]
    BY <1>8 DEF RequestEnds
  <2> DEFINE r == [p EXCEPT !.pc = "failed", !.row = row, !.attached = attached]
  <2>2. /\ creation' = [creation EXCEPT ![s] = r]
        /\ p.pc \in {"count", "insert", "create", "attach"}
        /\ UNCHANGED <<usedToday, setAside>>
    BY <1>1, <1>8, <2>1 DEF RequestEnds
  <2>3. row \in RowStatuses /\ attached \in BOOLEAN
    BY <1>1
  <2>4. r \in Creations /\ SlotOK(r) /\ Quiet(p, r)
    BY <1>1, <2>2, <2>3 DEF SlotOK, Quiet, Claims, Unpaid
  <2>5. QED BY <2>2, <2>4 DEF SlotMoves
<1>9. CASE CustomerPaysIntent(s)
  <2> DEFINE r == [p EXCEPT !.intent = "paid"]
  <2>1. /\ creation' = [creation EXCEPT ![s] = r] /\ p.pc = "handed"
        /\ UNCHANGED <<usedToday, setAside>>
    BY <1>9 DEF CustomerPaysIntent, Step
  <2>2. r \in Creations /\ SlotOK(r) /\ Quiet(p, r)
    BY <1>1, <2>1 DEF SlotOK, Quiet, Claims, Unpaid
  <2>3. QED BY <2>1, <2>2 DEF SlotMoves
<1>10. CASE PaymentConfirmed(s)
  <2> DEFINE r == [p EXCEPT !.row = "PAID"]
  <2>1. /\ creation' = [creation EXCEPT ![s] = r]
        /\ p.intent = "paid" /\ p.row \in {"PENDING", "EXPIRED"}
        /\ usedToday' = usedToday + 1 /\ setAside' = setAside
    BY <1>1, <1>10 DEF PaymentConfirmed
  <2>2. r \in Creations /\ SlotOK(r) /\ Collected(p, r)
    BY <1>1, <2>1 DEF SlotOK, Collected, Claims, Unpaid
  <2>3. QED BY <2>1, <2>2 DEF SlotMoves
<1>11. CASE RowCloses(s)
  <2>1. PICK closed \in {"CANCELLED", "EXPIRED"} :
           creation' = [creation EXCEPT ![s].row = closed]
    BY <1>11 DEF RowCloses
  <2> DEFINE r == [p EXCEPT !.row = closed]
  <2>2. /\ creation' = [creation EXCEPT ![s] = r] /\ p.row = "PENDING"
        /\ UNCHANGED <<usedToday, setAside>>
    BY <1>1, <1>11, <2>1 DEF RowCloses
  <2>3. r \in Creations /\ SlotOK(r) /\ Quiet(p, r)
    BY <1>1, <2>2 DEF SlotOK, Quiet, Claims, Unpaid
  <2>4. QED BY <2>2, <2>3 DEF SlotMoves
<1>12. CASE Forgotten(s)
  <2>1. creation' = [creation EXCEPT ![s] = NoCreation] /\ UNCHANGED <<usedToday, setAside>>
    BY <1>12 DEF Forgotten
  <2>2. NoCreation \in Creations /\ SlotOK(NoCreation) /\ Quiet(p, NoCreation)
    BY <2>1 DEF NoCreation, SlotOK, Quiet, Claims, Unpaid
  <2>3. QED BY <2>1, <2>2 DEF SlotMoves
<1>13. QED BY <1>2, <1>3, <1>4, <1>5, <1>6, <1>7, <1>8, <1>9, <1>10, <1>11,
              <1>12 DEF SlotNext

-----------------------------------------------------------------------------
(* The shares, counted.                                                    *)

LEMMA SlotSetsFinite ==
    ASSUME NEW S \in SUBSET Slots
    PROVE  /\ IsFiniteSet(S) /\ Cardinality(S) \in Nat
           /\ Cardinality(S) <= Cardinality(Slots)
           /\ \A T \in SUBSET S : Cardinality(T) <= Cardinality(S)
<1>1. IsFiniteSet(S) /\ Cardinality(S) <= Cardinality(Slots)
  BY CreationAssumption, FS_Subset
<1>2. QED BY <1>1, FS_CardinalityType, FS_Subset

\* A request that counts meets the two guards: fewer rows than the limit, and
\* fewer requests between the count and the insert than are considered.
LEMMA CountedClaims ==
    ASSUME CreationTypes, NEW s \in Slots, Counted(creation[s])
    PROVE  Cardinality(Claimants) + 1 <= MaxPendingOrders - 1 + MaxInFlight
<1>1. Claimants = PendingRows \cup At("insert")
  BY DEF Claimants, Claims, PendingRows, At
<1>2. /\ IsFiniteSet(PendingRows) /\ IsFiniteSet(At("insert"))
      /\ Cardinality(PendingRows) \in Nat /\ Cardinality(At("insert")) \in Nat
      /\ Cardinality(PendingRows \cap At("insert")) \in Nat
  BY SlotSetsFinite DEF PendingRows, At
<1>3. Cardinality(Claimants) = Cardinality(PendingRows) + Cardinality(At("insert"))
                                 - Cardinality(PendingRows \cap At("insert"))
  BY <1>1, <1>2, FS_Union
<1>4. Cardinality(At("insert")) < MaxInFlight
      /\ Cardinality(PendingRows) < MaxPendingOrders
  BY DEF Counted
<1>5. MaxInFlight \in Nat /\ MaxPendingOrders \in Nat
  BY CreationAssumption
<1>6. QED BY <1>2, <1>3, <1>4, <1>5

LEMMA BoundsStep ==
    ASSUME CreationInv, NEW s \in Slots, NEW r \in Creations,
           creation' = [creation EXCEPT ![s] = r],
           \/ Quiet(creation[s], r) \/ Selected(r)
           \/ Counted(creation[s]) \/ Collected(creation[s], r)
    PROVE  CreationBounds' /\ usedToday' \in Nat /\ setAside' \in 0..MaxSetAside
<1>1. /\ creation \in [Slots -> Creations] /\ usedToday \in Nat
      /\ Cardinality(Claimants) <= MaxPendingOrders - 1 + MaxInFlight
      /\ usedToday + setAside + Cardinality(Debtors)
           <= InstanceDailyLimit - 1 + Cardinality(Slots) + MaxSetAside
      /\ setAside \in 0..MaxSetAside
  BY DEF CreationInv, CreationTypes, CreationBounds
<1>2. creation'[s] = r /\ \A t \in Slots \ {s} : creation'[t] = creation[t]
  BY <1>1
<1>3. /\ MaxInFlight \in Nat \ {0} /\ MaxPendingOrders \in Nat \ {0}
      /\ InstanceDailyLimit \in Nat \ {0} /\ MaxSetAside \in Nat
  BY CreationAssumption
<1> DEFINE claimants == Claimants'
           debtors == Debtors'
<1>4. /\ claimants = {t \in Slots : Claims(creation'[t])}
      /\ debtors = {t \in Slots : Unpaid(creation'[t])}
  BY DEF Claimants, Debtors, Claims, Unpaid
<1>5. /\ claimants \subseteq Claimants \cup {s} /\ debtors \subseteq Debtors \cup {s}
      /\ claimants \subseteq Slots /\ debtors \subseteq Slots
      /\ s \in claimants <=> Claims(r)
      /\ s \in debtors <=> Unpaid(r)
      /\ s \in Claimants <=> Claims(creation[s])
      /\ s \in Debtors <=> Unpaid(creation[s])
  BY <1>2, <1>4 DEF Claimants, Debtors
<1> HIDE DEF claimants, debtors
<1>6. /\ Claimants \subseteq Slots /\ Debtors \subseteq Slots
  BY DEF Claimants, Debtors
<1>7. /\ IsFiniteSet(Claimants) /\ IsFiniteSet(Debtors)
      /\ Cardinality(Claimants) \in Nat /\ Cardinality(Debtors) \in Nat
      /\ Cardinality(claimants) \in Nat /\ Cardinality(debtors) \in Nat
      /\ Cardinality(Slots) \in Nat /\ Cardinality(debtors) <= Cardinality(Slots)
  BY <1>5, <1>6, SlotSetsFinite
<1>8. /\ claimants \subseteq Claimants
           => Cardinality(claimants) <= Cardinality(Claimants)
      /\ debtors \subseteq Debtors => Cardinality(debtors) <= Cardinality(Debtors)
  BY <1>6, SlotSetsFinite
<1>9. SUFFICES /\ Cardinality(claimants) <= MaxPendingOrders - 1 + MaxInFlight
               /\ usedToday' + setAside' + Cardinality(debtors)
                    <= InstanceDailyLimit - 1 + Cardinality(Slots) + MaxSetAside
               /\ usedToday' \in Nat /\ setAside' \in 0..MaxSetAside
  BY DEF CreationBounds, claimants, debtors
<1>10. CASE Quiet(creation[s], r)
  <2>1. claimants \subseteq Claimants /\ debtors \subseteq Debtors
        /\ usedToday' = usedToday /\ setAside' = setAside
    BY <1>5, <1>10 DEF Quiet
  <2>2. QED BY <1>1, <1>3, <1>7, <1>8, <2>1
<1>11. CASE Selected(r)
  <2>1. claimants \subseteq Claimants /\ usedToday' = usedToday /\ setAside' = setAside
        /\ usedToday + 1 <= InstanceDailyLimit
    BY <1>5, <1>11 DEF Selected
  <2>2. QED BY <1>1, <1>3, <1>7, <1>8, <2>1
<1>12. CASE Counted(creation[s])
  <2>1. debtors \subseteq Debtors /\ usedToday' = usedToday /\ setAside' = setAside
    BY <1>5, <1>12 DEF Counted
  <2>2. Cardinality(Claimants \cup {s}) <= Cardinality(Claimants) + 1
        /\ IsFiniteSet(Claimants \cup {s})
    BY <1>7, FS_AddElement
  <2>3. Cardinality(claimants) <= Cardinality(Claimants \cup {s})
        /\ Cardinality(Claimants \cup {s}) \in Nat
    BY <1>5, <2>2, FS_Subset, FS_CardinalityType
  <2>4. Cardinality(Claimants) + 1 <= MaxPendingOrders - 1 + MaxInFlight
    BY <1>12, CountedClaims DEF CreationInv
  <2>5. QED BY <1>1, <1>3, <1>7, <1>8, <2>1, <2>2, <2>3, <2>4
<1>13. CASE Collected(creation[s], r)
  <2>1. claimants \subseteq Claimants /\ debtors \subseteq Debtors \ {s}
        /\ s \in Debtors /\ usedToday' = usedToday + 1 /\ setAside' = setAside
    BY <1>5, <1>13 DEF Collected
  <2>2. Cardinality(Debtors \ {s}) = Cardinality(Debtors) - 1
        /\ IsFiniteSet(Debtors \ {s})
    BY <1>7, <2>1, FS_RemoveElement
  <2>3. Cardinality(debtors) <= Cardinality(Debtors) - 1
    BY <2>1, <2>2, FS_Subset
  <2>4. QED BY <1>1, <1>3, <1>7, <1>8, <2>1, <2>3
<1>14. QED BY <1>10, <1>11, <1>12, <1>13

LEMMA InitCreation == CreationInit => CreationInv
<1> SUFFICES ASSUME CreationInit PROVE CreationInv
  OBVIOUS
<1>1. NoCreation \in Creations /\ SlotOK(NoCreation)
      /\ ~Claims(NoCreation) /\ ~Unpaid(NoCreation)
  BY DEF NoCreation, Creations, CreationPCs, RowStatuses, SlotOK, Claims, Unpaid
<1>2. CreationTypes /\ \A s \in Slots : SlotOK(creation[s])
  BY <1>1, CreationAssumption DEF CreationInit, CreationTypes
<1>3. Claimants = {} /\ Debtors = {}
  BY <1>1 DEF CreationInit, Claimants, Debtors
<1>4. /\ MaxInFlight \in Nat \ {0} /\ MaxPendingOrders \in Nat \ {0}
      /\ InstanceDailyLimit \in Nat \ {0} /\ Cardinality(Slots) \in Nat
      /\ MaxSetAside \in Nat
  BY CreationAssumption, FS_CardinalityType
<1>5. CreationBounds
  BY <1>3, <1>4, FS_EmptySet DEF CreationBounds, CreationInit
<1>6. QED BY <1>2, <1>5 DEF CreationInv

LEMMA NextCreation == CreationInv /\ [CreationNext]_creationVars => CreationInv'
<1> SUFFICES ASSUME CreationInv, [CreationNext]_creationVars PROVE CreationInv'
  OBVIOUS
<1>1. ASSUME NEW s \in Slots, SlotNext(s) PROVE CreationInv'
  <2>1. PICK r \in Creations :
          /\ creation' = [creation EXCEPT ![s] = r]
          /\ SlotOK(r)
          /\ \/ Quiet(creation[s], r) \/ Selected(r)
             \/ Counted(creation[s]) \/ Collected(creation[s], r)
    BY <1>1, SlotSteps DEF SlotMoves
  <2>2. CreationBounds' /\ usedToday' \in Nat /\ setAside' \in 0..MaxSetAside
    BY <2>1, BoundsStep
  <2>3. /\ creation' \in [Slots -> Creations]
        /\ \A t \in Slots : SlotOK(creation'[t])
    BY <2>1 DEF CreationInv, CreationTypes
  <2>4. QED BY <2>2, <2>3 DEF CreationInv, CreationTypes, SlotOK
<1>2. CASE PaidOrderFails \/ PaidOrderReturns \/ BizDayEnds
  <2>1. /\ usedToday \in Nat /\ setAside \in 0..MaxSetAside /\ MaxSetAside \in Nat
        /\ InstanceDailyLimit \in Nat /\ Cardinality(Debtors) \in Nat
        /\ Cardinality(Slots) \in Nat
    BY CreationAssumption, SlotSetsFinite DEF CreationInv, CreationTypes, Debtors
  <2>2. /\ creation' = creation /\ usedToday' \in Nat
        /\ setAside' \in 0..MaxSetAside
        /\ usedToday' + setAside' <= usedToday + setAside
    BY <1>2, <2>1 DEF PaidOrderFails, PaidOrderReturns, BizDayEnds
  <2>3. Claimants' = Claimants /\ Debtors' = Debtors
    BY <2>2 DEF Claimants, Debtors
  <2>4. /\ Cardinality(Claimants) <= MaxPendingOrders - 1 + MaxInFlight
        /\ usedToday + setAside + Cardinality(Debtors)
             <= InstanceDailyLimit - 1 + Cardinality(Slots) + MaxSetAside
    BY DEF CreationInv, CreationBounds
  <2> DEFINE debts == Cardinality(Debtors)
  <2>5. usedToday' + setAside' + debts
          <= InstanceDailyLimit - 1 + Cardinality(Slots) + MaxSetAside
    <3>1. {usedToday', setAside', usedToday, setAside, debts} \subseteq Nat
      BY <2>1, <2>2
    <3> HIDE DEF debts
    <3>2. usedToday' + setAside' + debts <= usedToday + setAside + debts
      BY <2>2, <3>1
    <3>3. QED BY <2>1, <2>4, <3>1, <3>2 DEF debts
  <2>6. CreationBounds'
    BY <2>3, <2>4, <2>5 DEF CreationBounds
  <2>7. QED BY <2>2, <2>6 DEF CreationInv, CreationTypes
<1>3. CASE UNCHANGED creationVars
  BY <1>3 DEF creationVars, CreationInv, CreationTypes, CreationBounds, Claimants,
     Debtors
<1>4. QED BY <1>1, <1>2, <1>3 DEF CreationNext, SlotNext

(***************************************************************************)
(* The trade of an order.                                                  *)
(***************************************************************************)

TradeWords ==
    [easypay |-> {"0", "1"},
     stripe |-> {"requires_payment_method", "succeeded", "canceled"},
     wxpay |-> {"NOTPAY", "PAYERROR", "SUCCESS", "CLOSED"},
     alipay |-> {"ACQ.TRADE_NOT_EXIST", "WAIT_BUYER_PAY", "TRADE_SUCCESS",
                 "TRADE_FINISHED", "TRADE_CLOSED"}]

Answers == {"none", "error", "paid", "pending", "failed", "refunded"}

CancellerCalls == [pc : {"idle", "query", "cancel", "close"}, answer : Answers,
                   hadMoney : BOOLEAN, closed : BOOLEAN]

TradeTypes ==
    /\ gateway \in Gateways
    /\ trade \in TradeWords[gateway]
    /\ money \in BOOLEAN
    /\ canceller \in [Cancellers -> CancellerCalls]

\* The gateway's word says whether the customer has paid, and a trade can only
\* be paid for once the payment was created, which a deleted row's was not.
MoneyInv ==
    /\ money <=> trade \in {PaidWord[gateway], "TRADE_FINISHED"}
    /\ money => way # "none"
    /\ status = "deleted" => way = "none"
    /\ status = "PAID" => money
    /\ \A e \in events : verifyNotification(e) = "success" => money

\* What a canceller heard was true when it heard it, and a trade that it took
\* back at Stripe or WeChat Pay stays closed.
HeardTrue(c, word) ==
    /\ c.answer = "paid" => c.hadMoney
    /\ c.answer \in {"pending", "failed"} => ~c.hadMoney
    /\ c.closed /\ gateway \in {"stripe", "wxpay"} => word = ClosedWord[gateway]

TradeInv ==
    TradeTypes /\ MoneyInv /\ \A c \in Cancellers : HeardTrue(canceller[c], trade)

\* The words of the four gateways, for the lemmas below.
LEMMA Words ==
    ASSUME TradeTypes
    PROVE  \/ /\ gateway = "easypay" /\ trade \in {"0", "1"}
              /\ PaidWord[gateway] = "1" /\ ClosedWord[gateway] = "-"
              /\ PaidEvent[gateway] = "TRADE_SUCCESS"
           \/ /\ gateway = "stripe"
              /\ trade \in {"requires_payment_method", "succeeded", "canceled"}
              /\ PaidWord[gateway] = "succeeded" /\ ClosedWord[gateway] = "canceled"
              /\ PaidEvent[gateway] = "payment_intent.succeeded"
           \/ /\ gateway = "wxpay"
              /\ trade \in {"NOTPAY", "PAYERROR", "SUCCESS", "CLOSED"}
              /\ PaidWord[gateway] = "SUCCESS" /\ ClosedWord[gateway] = "CLOSED"
              /\ PaidEvent[gateway] = "TRANSACTION.SUCCESS"
           \/ /\ gateway = "alipay"
              /\ trade \in {"ACQ.TRADE_NOT_EXIST", "WAIT_BUYER_PAY",
                            "TRADE_SUCCESS", "TRADE_FINISHED", "TRADE_CLOSED"}
              /\ PaidWord[gateway] = "TRADE_SUCCESS"
              /\ ClosedWord[gateway] = "TRADE_CLOSED"
              /\ PaidEvent[gateway] = "TRADE_SUCCESS"
<1>1. gateway \in {"easypay", "stripe", "wxpay", "alipay"}
  BY DEF TradeTypes, Gateways
<1>2. CASE gateway = "easypay"
  BY <1>2 DEF TradeTypes, TradeWords, PaidWord, ClosedWord, PaidEvent
<1>3. CASE gateway = "stripe"
  BY <1>3 DEF TradeTypes, TradeWords, PaidWord, ClosedWord, PaidEvent
<1>4. CASE gateway = "wxpay"
  BY <1>4 DEF TradeTypes, TradeWords, PaidWord, ClosedWord, PaidEvent
<1>5. CASE gateway = "alipay"
  BY <1>5 DEF TradeTypes, TradeWords, PaidWord, ClosedWord, PaidEvent
<1>6. QED BY <1>1, <1>2, <1>3, <1>4, <1>5

\* An adapter that answers does not mistake a paid trade for an unpaid one, nor
\* the other way round, even if the trade is another gateway's.
LEMMA AnswersAreTrue ==
    ASSUME TradeInv, NEW a \in queryOrder
    PROVE  /\ a \in Answers
           /\ a = "paid" => money
           /\ a \in {"pending", "failed"} => ~money
<1>1. money <=> trade \in {PaidWord[gateway], "TRADE_FINISHED"}
  BY DEF TradeInv, MoneyInv
<1>2. TradeTypes
  BY DEF TradeInv
<1>3. CASE gateway = "easypay"
  <2>1. a \in {"error", easypayQuery(trade)}
    BY <1>3 DEF queryOrder, easypayAnswers
  <2>2. QED BY <1>1, <1>2, <1>3, <2>1, Words DEF easypayQuery, Answers
<1>4. CASE gateway = "stripe"
  <2>1. a \in {"error", stripeQuery(trade)}
    BY <1>4 DEF queryOrder, easypayAnswers, stripeAnswers
  <2>2. QED BY <1>1, <1>2, <1>4, <2>1, Words DEF stripeQuery, Answers
<1>5. CASE gateway = "wxpay"
  <2>1. a \in {"error", wxpayQuery(trade)}
    BY <1>5 DEF queryOrder, easypayAnswers, wxpayAnswers
  <2>2. QED BY <1>1, <1>2, <1>5, <2>1, Words DEF wxpayQuery, Answers
<1>6. CASE gateway = "alipay"
  <2>1. a \in {"error", alipayQuery(trade)}
    BY <1>6 DEF queryOrder, easypayAnswers, alipayAnswers
  <2>2. QED BY <1>1, <1>2, <1>6, <2>1, Words DEF alipayQuery, Answers
<1>7. QED BY <1>2, <1>3, <1>4, <1>5, <1>6 DEF TradeTypes, Gateways

\* A gateway's event says success only for a paid trade, and the word of a trade
\* that was closed or can still be paid is not one for paid.
LEMMA WordsDiffer ==
    ASSUME TradeTypes
    PROVE  /\ Untouched[gateway] \in Payable \cup {"ACQ.TRADE_NOT_EXIST"}
           /\ {PaidWord[gateway], "TRADE_FINISHED"}
                \cap (Payable \cup {"ACQ.TRADE_NOT_EXIST", ClosedWord[gateway]}) = {}
           /\ ClosedWord[gateway] \notin Payable
           /\ gateway # "easypay" => ClosedWord[gateway] \in TradeWords[gateway]
           /\ PaidWord[gateway] \in TradeWords[gateway]
           /\ gateway = "wxpay" => "PAYERROR" \in TradeWords[gateway]
           /\ trade \in {"ACQ.TRADE_NOT_EXIST", "TRADE_SUCCESS", "WAIT_BUYER_PAY"}
                => gateway = "alipay"
           /\ gateway = "alipay" => {"WAIT_BUYER_PAY", "TRADE_FINISHED"}
                                      \subseteq TradeWords[gateway]
<1>1. gateway \in {"easypay", "stripe", "wxpay", "alipay"}
  BY DEF TradeTypes, Gateways
<1>2. QED BY <1>1, Words
          DEF TradeTypes, Payable, PaidWord, ClosedWord, Untouched, TradeWords

\* The events that are not for a payment.
LEMMA OtherEvents ==
    ASSUME TradeTypes
    PROVE  /\ gateway = "stripe"
                => verifyNotification("payment_intent.payment_failed") # "success"
           /\ gateway = "alipay" => verifyNotification("WAIT_BUYER_PAY") # "success"
BY DEF verifyNotification, stripeVerify, alipayVerify

\* What a step that leaves the cancellers alone must not do.
LEMMA HeardStays ==
    ASSUME TradeInv, gateway' = gateway, NEW c \in Cancellers,
           canceller'[c] = canceller[c], trade' = trade \/ trade # ClosedWord[gateway]
    PROVE  HeardTrue(canceller[c], trade)'
<1>1. HeardTrue(canceller[c], trade)
  BY DEF TradeInv
<1>2. QED BY <1>1 DEF HeardTrue

LEMMA TradeSteps ==
    ASSUME TradeInv,
           \/ CustomerPays \/ PaymentFails \/ CustomerOpensAlipay \/ TradeFinishes
           \/ CreatePayment \/ CreatePaymentThrows \/ OpenPaymentEntry \/ GraceEnds
           \/ \E e \in events : Notify(e)
    PROVE  TradeInv'
<1>1. TradeTypes /\ MoneyInv
  BY DEF TradeInv
<1>2. gateway' = gateway /\ canceller' = canceller
  BY DEF CustomerPays, PaymentFails, CustomerOpensAlipay, TradeFinishes,
     CreatePayment, CreatePaymentThrows, OpenPaymentEntry, GraceEnds, Notify
<1>3. \A e : verifyNotification(e)' = verifyNotification(e)
  BY <1>2 DEF verifyNotification
<1>4. SUFFICES /\ trade' \in TradeWords[gateway] /\ money' \in BOOLEAN
               /\ (trade' = trade \/ trade # ClosedWord[gateway])
               /\ MoneyInv'
  BY <1>1, <1>2, HeardStays DEF TradeInv, TradeTypes
<1>5. CASE CustomerPays
  BY <1>1, <1>2, <1>3, <1>5, WordsDiffer DEF CustomerPays, MoneyInv
<1>6. CASE PaymentFails
  <2>1. CASE gateway = "wxpay"
    <3>1. /\ trade \in Payable /\ trade' = "PAYERROR"
          /\ UNCHANGED <<money, way, status, events>>
      BY <1>6, <2>1 DEF PaymentFails
    <3>2. "PAYERROR" \in Payable
      BY DEF Payable
    <3>3. QED BY <1>1, <1>2, <1>3, <2>1, <3>1, <3>2, WordsDiffer
              DEF MoneyInv, TradeTypes
  <2>2. CASE gateway = "stripe"
    <3>1. /\ UNCHANGED <<trade, money, way, status>>
          /\ events' = events \cup {"payment_intent.payment_failed"}
      BY <1>6, <2>2 DEF PaymentFails
    <3>2. QED BY <1>1, <1>2, <1>3, <2>2, <3>1, OtherEvents DEF MoneyInv, TradeTypes
  <2>3. QED BY <1>6, <2>1, <2>2 DEF PaymentFails
<1>7. CASE CustomerOpensAlipay
  <2>1. /\ trade = "ACQ.TRADE_NOT_EXIST" /\ trade' = "WAIT_BUYER_PAY"
        /\ events' = events \cup {"WAIT_BUYER_PAY"}
        /\ UNCHANGED <<money, way, status>>
    BY <1>7 DEF CustomerOpensAlipay
  <2>2. /\ gateway = "alipay" /\ "WAIT_BUYER_PAY" \in Payable
        /\ trade # ClosedWord[gateway]
    BY <1>1, <2>1, WordsDiffer, Words DEF Payable
  <2>3. QED BY <1>1, <1>2, <1>3, <2>1, <2>2, WordsDiffer, OtherEvents
            DEF MoneyInv, TradeTypes
<1>8. CASE TradeFinishes
  <2>1. /\ trade = "TRADE_SUCCESS" /\ trade' = "TRADE_FINISHED"
        /\ UNCHANGED <<money, way, status>>
    BY <1>8 DEF TradeFinishes
  <2>2. gateway = "alipay" /\ PaidWord[gateway] = "TRADE_SUCCESS"
    BY <1>1, <2>1, WordsDiffer, Words
  <2>3. QED BY <1>1, <1>2, <1>3, <2>1, <2>2, WordsDiffer DEF MoneyInv, TradeTypes
<1>9. CASE CreatePayment
  <2>1. way' # "none"
    <3>1. /\ gateway \in {"easypay", "stripe", "wxpay", "alipay"}
          /\ way' \in Ways[gateway]
      BY <1>1, <1>9 DEF CreatePayment, TradeTypes, Gateways
    <3>2. QED BY <3>1 DEF Ways, easypayWays, easypayCreate, stripeWays, wxpayWays,
              createPcOrder, createH5Order, alipayWays, buildAlipayPaymentUrl,
              pageExecute, buildAlipayEntryUrl
  <2>2. QED BY <1>1, <1>2, <1>3, <1>9, <2>1
            DEF CreatePayment, MoneyInv, TradeTypes
<1>10. CASE CreatePaymentThrows
  BY <1>1, <1>2, <1>3, <1>10 DEF CreatePaymentThrows, MoneyInv, TradeTypes
<1>11. CASE OpenPaymentEntry \/ GraceEnds
  BY <1>1, <1>2, <1>3, <1>11 DEF OpenPaymentEntry, GraceEnds, MoneyInv, TradeTypes
<1>12. CASE \E e \in events : Notify(e)
  <2>1. PICK e \in events : Notify(e)
    BY <1>12
  <2>2. UNCHANGED <<trade, money, way>> /\ events' \subseteq events
    BY <2>1 DEF Notify
  <2>3. status' = status \/ (status' = "PAID" /\ money)
    BY <1>1, <2>1 DEF Notify, Confirmed, MoneyInv
  <2>4. QED BY <1>1, <1>2, <1>3, <2>2, <2>3 DEF MoneyInv, TradeTypes
<1>13. QED BY <1>5, <1>6, <1>7, <1>8, <1>9, <1>10, <1>11, <1>12

LEMMA CancellerSteps ==
    ASSUME TradeInv, NEW c \in Cancellers,
           \/ BeginCancel(c) \/ Query(c) \/ Cancelled(c) \/ NothingToCancel(c)
           \/ CancelFails(c) \/ CloseOrder(c)
    PROVE  TradeInv'
<1>1. TradeTypes /\ MoneyInv /\ \A d \in Cancellers : HeardTrue(canceller[d], trade)
  BY DEF TradeInv
<1>2. UNCHANGED <<gateway, way, money, events>>
  BY DEF BeginCancel, Query, Cancelled, NothingToCancel, CancelFails, CloseOrder
<1>3. \A e : verifyNotification(e)' = verifyNotification(e)
  BY <1>2 DEF verifyNotification
<1>4. canceller[c] \in CancellerCalls /\ canceller \in [Cancellers -> CancellerCalls]
  BY <1>1 DEF TradeTypes
<1>5. ASSUME NEW call \in CancellerCalls,
             canceller' = [canceller EXCEPT ![c] = call],
             trade' = trade \/ (trade' = ClosedWord[gateway] /\ gateway # "easypay"),
             trade' # trade => ~money,
             status' \in {status, "PAID", "CANCELLED", "EXPIRED"},
             status' = "PAID" /\ status # "PAID" => money,
             HeardTrue(call, trade')
      PROVE  TradeInv'
  <2>1. trade' \in TradeWords[gateway] /\ canceller' \in [Cancellers -> CancellerCalls]
    BY <1>1, <1>4, <1>5, WordsDiffer DEF TradeTypes
  <2>2. trade' = trade \/ (trade' = ClosedWord[gateway] /\ ~money)
    BY <1>5
  <2>3. MoneyInv'
    BY <1>1, <1>2, <1>3, <1>5, <2>2, WordsDiffer DEF MoneyInv
  <2>4. ASSUME NEW d \in Cancellers PROVE HeardTrue(canceller[d], trade)'
    <3>1. CASE d = c
      BY <1>2, <1>4, <1>5, <3>1 DEF HeardTrue
    <3>2. CASE d # c
      BY <1>1, <1>2, <1>5, <3>2 DEF HeardTrue
    <3>3. QED BY <3>1, <3>2
  <2>5. QED BY <1>1, <1>2, <2>1, <2>3, <2>4 DEF TradeInv, TradeTypes
<1>6. CASE BeginCancel(c)
  <2> DEFINE call == [NoCall EXCEPT !.pc = IF way = "none" THEN "close" ELSE "query"]
  <2>1. canceller' = [canceller EXCEPT ![c] = call] /\ UNCHANGED <<trade, status>>
    BY <1>6 DEF BeginCancel
  <2>2. call \in CancellerCalls /\ HeardTrue(call, trade')
    BY DEF NoCall, CancellerCalls, Answers, HeardTrue
  <2>3. QED BY <1>5, <2>1, <2>2
<1>7. CASE Query(c)
  <2>1. PICK a \in queryOrder :
          /\ canceller' = [canceller EXCEPT ![c] =
                 [@ EXCEPT !.answer = a, !.hadMoney = money,
                           !.pc = CASE a = "paid" -> "idle"
                                    [] a = "error" -> "close"
                                    [] OTHER -> "cancel"]]
          /\ status' = IF a = "paid" THEN Confirmed ELSE status
    BY <1>7 DEF Query
  <2> DEFINE pc == CASE a = "paid" -> "idle" [] a = "error" -> "close"
                     [] OTHER -> "cancel"
             told == [canceller[c] EXCEPT !.answer = a, !.hadMoney = money]
             call == [told EXCEPT !.pc = pc]
  <2>2. canceller' = [canceller EXCEPT ![c] = call] /\ UNCHANGED trade
    BY <1>4, <1>7, <2>1 DEF Query, CancellerCalls
  <2>3. /\ a \in Answers
        /\ a = "paid" => money
        /\ a \in {"pending", "failed"} => ~money
    BY AnswersAreTrue
  <2>4. pc \in {"idle", "close", "cancel"} /\ money \in BOOLEAN
    BY <1>1 DEF TradeTypes
  <2> HIDE DEF pc
  <2>5. told \in CancellerCalls /\ HeardTrue(told, trade)
    BY <1>1, <1>4, <2>3, <2>4 DEF CancellerCalls, HeardTrue
  <2>6. call \in CancellerCalls /\ HeardTrue(call, trade')
    <3> HIDE DEF told
    <3>1. QED BY <2>2, <2>4, <2>5 DEF CancellerCalls, HeardTrue
  <2>7. status' = status \/ (status' = "PAID" /\ money)
    BY <2>1, <2>3 DEF Confirmed
  <2>8. QED BY <1>5, <2>2, <2>6, <2>7
<1>8. CASE Cancelled(c)
  <2> DEFINE call == [canceller[c] EXCEPT !.pc = "close", !.closed = TRUE]
  <2>1. /\ canceller' = [canceller EXCEPT ![c] = call] /\ UNCHANGED status
        /\ trade' = ClosedWord[gateway] /\ gateway # "easypay"
        /\ \/ trade \in Payable
           \/ trade = ClosedWord[gateway]
    BY <1>4, <1>8 DEF Cancelled, Returned, CanCancel
  <2>2. ~money
    BY <1>1, <2>1, WordsDiffer DEF MoneyInv
  <2>3. call \in CancellerCalls /\ HeardTrue(call, trade')
    BY <1>1, <1>2, <1>4, <2>1 DEF CancellerCalls, HeardTrue
  <2>4. QED BY <1>5, <2>1, <2>2, <2>3
<1>9. CASE NothingToCancel(c)
  <2> DEFINE call == [canceller[c] EXCEPT !.pc = "close", !.closed = TRUE]
  <2>1. /\ canceller' = [canceller EXCEPT ![c] = call] /\ UNCHANGED <<trade, status>>
        /\ \/ gateway = "easypay"
           \/ trade = "ACQ.TRADE_NOT_EXIST"
    BY <1>4, <1>9 DEF NothingToCancel, Returned
  <2>2. gateway \notin {"stripe", "wxpay"}
    BY <1>1, <2>1, WordsDiffer
  <2>3. call \in CancellerCalls /\ HeardTrue(call, trade')
    BY <1>1, <1>2, <1>4, <2>2 DEF CancellerCalls, HeardTrue
  <2>4. QED BY <1>5, <2>1, <2>3
<1>10. CASE CancelFails(c)
  <2> DEFINE call == [canceller[c] EXCEPT !.pc = "close", !.closed = FALSE]
  <2>1. canceller' = [canceller EXCEPT ![c] = call] /\ UNCHANGED <<trade, status>>
    BY <1>4, <1>10 DEF CancelFails, Returned
  <2>2. call \in CancellerCalls /\ HeardTrue(call, trade')
    BY <1>1, <1>2, <1>4 DEF CancellerCalls, HeardTrue
  <2>3. QED BY <1>5, <2>1, <2>2
<1>11. CASE CloseOrder(c)
  <2> DEFINE call == [canceller[c] EXCEPT !.pc = "idle"]
  <2>1. /\ canceller' = [canceller EXCEPT ![c] = call] /\ UNCHANGED trade
        /\ status' \in {status, "CANCELLED", "EXPIRED"}
    BY <1>4, <1>11 DEF CloseOrder, FinalStatus, Cancellers
  <2>2. call \in CancellerCalls /\ HeardTrue(call, trade')
    BY <1>1, <1>2, <1>4, <2>1 DEF CancellerCalls, HeardTrue
  <2>3. QED BY <1>5, <2>1, <2>2
<1>12. QED BY <1>6, <1>7, <1>8, <1>9, <1>10, <1>11

LEMMA InitTrade == Init => TradeInv
<1> SUFFICES ASSUME Init PROVE TradeInv
  OBVIOUS
<1>1. /\ gateway \in Gateways /\ trade = Untouched[gateway] /\ money = FALSE
      /\ events = {} /\ status = "PENDING"
      /\ canceller = [c \in Cancellers |-> NoCall]
  BY DEF Init, TradeInit, NoTrade, Gateways, Untouched
<1>2. NoCall \in CancellerCalls /\ HeardTrue(NoCall, trade)
  BY DEF NoCall, CancellerCalls, Answers, HeardTrue
<1>3. trade \in TradeWords[gateway]
      /\ trade \notin {PaidWord[gateway], "TRADE_FINISHED"}
  <2>1. CASE gateway = "easypay"
    BY <1>1, <2>1 DEF Untouched, TradeWords, PaidWord
  <2>2. CASE gateway = "stripe"
    BY <1>1, <2>2 DEF Untouched, TradeWords, PaidWord
  <2>3. CASE gateway = "wxpay"
    BY <1>1, <2>3 DEF Untouched, TradeWords, PaidWord
  <2>4. CASE gateway = "alipay"
    BY <1>1, <2>4 DEF Untouched, TradeWords, PaidWord
  <2>5. QED BY <1>1, <2>1, <2>2, <2>3, <2>4 DEF Gateways
<1>4. TradeTypes /\ MoneyInv
  BY <1>1, <1>2, <1>3 DEF TradeTypes, MoneyInv
<1>5. QED BY <1>1, <1>2, <1>4 DEF TradeInv

LEMMA NextTrade == TradeInv /\ [TradeNext]_tradeVars => TradeInv'
<1> SUFFICES ASSUME TradeInv, [TradeNext]_tradeVars PROVE TradeInv'
  OBVIOUS
<1>1. CASE \E c \in Cancellers :
              \/ BeginCancel(c) \/ Query(c) \/ Cancelled(c) \/ NothingToCancel(c)
              \/ CancelFails(c) \/ CloseOrder(c)
  BY <1>1, CancellerSteps
<1>2. CASE UNCHANGED tradeVars
  <2>1. \A e : verifyNotification(e)' = verifyNotification(e)
    BY <1>2 DEF tradeVars, verifyNotification
  <2>2. QED BY <1>2, <2>1 DEF tradeVars, TradeInv, TradeTypes, MoneyInv, HeardTrue
<1>3. QED BY <1>1, <1>2, TradeSteps DEF TradeNext

(***************************************************************************)
(* The limit on cancellations.                                             *)
(***************************************************************************)

Entry == [at : Nat, nr : Nat]
RecentEntries == {e \in cancelled : e.at >= windowStart}

CancelTypes ==
    /\ now \in Nat /\ open \in Nat /\ creating \in Nat /\ closing \in Nat
    /\ windowMode \in {"rolling", "fixed"}
    /\ cancelled \in SUBSET Entry /\ IsFiniteSet(cancelled)
    /\ \A e \in cancelled : e.at <= now

\* Neither orders nor creations nor cancellations exceed what may overlap, and
\* an open order, one on its way or one that is being cancelled is an entry to
\* come.
CancelInv ==
    /\ CancelTypes
    /\ creating <= MaxCreating /\ open <= MaxOpen - 1 + MaxCreating
    /\ closing <= MaxCancelling
    /\ recentCancelCount + closing + open + creating
         <= (MaxCount - 1) + (MaxOpen - 1 + MaxCreating) + MaxCreating + MaxCancelling

\* A unit begins no later than the time it holds, and less than a unit earlier.
LEMMA UnitHolds ==
    ASSUME NEW t \in Nat, NEW u \in Nat \ {0}
    PROVE  /\ t \div u \in Nat /\ (t \div u) * u \in Nat
           /\ (t \div u) * u <= t /\ t < (t \div u) * u + u
<1>1. t = u * (t \div u) + (t % u)
  OBVIOUS
<1>2. t % u \in 0..(u - 1) /\ t \div u \in Nat
  OBVIOUS
<1>3. QED BY <1>1, <1>2

\* Units follow one another.
LEMMA UnitsFollow ==
    ASSUME NEW t \in Nat, NEW u \in Nat \ {0}
    PROVE  (t \div u) * u <= ((t + 1) \div u) * u
<1> DEFINE p == t \div u
           q == (t + 1) \div u
<1>1. p \in Nat /\ q \in Nat /\ p * u <= t /\ t + 1 < q * u + u
  BY UnitHolds
<1> HIDE DEF p, q
<1>2. p <= q
  <2> SUFFICES ASSUME q + 1 <= p PROVE FALSE
    BY <1>1
  <2>1. (q + 1) * u <= p * u
    BY <1>1
  <2>2. (q + 1) * u = q * u + u
    BY <1>1
  <2>3. q * u \in Nat /\ p * u \in Nat
    BY <1>1
  <2>4. QED BY <1>1, <2>1, <2>2, <2>3
<1>3. p * u <= q * u
  BY <1>1, <1>2
<1>4. QED BY <1>3 DEF p, q

\* The window only moves forward.
LEMMA WindowMoves ==
    ASSUME CancelTypes, now' = now + 1, windowMode' = windowMode
    PROVE  windowStart \in Int /\ windowStart' \in Int /\ windowStart <= windowStart'
<1>1. now \in Nat /\ Unit \in Nat \ {0} /\ WindowSize \in Nat \ {0}
  BY CancelAssumption DEF CancelTypes
<1> DEFINE a == (now \div Unit) * Unit
           b == (now' \div Unit) * Unit
           c == (WindowSize - 1) * Unit
           d == WindowSize * Unit
<1>2. a \in Nat /\ b \in Nat /\ a <= b
  <2>1. now' \in Nat /\ b = ((now + 1) \div Unit) * Unit
    BY <1>1
  <2>2. QED BY <1>1, <2>1, UnitHolds, UnitsFollow
<1>3. c \in Int /\ d \in Int
  BY <1>1
<1>4. /\ windowStart = IF windowMode = "fixed" THEN a - c ELSE now - d
      /\ windowStart' = IF windowMode = "fixed" THEN b - c ELSE now' - d
  BY DEF windowStart
<1> HIDE DEF a, b, c, d
<1>5. QED BY <1>1, <1>2, <1>3, <1>4

\* A number is left for another entry: there are more of them than entries.
LEMMA EntryIsNew ==
    ASSUME CancelTypes
    PROVE  NewEntry \in Entry /\ NewEntry.at = now /\ NewEntry \notin cancelled
<1> DEFINE k == Cardinality(cancelled)
           entry(n) == [at |-> now, nr |-> n]
<1>1. k \in Nat
  BY FS_CardinalityType DEF CancelTypes
<1>2. \E n \in 1..(k + 1) : entry(n) \notin cancelled
  <2> SUFFICES ASSUME \A n \in 1..(k + 1) : entry(n) \in cancelled PROVE FALSE
    OBVIOUS
  <2> DEFINE f == [n \in 1..(k + 1) |-> entry(n)]
  <2>1. f \in [1..(k + 1) -> cancelled] /\ \A m, n \in 1..(k + 1) : f[m] = f[n] => m = n
    OBVIOUS
  <2>2. IsFiniteSet(1..(k + 1)) /\ Cardinality(1..(k + 1)) = k + 1
    BY <1>1, FS_Interval
  <2>3. IsFiniteSet(cancelled) /\ Cardinality(cancelled) < Cardinality(1..(k + 1))
    BY <1>1, <2>2 DEF CancelTypes
  <2>4. \E m, n \in 1..(k + 1) : m # n /\ f[m] = f[n]
    <3> HIDE DEF f
    <3>1. QED BY <2>1, <2>2, <2>3, FS_PigeonHole
  <2>5. QED BY <2>1, <2>4
<1>3. PICK n \in 1..(k + 1) : NewEntry = entry(n) /\ entry(n) \notin cancelled
  BY <1>2 DEF NewEntry
<1>4. QED BY <1>1, <1>3 DEF Entry, CancelTypes

LEMMA RecentFinite ==
    ASSUME CancelTypes
    PROVE  IsFiniteSet(RecentEntries) /\ Cardinality(RecentEntries) \in Nat
BY FS_Subset, FS_CardinalityType DEF CancelTypes, RecentEntries

LEMMA InitCancels == CancelInit => CancelInv
<1> SUFFICES ASSUME CancelInit PROVE CancelInv
  OBVIOUS
<1>1. CancelTypes
  <2>1. WindowSize * Unit \in Nat
    BY CancelAssumption
  <2>2. QED BY <2>1, FS_EmptySet DEF CancelInit, CancelTypes
<1>2. recentCancelCount = 0
  <2>1. {e \in cancelled : e.at >= windowStart} = {}
    BY DEF CancelInit
  <2>2. QED BY <2>1, FS_EmptySet DEF recentCancelCount
<1>3. {MaxCount, MaxOpen, MaxCreating} \subseteq Nat \ {0} /\ MaxCancelling \in Nat
  BY CancelAssumption
<1>4. open = 0 /\ creating = 0 /\ closing = 0
  BY DEF CancelInit
<1>5. QED BY <1>1, <1>2, <1>3, <1>4 DEF CancelInv

LEMMA NextCancels == CancelInv /\ [CancelNext]_cancelVars => CancelInv'
<1> SUFFICES ASSUME CancelInv, [CancelNext]_cancelVars PROVE CancelInv'
  OBVIOUS
<1>1. CancelTypes /\ RecentEntries' = {e \in cancelled' : e.at >= windowStart'}
  BY DEF CancelInv, RecentEntries
<1>2. recentCancelCount = Cardinality(RecentEntries) /\ recentCancelCount \in Nat
  BY <1>1, RecentFinite DEF recentCancelCount, RecentEntries
<1>3. {MaxCount, MaxOpen, MaxCreating} \subseteq Nat \ {0} /\ MaxCancelling \in Nat
  BY CancelAssumption
<1>4. CASE UNCHANGED <<now, windowMode, cancelled>>
  <2>1. recentCancelCount' = recentCancelCount
    BY <1>4 DEF recentCancelCount, windowStart
  <2>2. \/ creating < MaxCreating /\ recentCancelCount < MaxCount
           /\ creating' = creating + 1 /\ UNCHANGED <<open, closing>>
        \/ /\ open < MaxOpen
           /\ \E n \in 1..creating : creating' = creating - n /\ open' = open + n
           /\ closing' = closing
        \/ creating > 0 /\ creating' = creating - 1 /\ UNCHANGED <<open, closing>>
        \/ /\ open > 0 /\ closing < MaxCancelling
           /\ open' = open - 1 /\ closing' = closing + 1 /\ creating' = creating
        \/ closing > 0 /\ closing' = closing - 1 /\ UNCHANGED <<open, creating>>
        \/ open > 0 /\ open' = open - 1 /\ UNCHANGED <<creating, closing>>
        \/ UNCHANGED <<open, creating, closing>>
    <3>1. CASE CancelIsLogged
      BY <3>1 DEF CancelIsLogged
    <3>2. CASE TimePasses
      BY <1>4, <3>2 DEF TimePasses, CancelTypes
    <3>3. QED
      BY <3>1, <3>2 DEF CancelNext, PassCheck, InsertOrder, CreationFails,
                        UserCancels, LogFails, OrderCloses, cancelVars
  <2>3. creating' \in Nat /\ open' \in Nat /\ closing' \in Nat
    BY <1>1, <2>2 DEF CancelTypes
  <2>4. CancelTypes'
    BY <1>1, <1>4, <2>3 DEF CancelTypes
  <2>5. /\ creating' <= MaxCreating /\ open' <= MaxOpen - 1 + MaxCreating
        /\ closing' <= MaxCancelling
        /\ recentCancelCount + closing' + open' + creating'
             <= (MaxCount - 1) + (MaxOpen - 1 + MaxCreating) + MaxCreating
                  + MaxCancelling
    BY <1>1, <1>2, <1>3, <2>2 DEF CancelInv, CancelTypes
  <2>6. QED BY <2>1, <2>4, <2>5 DEF CancelInv
<1>5. CASE CancelIsLogged
  <2>1. /\ closing > 0 /\ closing' = closing - 1
        /\ UNCHANGED <<now, windowMode, open, creating>>
        /\ cancelled' = cancelled \cup {NewEntry}
    BY <1>5 DEF CancelIsLogged
  <2>2. NewEntry \in Entry /\ NewEntry.at = now
    BY <1>1, EntryIsNew
  <2>3. CancelTypes'
    <3>1. IsFiniteSet(cancelled')
      BY <1>1, <2>1, FS_AddElement DEF CancelTypes
    <3>2. QED BY <1>1, <2>1, <2>2, <3>1 DEF CancelTypes
  <2>4. recentCancelCount' <= recentCancelCount + 1 /\ recentCancelCount' \in Nat
    <3>1. RecentEntries' \subseteq RecentEntries \cup {NewEntry}
      BY <1>1, <2>1 DEF RecentEntries, windowStart
    <3>2. /\ IsFiniteSet(RecentEntries \cup {NewEntry})
          /\ Cardinality(RecentEntries \cup {NewEntry})
               \in {Cardinality(RecentEntries), Cardinality(RecentEntries) + 1}
      BY <1>1, RecentFinite, FS_AddElement
    <3>3. /\ Cardinality(RecentEntries') <= Cardinality(RecentEntries \cup {NewEntry})
          /\ Cardinality(RecentEntries') \in Nat
      BY <3>1, <3>2, FS_Subset, FS_CardinalityType
    <3>4. recentCancelCount' = Cardinality(RecentEntries')
      BY <1>1 DEF recentCancelCount
    <3>5. QED BY <1>2, <3>2, <3>3, <3>4
  <2>5. QED BY <1>1, <1>2, <1>3, <2>1, <2>3, <2>4 DEF CancelInv, CancelTypes
<1>6. CASE TimePasses
  <2>1. /\ now' = now + 1 /\ UNCHANGED <<windowMode, open, creating, closing>>
        /\ cancelled' \subseteq cancelled
    BY <1>6 DEF TimePasses
  <2>2. CancelTypes'
    <3>1. IsFiniteSet(cancelled')
      BY <1>1, <2>1, FS_Subset DEF CancelTypes
    <3>2. \A e \in cancelled' : e.at \in Nat /\ e.at <= now
      BY <1>1, <2>1 DEF CancelTypes, Entry
    <3>3. QED BY <1>1, <2>1, <3>1, <3>2 DEF CancelTypes
  <2>3. recentCancelCount' <= recentCancelCount /\ recentCancelCount' \in Nat
    <3>1. RecentEntries' \subseteq RecentEntries
      <4>1. windowStart \in Int /\ windowStart' \in Int /\ windowStart <= windowStart'
        BY <1>1, <2>1, WindowMoves
      <4>2. \A e \in cancelled : e.at \in Nat
        BY <1>1 DEF CancelTypes, Entry
      <4>3. QED BY <1>1, <2>1, <4>1, <4>2 DEF RecentEntries
    <3>2. Cardinality(RecentEntries') <= Cardinality(RecentEntries)
          /\ Cardinality(RecentEntries') \in Nat
      BY <1>1, <3>1, RecentFinite, FS_Subset, FS_CardinalityType
    <3>3. recentCancelCount' = Cardinality(RecentEntries')
      BY <1>1 DEF recentCancelCount
    <3>4. QED BY <1>2, <3>2, <3>3
  <2>4. QED BY <1>1, <1>2, <1>3, <2>1, <2>2, <2>3 DEF CancelInv, CancelTypes
<1>7. QED
  BY <1>4, <1>5, <1>6 DEF CancelNext, PassCheck, InsertOrder, CreationFails,
                          UserCancels, LogFails, OrderCloses, cancelVars

(***************************************************************************)
(* The offer: what the published limits say about the instances.           *)
(***************************************************************************)

\* Every set of numbers has a least one.
LEMMA LeastNumber ==
    ASSUME NEW S \in SUBSET Nat, S # {}
    PROVE  \E n \in S : \A m \in S : n <= m
<1>1. PICK n \in S : \A m \in S : <<m, n>> \notin OpToRel(<, Nat)
  BY WFMin, NatLessThanWellFounded, Zenon
<1>2. \A m \in S : ~(m < n)
  BY <1>1, Zenon DEF OpToRel
<1>3. QED BY <1>2

Widest == [singleMin |-> Infinity, singleMax |-> 0, blocked |-> TRUE]

\* What the fold of aggregateInstanceLimits computes for the subsets of S.
Unfolds(g, rows, earned, S) ==
    g = [s \in SUBSET S |->
            IF s = {} THEN Widest
            ELSE widen(g[s \ {Max(s)}], rows[Max(s)], earned)]

\* Some numbers up to n have a largest one.
LEMMA MaxHolds ==
    ASSUME NEW n \in Nat, NEW s \in SUBSET (1..n), s # {}
    PROVE  Max(s) \in s /\ \A i \in s : i <= Max(s)
<1> DEFINE Above == {m \in Nat : \A i \in s : i <= m}
<1>1. n \in Above
  OBVIOUS
<1>2. PICK m \in Above : \A k \in Above : m <= k
  <2> HIDE DEF Above
  <2>1. Above \in SUBSET Nat
    BY DEF Above
  <2>2. QED BY <1>1, <2>1, LeastNumber
<1>3. m \in s
  <2> SUFFICES ASSUME m \notin s PROVE FALSE
    OBVIOUS
  <2>1. \A i \in s : i <= m - 1 /\ i >= 1
    BY <1>2
  <2>2. m - 1 \in Above
    <3>1. PICK i \in s : TRUE
      OBVIOUS
    <3>2. i <= m - 1 /\ i >= 1 /\ i \in Nat /\ m \in Nat
      BY <1>2, <2>1
    <3>3. m - 1 \in Nat
      BY <3>2
    <3>4. QED BY <2>1, <3>3
  <2>3. QED BY <1>2, <2>2
<1>4. \E x \in s : \A y \in s : x >= y
  BY <1>2, <1>3
<1>5. QED BY <1>4 DEF Max

LEMMA MaxIs ==
    ASSUME NEW n \in Nat, NEW s \in SUBSET (1..n), n \in s
    PROVE  Max(s) = n
<1>1. Max(s) \in s /\ n <= Max(s)
  BY MaxHolds
<1>2. Max(s) \in 1..n
  BY <1>1
<1>3. QED BY <1>1, <1>2

LEMMA FoldExists ==
    ASSUME NEW rows, NEW earned, NEW n \in Nat
    PROVE  \E g : Unfolds(g, rows, earned, 1..n)
<1> DEFINE Bad == {m \in Nat : ~ \E g : Unfolds(g, rows, earned, 1..m)}
<1> SUFFICES ASSUME Bad # {} PROVE FALSE
  OBVIOUS
<1>1. PICK m \in Bad : \A k \in Bad : m <= k
  BY LeastNumber
<1>2. m # 0
  <2>1. Unfolds([s \in SUBSET {} |-> Widest], rows, earned, {})
    BY DEF Unfolds
  <2>2. 1..0 = {}
    OBVIOUS
  <2>3. QED BY <2>1, <2>2
<1>3. PICK g : Unfolds(g, rows, earned, 1..(m - 1))
  <2>1. m - 1 \in Nat /\ m - 1 \notin Bad
    BY <1>1, <1>2
  <2>2. QED BY <2>1
<1> DEFINE h == [s \in SUBSET (1..m) |->
                   IF m \in s THEN widen(g[s \ {m}], rows[m], earned) ELSE g[s]]
<1>4. Unfolds(h, rows, earned, 1..m)
  <2> SUFFICES ASSUME NEW s \in SUBSET (1..m)
               PROVE  h[s] = IF s = {} THEN Widest
                             ELSE widen(h[s \ {Max(s)}], rows[Max(s)], earned)
    BY DEF Unfolds
  <2>1. CASE m \in s
    <3>1. Max(s) = m
      BY <1>1, <2>1, MaxIs
    <3>2. h[s \ {m}] = g[s \ {m}]
      OBVIOUS
    <3>3. QED BY <2>1, <3>1, <3>2
  <2>2. CASE m \notin s
    <3>1. s \in SUBSET (1..(m - 1)) /\ h[s] = g[s]
      BY <2>2
    <3>2. h[s \ {Max(s)}] = g[s \ {Max(s)}]
      BY <2>2
    <3>3. g[s] = IF s = {} THEN Widest
                 ELSE widen(g[s \ {Max(s)}], rows[Max(s)], earned)
      BY <1>3, <3>1 DEF Unfolds
    <3>4. QED BY <3>1, <3>2, <3>3
  <2>3. QED BY <2>1, <2>2
<1>5. QED BY <1>1, <1>4

Supporting(rows, type) == {i \in 1..Len(rows) : supports(rows[i], type)}
Folded(rows, type, earned) ==
    CHOOSE g : Unfolds(g, rows, earned, Supporting(rows, type))

Closed(agg) == [agg EXCEPT !.singleMin = IF @ = Infinity THEN 0 ELSE @]

LEMMA LimitsAreFolded ==
    ASSUME NEW rows, NEW type, NEW earned
    PROVE  aggregateInstanceLimits(rows, type, earned)
             = LET S == Supporting(rows, type)
                   agg == Folded(rows, type, earned)[S]
               IN IF S = {}
                  THEN [singleMin |-> 0, singleMax |-> 0, blocked |-> FALSE]
                  ELSE Closed(agg)
BY Zenon DEF Closed, aggregateInstanceLimits, MapThenFoldSet, Folded, Supporting, Unfolds, Widest

\* What holds of the range to begin with, and of every widened one, holds of
\* the range before the last instance.
LEMMA FoldKeeps ==
    ASSUME NEW rows, Len(rows) \in Nat, NEW type, NEW earned, NEW Inv,
           Supporting(rows, type) # {}, Widest \in Inv,
           \A a \in Inv : \A i \in Supporting(rows, type) :
               widen(a, rows[i], earned) \in Inv
    PROVE  \E a \in Inv : \E i \in Supporting(rows, type) :
               Folded(rows, type, earned)[Supporting(rows, type)]
                 = widen(a, rows[i], earned)
<1> DEFINE S == Supporting(rows, type)
           L == Folded(rows, type, earned)
           n == Len(rows)
<1>1. S \in SUBSET (1..n) /\ n \in Nat
  BY DEF Supporting
<1>2. Unfolds(L, rows, earned, S)
  <2>1. PICK g : Unfolds(g, rows, earned, 1..n)
    BY <1>1, FoldExists
  <2> DEFINE h == [s \in SUBSET S |-> g[s]]
  <2> HIDE DEF S
  <2>2. \A s \in SUBSET S : s \in SUBSET (1..n) /\ s \ {Max(s)} \in SUBSET S
    BY <1>1
  <2>3. \A s \in SUBSET S :
          h[s] = IF s = {} THEN Widest
                 ELSE widen(h[s \ {Max(s)}], rows[Max(s)], earned)
    BY <2>1, <2>2 DEF Unfolds
  <2>4. Unfolds(h, rows, earned, S)
    BY <2>3 DEF Unfolds
  <2>5. QED BY <2>4 DEF Folded, S
<1> HIDE DEF S, L, n
<1>3. \A s \in SUBSET S :
        L[s] = IF s = {} THEN Widest ELSE widen(L[s \ {Max(s)}], rows[Max(s)], earned)
  BY <1>2 DEF Unfolds
<1>4. \A s \in SUBSET S : s # {} => Max(s) \in s /\ \A i \in s : i <= Max(s)
  BY <1>1, MaxHolds
<1>5. \A s \in SUBSET S : L[s] \in Inv
  <2> DEFINE Bad == {m \in Nat : \E s \in SUBSET S : s \subseteq 1..m /\ L[s] \notin Inv}
  <2> SUFFICES ASSUME Bad # {} PROVE FALSE
    BY <1>1
  <2>1. PICK m \in Bad : \A k \in Bad : m <= k
    <3> HIDE DEF Bad
    <3>1. Bad \in SUBSET Nat
      BY DEF Bad
    <3>2. QED BY <3>1, LeastNumber
  <2>2. PICK s \in SUBSET S : s \subseteq 1..m /\ L[s] \notin Inv
    BY <2>1
  <2>3. s # {}
    BY <1>3, <2>2
  <2>4. Max(s) \in S /\ Max(s) \in 1..m /\ \A i \in s : i <= Max(s)
    BY <1>4, <2>2, <2>3
  <2>5. s \ {Max(s)} \subseteq 1..(Max(s) - 1) /\ Max(s) - 1 \in Nat
    <3> DEFINE x == Max(s)
    <3>1. x \in 1..m /\ m \in Nat /\ \A i \in s : i <= x /\ i \in 1..m
      BY <2>1, <2>2, <2>4
    <3> HIDE DEF x
    <3>2. \A i \in s \ {x} : i \in 1..(x - 1)
      BY <3>1
    <3>3. s \ {x} \subseteq 1..(x - 1) /\ x - 1 \in Nat
      BY <3>1, <3>2
    <3>4. QED BY <3>3 DEF x
  <2>6. Max(s) - 1 \notin Bad
    BY <2>1, <2>4, <2>5
  <2>7. L[s \ {Max(s)}] \in Inv
    BY <2>5, <2>6
  <2>8. L[s] = widen(L[s \ {Max(s)}], rows[Max(s)], earned)
    BY <1>3, <2>3
  <2>9. QED BY <2>2, <2>4, <2>7, <2>8 DEF S
<1>6. Max(S) \in S /\ L[S] = widen(L[S \ {Max(S)}], rows[Max(S)], earned)
  BY <1>3, <1>4 DEF S
<1>7. L[S \ {Max(S)}] \in Inv
  BY <1>5
<1>8. QED BY <1>6, <1>7 DEF S, L


(***************************************************************************)
(* What is published.                                                      *)
(***************************************************************************)

\* Kept folded from here on: Zenon counts up to a number.
LEMMA InfinityIsNumber == Infinity \in Nat \ {0}
BY SMT DEF Infinity

Range0 == [singleMin : 0..Infinity, singleMax : Nat, blocked : BOOLEAN]

\* The instance has nothing left that its minimum fits in.
Blocks(inst, earned) ==
    inst.dailyLimit > 0 /\ inst.dailyLimit - earned[inst.id] <= inst.singleMin

Holders(rows, type) == {rows[i] : i \in Supporting(rows, type)}

Alike(insts) ==
    \A i, j \in insts : i.singleMin = j.singleMin /\ i.singleMax = j.singleMax

LEMMA WidenIs ==
    ASSUME NEW a \in Range0, NEW inst \in InstanceRows, NEW earned
    PROVE  LET w == widen(a, inst, earned)
           IN /\ w \in Range0
              /\ w.singleMin \in {0, inst.singleMin, a.singleMin}
              /\ w.singleMin <= inst.singleMin
              /\ w.singleMax \in {0, inst.singleMax, a.singleMax}
              /\ inst.singleMax > 0 => w.singleMax >= inst.singleMax
              /\ inst.singleMax = 0 => w.singleMax = 0
              /\ w.blocked <=> a.blocked /\ Blocks(inst, earned)
<1>1. /\ a.singleMin \in 0..Infinity /\ a.singleMax \in Nat /\ a.blocked \in BOOLEAN
      /\ inst.singleMin \in 0..(Infinity - 1) /\ inst.singleMax \in Nat
      /\ inst.dailyLimit \in Nat
  BY DEF Range0, InstanceRows
<1> DEFINE low == IF inst.singleMin = 0 THEN 0
                  ELSE IF inst.singleMin < a.singleMin THEN inst.singleMin
                  ELSE a.singleMin
           high == IF inst.singleMax = 0 THEN 0
                   ELSE IF inst.singleMax > a.singleMax THEN inst.singleMax
                   ELSE a.singleMax
           shut == a.blocked /\ Blocks(inst, earned)
           w == widen(a, inst, earned)
<1>2. w = [singleMin |-> low, singleMax |-> high, blocked |-> shut]
  BY Zenon DEF widen, Blocks
<1>3. Infinity \in Nat \ {0}
  BY InfinityIsNumber
<1>4. /\ low \in 0..Infinity /\ low \in {0, inst.singleMin, a.singleMin}
      /\ low <= inst.singleMin
      /\ high \in Nat /\ high \in {0, inst.singleMax, a.singleMax}
      /\ inst.singleMax > 0 => high >= inst.singleMax
      /\ inst.singleMax = 0 => high = 0
  BY <1>1, <1>3
<1>5. shut \in BOOLEAN
  BY DEF Blocks
<1> HIDE DEF low, high, shut
<1>6. /\ w.singleMin = low /\ w.singleMax = high /\ w.blocked = shut /\ w \in Range0
  BY <1>2, <1>4, <1>5 DEF Range0
<1>7. w.blocked <=> a.blocked /\ Blocks(inst, earned)
  BY <1>6 DEF shut
<1>8. QED BY <1>4, <1>6, <1>7 DEF w

\* The published range is one of amounts; if all instances that share the
\* method have one range it is theirs; and if the method is not blocked, one
\* of them is not.
RangeOK(agg, insts, earned) ==
    /\ agg.singleMin \in Nat /\ agg.singleMax \in Nat /\ agg.blocked \in BOOLEAN
    /\ insts # {} /\ ~agg.blocked => \E i \in insts : ~Blocks(i, earned)
    /\ Alike(insts) =>
         \A i \in insts : agg.singleMin = i.singleMin /\ agg.singleMax = i.singleMax

LEMMA RangeIsTheirs ==
    ASSUME NEW rows, Len(rows) \in Nat, NEW type, NEW earned,
           \A i \in 1..Len(rows) : rows[i] \in InstanceRows
    PROVE  RangeOK(aggregateInstanceLimits(rows, type, earned), Holders(rows, type), earned)
<1> DEFINE S == Supporting(rows, type)
           insts == Holders(rows, type)
           all == Folded(rows, type, earned)[S]
           agg == aggregateInstanceLimits(rows, type, earned)
<1>1. /\ S = {} => agg = [singleMin |-> 0, singleMax |-> 0, blocked |-> FALSE]
      /\ S # {} => agg = Closed(all)
  BY LimitsAreFolded
<1> HIDE DEF agg, S, all
<1>2. \A i \in S : rows[i] \in InstanceRows /\ rows[i] \in insts
  BY DEF Supporting, Holders, S
<1>3. Infinity \in Nat \ {0} /\ Widest \in Range0
  BY InfinityIsNumber DEF Widest, Range0
<1>4. CASE S = {}
  <2>1. insts = {}
    BY <1>4 DEF Holders, S
  <2>2. agg.singleMin \in Nat /\ agg.singleMax \in Nat /\ agg.blocked \in BOOLEAN
    <3>1. agg = [singleMin |-> 0, singleMax |-> 0, blocked |-> FALSE]
      BY <1>1, <1>4
    <3>2. agg.singleMin = 0 /\ agg.singleMax = 0
      BY <3>1
    <3>3. agg.blocked = FALSE
      BY <3>1, Zenon
    <3>4. agg.blocked \in BOOLEAN
      BY <3>3, Zenon
    <3>5. agg.singleMin \in Nat /\ agg.singleMax \in Nat
      BY <3>2
    <3>6. QED BY <3>4, <3>5, Zenon
  <2>3. QED BY <2>1, <2>2 DEF agg, RangeOK
<1>5. CASE S # {}
  <2>1. PICK a \in Range0, i \in S : all = widen(a, rows[i], earned)
    <3>1. \A a \in Range0 : \A i \in S : widen(a, rows[i], earned) \in Range0
      BY <1>2, WidenIs
    <3>2. QED BY <1>3, <1>5, <3>1, FoldKeeps DEF S, all
  <2>2. all \in Range0 /\ all.singleMin <= rows[i].singleMin
        /\ rows[i].singleMin \in 0..(Infinity - 1)
    <3>1. rows[i] \in InstanceRows
      BY <1>2
    <3>2. rows[i].singleMin \in 0..(Infinity - 1)
      BY <3>1 DEF InstanceRows
    <3>3. QED BY <2>1, <3>1, <3>2, WidenIs
  <2>3. agg = all
    <3>1. Closed(all) = all
      BY <1>3, <2>2 DEF Range0, Closed
    <3>2. QED BY <1>1, <1>5, <3>1
  <2>4. insts # {} /\ ~agg.blocked => \E j \in insts : ~Blocks(j, earned)
    <3> SUFFICES ASSUME \A j \in insts : Blocks(j, earned) PROVE agg.blocked
      OBVIOUS
    <3> DEFINE Shut == {b \in Range0 : b.blocked}
    <3>1. Widest \in Shut
      BY <1>3 DEF Widest
    <3>2. \A b \in Shut : \A j \in S : widen(b, rows[j], earned) \in Shut
      BY <1>2, WidenIs
    <3>3. \E b \in Shut : \E j \in S : all = widen(b, rows[j], earned)
      <4> HIDE DEF Shut
      <4>1. QED BY <1>5, <3>1, <3>2, FoldKeeps DEF S, all
    <3>4. QED BY <2>3, <3>2, <3>3
  <2>5. ASSUME Alike(insts), NEW inst \in insts
        PROVE  agg.singleMin = inst.singleMin /\ agg.singleMax = inst.singleMax
    <3>1. \A j \in S : /\ rows[j].singleMin = inst.singleMin
                       /\ rows[j].singleMax = inst.singleMax
      BY <1>2, <2>5 DEF Alike
    <3>2. PICK j \in S : inst = rows[j]
      BY DEF Holders, S
    <3>3. inst \in InstanceRows /\ inst.singleMin \in 0..(Infinity - 1)
          /\ inst.singleMax \in Nat
      BY <1>2, <3>2 DEF InstanceRows
    <3> DEFINE Same == {b \in Range0 : /\ b.singleMin \in {inst.singleMin, Infinity}
                                       /\ b.singleMax \in {inst.singleMax, 0}}
    <3>4. Widest \in Same
      BY <1>3 DEF Widest
    <3>5. ASSUME NEW b \in Same, NEW k \in S
          PROVE  LET w == widen(b, rows[k], earned)
                 IN /\ w \in Range0
                    /\ w.singleMin = inst.singleMin
                    /\ w.singleMax = inst.singleMax
      <4>1. rows[k].singleMin = inst.singleMin /\ rows[k].singleMax = inst.singleMax
            /\ rows[k] \in InstanceRows
        BY <1>2, <3>1
      <4> DEFINE w == widen(b, rows[k], earned)
      <4>2. /\ w \in Range0
            /\ w.singleMin \in {0, inst.singleMin, b.singleMin}
            /\ w.singleMax \in {0, inst.singleMax, b.singleMax}
            /\ inst.singleMax > 0 => w.singleMax >= inst.singleMax
        BY <4>1, WidenIs
      <4>3. w.singleMin = IF inst.singleMin = 0 THEN 0
                          ELSE IF inst.singleMin < b.singleMin THEN inst.singleMin
                          ELSE b.singleMin
        BY <4>1 DEF widen
      <4> HIDE DEF w
      <4>4. QED BY <1>3, <3>3, <4>2, <4>3 DEF w
    <3>6. \A b \in Same : \A k \in S : widen(b, rows[k], earned) \in Same
      BY <3>5
    <3>7. PICK b \in Same, k \in S : all = widen(b, rows[k], earned)
      <4> HIDE DEF Same
      <4>1. QED BY <1>5, <3>4, <3>6, FoldKeeps DEF S, all
    <3>8. QED BY <2>3, <3>5, <3>7
  <2>6. agg.singleMin \in Nat /\ agg.singleMax \in Nat /\ agg.blocked \in BOOLEAN
    BY <1>3, <2>2, <2>3 DEF Range0
  <2>7. QED BY <2>4, <2>5, <2>6 DEF agg, RangeOK
<1>6. QED BY <1>4, <1>5


LEMMA SmallerOfTwo ==
    ASSUME NEW a \in Nat, NEW b \in Nat
    PROVE  Min({a, b}) \in {a, b} /\ Min({a, b}) <= a /\ Min({a, b}) <= b
<1>1. \E x \in {a, b} : \A y \in {a, b} : x <= y
  OBVIOUS
<1>2. QED BY <1>1 DEF Min

LEMMA TightestOfTwo ==
    ASSUME NEW a \in Nat, NEW b \in Nat
    PROVE  /\ Tightest({a, b}) \in Nat
           /\ a > 0 => Tightest({a, b}) \in 1..a
           /\ b > 0 => Tightest({a, b}) \in 1..b
<1>1. CASE a = 0 /\ b = 0
  BY <1>1 DEF Tightest
<1>2. CASE a # 0 \/ b # 0
  <2>1. \E x \in {a, b} \ {0} : \A y \in {a, b} \ {0} : x <= y
    BY <1>2
  <2>2. /\ Min({a, b} \ {0}) \in {a, b} \ {0}
        /\ \A y \in {a, b} \ {0} : Min({a, b} \ {0}) <= y
    BY <2>1 DEF Min
  <2>3. Tightest({a, b}) = Min({a, b} \ {0})
    BY <1>2 DEF Tightest
  <2>4. QED BY <2>2, <2>3
<1>3. QED BY <1>1, <1>2

\* What a method publishes: if it is available, its range is within what is
\* left of the day and within the range of its instances.
LEMMA PublishedRange ==
    ASSUME NEW inst, inst.singleMin \in Nat, inst.singleMax \in Nat,
           NEW daily \in Nat, NEW single \in Nat, NEW spent \in Nat, NEW rate
    PROVE  LET o == queryMethodLimits(inst, daily, single, spent, rate)
           IN /\ o.singleMin = inst.singleMin /\ o.singleMax \in Nat
              /\ o.feeRate = rate
              /\ o.available => ~inst.blocked
              /\ o.available /\ daily > 0 => o.singleMax > 0 /\ spent + o.singleMax <= daily
              /\ o.available /\ inst.singleMax > 0 => o.singleMax \in 1..inst.singleMax
<1> DEFINE remaining == IF daily > spent THEN daily - spent ELSE 0
           tight == Tightest({single, inst.singleMax})
           least == Min({tight, remaining})
           high == IF daily = 0 THEN tight ELSE IF tight = 0 THEN remaining ELSE least
           shown == /\ daily = 0 \/ spent < daily
                    /\ ~inst.blocked
                    /\ inst.singleMin = 0 \/ high >= inst.singleMin
           o == queryMethodLimits(inst, daily, single, spent, rate)
<1>1. o = [available |-> shown, singleMin |-> inst.singleMin, singleMax |-> high,
           feeRate |-> rate]
  BY Zenon DEF queryMethodLimits
<1>2. remaining \in Nat
  OBVIOUS
<1>3. tight \in Nat /\ (inst.singleMax > 0 => tight \in 1..inst.singleMax)
  BY TightestOfTwo
<1> HIDE DEF tight
<1>4. least \in {tight, remaining} /\ least <= tight /\ least <= remaining
  BY <1>2, <1>3, SmallerOfTwo
<1> HIDE DEF least
<1>5. /\ high \in Nat
      /\ spent < daily => high > 0 /\ spent + high <= daily
      /\ spent < daily \/ daily = 0 =>
            (inst.singleMax > 0 => high \in 1..inst.singleMax)
  BY <1>2, <1>3, <1>4
<1>6. /\ shown => ~inst.blocked
      /\ shown => daily = 0 \/ spent < daily
  OBVIOUS
<1> HIDE DEF high, shown
<1>7. /\ o.available = shown /\ o.singleMin = inst.singleMin /\ o.singleMax = high
      /\ o.feeRate = rate
  BY <1>1
<1>8. QED BY <1>5, <1>6, <1>7


(***************************************************************************)
(* The choice of an instance.                                              *)
(***************************************************************************)

LEMMA SomeAreFinite ==
    ASSUME NEW n \in Nat, NEW C \in SUBSET (1..n)
    PROVE  IsFiniteSet(C) /\ Cardinality(C) \in Nat
<1>1. IsFiniteSet(1..n)
  <2>1. 1 \in Int /\ n \in Int
    OBVIOUS
  <2>2. QED BY <2>1, FS_Interval
<1>2. IsFiniteSet(C)
  BY <1>1, FS_Subset
<1>3. QED BY <1>2, FS_CardinalityType

LEMMA RankExists ==
    ASSUME NEW n \in Nat, NEW C \in SUBSET (1..n), NEW k \in Nat, k < Cardinality(C)
    PROVE  \E i \in C : Cardinality({j \in C : j < i}) = k
<1> DEFINE upto(m) == {j \in C : j <= m}
           f(m) == Cardinality(upto(m))
           Above == {m \in 0..n : f(m) > k}
<1>1. \A m : IsFiniteSet(upto(m)) /\ f(m) \in Nat
  <2> TAKE m
  <2>1. upto(m) \in SUBSET (1..n)
    OBVIOUS
  <2> HIDE DEF upto
  <2>2. QED BY <2>1, SomeAreFinite
<1>2. f(n) = Cardinality(C)
  <2>1. upto(n) = C
    <3>1. \A j \in C : j <= n
      OBVIOUS
    <3>2. QED BY <3>1
  <2> HIDE DEF upto
  <2>2. QED BY <2>1
<1>3. f(0) = 0
  <2>1. upto(0) = {}
    <3>1. \A j \in C : ~(j <= 0)
      OBVIOUS
    <3>2. QED BY <3>1
  <2> HIDE DEF upto
  <2>2. QED BY <2>1, FS_EmptySet
<1>4. \A m \in 1..n : m \notin C => f(m) = f(m - 1)
  <2> SUFFICES ASSUME NEW m \in 1..n, m \notin C PROVE f(m) = f(m - 1)
    OBVIOUS
  <2>1. upto(m) = upto(m - 1)
    <3>1. \A j \in C : j <= m <=> j <= m - 1
      OBVIOUS
    <3>2. QED BY <3>1
  <2> HIDE DEF upto
  <2>2. QED BY <2>1
<1>5. \A m \in 1..n : m \in C => f(m) = f(m - 1) + 1
  <2> SUFFICES ASSUME NEW m \in C PROVE f(m) = f(m - 1) + 1
    OBVIOUS
  <2>1. upto(m) = upto(m - 1) \cup {m} /\ m \notin upto(m - 1)
    <3>1. \A j \in C : j <= m <=> j <= m - 1 \/ j = m
      OBVIOUS
    <3>2. ~(m <= m - 1)
      OBVIOUS
    <3>3. QED BY <3>1, <3>2
  <2> HIDE DEF upto
  <2>2. IsFiniteSet(upto(m - 1))
    BY <1>1
  <2>3. QED BY <2>1, <2>2, FS_AddElement
<1>6. \A m \in 1..n : upto(m - 1) = {j \in C : j < m}
  <2> SUFFICES ASSUME NEW m \in 1..n PROVE upto(m - 1) = {j \in C : j < m}
    OBVIOUS
  <2>1. \A j \in C : j < m <=> j <= m - 1
    OBVIOUS
  <2>2. QED BY <2>1
<1>7. \A m \in 1..n : f(m - 1) = Cardinality({j \in C : j < m})
  <2> SUFFICES ASSUME NEW m \in 1..n PROVE f(m - 1) = Cardinality({j \in C : j < m})
    OBVIOUS
  <2>1. upto(m - 1) = {j \in C : j < m}
    BY <1>6
  <2> HIDE DEF upto
  <2>2. QED BY <2>1
<1> HIDE DEF f
<1>8. PICK m \in Above : \A l \in Above : m <= l
  <2>1. n \in Above
    BY <1>2
  <2> HIDE DEF Above
  <2>2. Above \in SUBSET Nat
    BY DEF Above
  <2>3. QED BY <2>1, <2>2, LeastNumber
<1>9. m \in 1..n /\ m - 1 \in 0..n /\ f(m) > k /\ ~(f(m - 1) > k)
  <2>1. m # 0
    BY <1>3, <1>8
  <2>2. m \in 1..n /\ m - 1 \in 0..n /\ f(m) > k
    BY <1>8, <2>1
  <2>3. m - 1 \notin Above
    BY <1>8, <2>2
  <2>4. QED BY <2>2, <2>3
<1>10. f(m) \in Nat /\ f(m - 1) \in Nat
  BY <1>1
<1>11. m \in C /\ f(m - 1) = k
  BY <1>4, <1>5, <1>9, <1>10
<1>12. QED BY <1>7, <1>9, <1>11

LEMMA SelectionIsCandidate ==
    ASSUME NEW rows, Len(rows) \in Nat, NEW C \in SUBSET (1..Len(rows)), C # {},
           NEW strategy, NEW turn \in Nat, NEW earned,
           \A i \in C : earned[rows[i].id] \in Nat
    PROVE  \E i \in C : selectInstance(rows, C, strategy, turn, earned) = rows[i]
<1> DEFINE e(i) == earned[rows[i].id]
           least == {i \in C : \A j \in C : e(i) <= e(j)}
<1>1. C \in SUBSET Nat
  OBVIOUS
<1>2. least # {}
  <2> DEFINE E == {e(i) : i \in C}
  <2>1. E \in SUBSET Nat /\ E # {}
    OBVIOUS
  <2>2. PICK x \in E : \A y \in E : x <= y
    <3> HIDE DEF E
    <3>1. QED BY <2>1, LeastNumber
  <2>3. PICK i \in C : x = e(i)
    BY <2>2
  <2>4. i \in least
    BY <2>2, <2>3
  <2>5. QED BY <2>4
<1>3. Min(least) \in C
  <2>1. \E i \in least : \A j \in least : i <= j
    <3> HIDE DEF least
    <3>1. least \in SUBSET Nat
      BY <1>1 DEF least
    <3>2. QED BY <1>2, <3>1, LeastNumber
  <2>2. Min(least) \in least
    <3> HIDE DEF least
    <3>1. QED BY <2>1 DEF Min
  <2>3. QED BY <2>2
<1> DEFINE c == Cardinality(C)
           next == CHOOSE i \in C : Cardinality({j \in C : j < i}) = turn % c
<1>4. next \in C
  <2>1. c \in Nat /\ c # 0
    BY SomeAreFinite, FS_EmptySet
  <2>2. turn % c \in Nat /\ turn % c < c
    <3> HIDE DEF c
    <3>1. QED BY <2>1
  <2>3. \E i \in C : Cardinality({j \in C : j < i}) = turn % c
    <3> DEFINE k == turn % c
               n == Len(rows)
    <3>1. k \in Nat /\ k < Cardinality(C) /\ n \in Nat /\ C \in SUBSET (1..n)
      BY <2>2
    <3> HIDE DEF k, n
    <3>2. \E i \in C : Cardinality({j \in C : j < i}) = k
      BY <3>1, RankExists
    <3>3. QED BY <3>2 DEF k
  <2>4. QED BY <2>3
<1>5. selectInstance(rows, C, strategy, turn, earned)
        = IF strategy = "least-amount" THEN rows[Min(least)] ELSE rows[next]
  BY Zenon DEF selectInstance
<1> HIDE DEF least, next
<1>6. QED BY <1>3, <1>4, <1>5


LEMMA RemoveShortens ==
    ASSUME NEW S, NEW s \in Seq(S), NEW p \in 1..Len(s)
    PROVE  RemoveAt(s, p) \in Seq(S) /\ Len(RemoveAt(s, p)) <= Len(s)
<1> DEFINE n == Len(s)
           front == SubSeq(s, 1, p - 1)
           back == SubSeq(s, p + 1, n)
<1>1. n \in Nat /\ \A i \in 1..n : s[i] \in S
  OBVIOUS
<1>2. front \in Seq(S) /\ Len(front) = p - 1
  OBVIOUS
<1>3. back \in Seq(S) /\ Len(back) = n - p
  OBVIOUS
<1>4. RemoveAt(s, p) = front \o back
  BY DEF RemoveAt
<1> HIDE DEF front, back
<1>5. front \o back \in Seq(S) /\ Len(front \o back) = Len(front) + Len(back)
  BY <1>2, <1>3, ConcatProperties
<1>6. QED BY <1>1, <1>2, <1>3, <1>4, <1>5


(***************************************************************************)
(* Providers and fees.                                                     *)
(***************************************************************************)

LEMMA TypesDiffer ==
    ASSUME NEW k \in ProviderKeys, NEW l \in ProviderKeys, NEW t,
           t \in supportedTypes(k), t \in supportedTypes(l)
    PROVE  k = l
<1>1. CASE k = "easypay"
  BY <1>1 DEF ProviderKeys, supportedTypes
<1>2. CASE k = "stripe"
  BY <1>2 DEF ProviderKeys, supportedTypes
<1>3. CASE k = "alipay"
  BY <1>3 DEF ProviderKeys, supportedTypes
<1>4. CASE k = "wxpay"
  BY <1>4 DEF ProviderKeys, supportedTypes
<1>5. QED BY <1>1, <1>2, <1>3, <1>4 DEF ProviderKeys

\* The provider of a type is the registered one that supports it.
LEMMA KeyIs ==
    ASSUME NEW K \in SUBSET ProviderKeys, NEW t
    PROVE  /\ \A k \in K : t \in supportedTypes(k) => getProviderKey(K, t) = k
           /\ getProviderKey(K, t) \in K \cup {"none"}
           /\ getProviderKey(K, t) # "none" =>
                /\ getProviderKey(K, t) \in K
                /\ t \in supportedTypes(getProviderKey(K, t))
<1>1. "none" \notin ProviderKeys
  BY DEF ProviderKeys
<1>2. CASE \E k \in K : t \in supportedTypes(k)
  <2>1. getProviderKey(K, t) = CHOOSE k \in K : t \in supportedTypes(k)
    BY <1>2 DEF getProviderKey
  <2>2. getProviderKey(K, t) \in K /\ t \in supportedTypes(getProviderKey(K, t))
    BY <1>2, <2>1
  <2>3. QED BY <1>1, <2>2, TypesDiffer
<1>3. CASE ~ \E k \in K : t \in supportedTypes(k)
  BY <1>3 DEF getProviderKey
<1>4. QED BY <1>2, <1>3

\* Registered only grows, so a provider keeps its types.
LEMMA KeyStays ==
    ASSUME NEW K \in SUBSET ProviderKeys, NEW L \in SUBSET ProviderKeys, K \subseteq L,
           NEW t, getProviderKey(K, t) # "none"
    PROVE  getProviderKey(L, t) = getProviderKey(K, t)
<1>1. getProviderKey(K, t) \in K /\ t \in supportedTypes(getProviderKey(K, t))
  BY KeyIs
<1>2. QED BY <1>1, KeyIs

\* A provider the environment names, or one of the two that an instance can
\* stand for.
HasInstance(k) == \E i \in 1..Len(instances) : instances[i].key = k
Known(k) == k \in EnvProviders \/ (k \in {"stripe", "easypay"} /\ HasInstance(k))

PendingOrder ==
    [inst : instanceIds \cup {NoInstance}, type : Types, amount : Nat, payAmount : Nat]

\* The order that is followed, if it counts, is in what is used.
FollowedTypes ==
    \A f \in followed :
        /\ f \in [order : PendingOrder, counts : BOOLEAN]
        /\ f.counts => /\ f.order.amount <= methodUsed[f.order.type]
                       /\ f.order.inst # NoInstance =>
                            f.order.payAmount <= used[f.order.inst]

ShopTypes ==
    /\ instances \in Catalogues /\ settings \in Settings
    /\ registered \in SUBSET ProviderKeys
    /\ counter \in [ProviderKeys -> 0..(CounterPeriod - 1)]
    /\ used \in [instanceIds -> Nat] /\ methodUsed \in [Types -> Nat]
    /\ FollowedTypes
    /\ pending \in Seq(PendingOrder)
    /\ Len(pending) <= MaxPending
    /\ DOMAIN offer \in SUBSET Types
    /\ \A t \in DOMAIN offer : offer[t].singleMin \in Nat /\ offer[t].singleMax \in Nat

RegisteredInv ==
    EnvProviders \subseteq registered /\ \A k \in registered : Known(k)

\* What a fresh offer still promises.
OfferTrue(t) ==
    LET o == offer[t]
        insts == Holders(instances, t)
    IN /\ \E k \in ProviderKeys : t \in supportedTypes(k) /\ Known(k)
       /\ getProviderKey(EnvProviders, t) # "none" => o.feeRate = FeeRate(EnvProviders, t)
       /\ o.available /\ DailyLimit(t) > 0 =>
            o.singleMax > 0 /\ methodUsed[t] + o.singleMax <= DailyLimit(t)
       /\ o.available /\ insts # {} => \E i \in insts : ~Blocks(i, used)
       /\ o.available /\ Alike(insts) =>
            \A i \in insts : /\ o.singleMin = i.singleMin
                             /\ i.singleMax > 0 => o.singleMax \in 1..i.singleMax

ShopInv ==
    /\ ShopTypes /\ RegisteredInv
    /\ fresh => \A t \in DOMAIN offer : OfferTrue(t)
    /\ OfferIsHonoured


LEMMA RowsAre ==
    ASSUME ShopTypes
    PROVE  /\ instances \in Seq(InstanceRows) /\ settings \in SettingRows
           /\ Len(instances) \in Nat
           /\ \A i \in 1..Len(instances) : instances[i] \in InstanceRows
<1>1. instances \in Seq(InstanceRows) /\ settings \in SettingRows
  BY ShopAssumption DEF ShopTypes
<1> QED BY <1>1

LEMMA RegisteredIs ==
    ASSUME ShopTypes, RegisteredInv
    PROVE  /\ Registered \in SUBSET ProviderKeys /\ registered \subseteq Registered
           /\ EnvProviders \subseteq Registered
           /\ \A k \in Registered : Known(k)
           /\ ~settings.override => Registered = registered
           /\ settings.override =>
                \A k \in settings.providers : Known(k) => k \in Registered
<1>1. {"stripe", "easypay"} \subseteq ProviderKeys
  BY DEF ProviderKeys
<1>2. Registered = IF ~settings.override THEN registered
                   ELSE registered \cup (settings.providers \cap EnvProviders)
                        \cup {k \in settings.providers \cap {"stripe", "easypay"} :
                                 HasInstance(k)}
  BY DEF Registered, ensureDBProviders, registerFromList, HasInstance
<1>3. QED BY <1>1, <1>2 DEF ShopTypes, RegisteredInv, Known

LEMMA LimitTypes ==
    ASSUME ShopTypes, NEW t \in Types
    PROVE  DailyLimit(t) \in Nat /\ SingleLimit(t) \in Nat
<1>1. settings.daily \in Configured /\ settings.single \in Configured
  BY RowsAre DEF SettingRows
<1>2. DefaultDailyMax[t] \in Nat /\ DefaultSingleMax[t] \in Nat
  BY ShopAssumption
<1>3. QED
  BY <1>1, <1>2 DEF DailyLimit, SingleLimit, MethodLimit, getMethodLimit,
                    getDefaultLimit, Configured

LEMMA FeeTypes ==
    ASSUME NEW K \in SUBSET ProviderKeys, NEW t
    PROVE  FeeRate(K, t) \in Nat
<1>1. getProviderKey(K, t) = "none" \/ ProviderFeeRate[getProviderKey(K, t)] \in Configured
  BY KeyIs, ShopAssumption
<1>2. QED BY <1>1 DEF FeeRate, getMethodFeeRate, Configured

\* The fee depends on the provider only.
LEMMA FeeStays ==
    ASSUME NEW K \in SUBSET ProviderKeys, EnvProviders \subseteq K,
           NEW t, getProviderKey(EnvProviders, t) # "none"
    PROVE  FeeRate(K, t) = FeeRate(EnvProviders, t)
BY KeyStays DEF FeeRate


(***************************************************************************)
(* A submission.                                                           *)
(***************************************************************************)

LEMMA AcceptedIs ==
    ASSUME ShopTypes, NEW t \in Types, NEW a \in Amounts, Accepted(t, a)
    PROVE  /\ t \in DOMAIN offer /\ offer[t].available
           /\ a \in Nat /\ a >= offer[t].singleMin
           /\ offer[t].singleMax > 0 => a <= offer[t].singleMax
<1>1. t \in DOMAIN offer /\ isValid(offer[t], a, 1, MaxAmount)
  BY DEF Accepted
<1>2. offer[t].singleMin \in Nat /\ offer[t].singleMax \in Nat
  BY <1>1 DEF ShopTypes
<1>3. a \in Nat
  BY DEF Amounts
<1>4. Max({offer[t].singleMin, 1}) >= offer[t].singleMin
  <2>1. \E x \in {offer[t].singleMin, 1} : \A y \in {offer[t].singleMin, 1} : x >= y
    BY <1>2
  <2>2. QED BY <2>1 DEF Max
<1>5. Max({offer[t].singleMin, 1}) \in Nat
  <2>1. \E x \in {offer[t].singleMin, 1} : \A y \in {offer[t].singleMin, 1} : x >= y
    BY <1>2
  <2>2. QED BY <1>2, <2>1 DEF Max
<1>6. /\ a >= Max({offer[t].singleMin, 1})
      /\ a <= (IF offer[t].singleMax > 0 THEN offer[t].singleMax ELSE MaxAmount)
      /\ offer[t].available
  BY <1>1 DEF isValid
<1>7. QED BY <1>1, <1>2, <1>3, <1>4, <1>5, <1>6

\* What a fresh offer accepts is within what is left of the method's day.
LEMMA FreshIsWithinLimit ==
    ASSUME ShopInv, fresh, NEW t \in Types, NEW a \in Amounts, Accepted(t, a)
    PROVE  ~OverLimit(t, a)
<1>1. ShopTypes /\ OfferTrue(t) /\ offer[t].available /\ a \in Nat
      /\ (offer[t].singleMax > 0 => a <= offer[t].singleMax)
      /\ offer[t].singleMax \in Nat
  BY AcceptedIs DEF ShopInv, ShopTypes
<1>2. DailyLimit(t) \in Nat /\ methodUsed[t] \in Nat
  BY <1>1, LimitTypes DEF ShopTypes
<1>3. QED BY <1>1, <1>2 DEF OfferTrue, OverLimit

\* A provider that the settings still name is found.
LEMMA FreshIsRegistered ==
    ASSUME ShopInv, fresh, NEW t \in Types, NEW a \in Amounts, Accepted(t, a), Named(t)
    PROVE  getProviderKey(Registered, t) # "none"
<1>1. ShopTypes /\ RegisteredInv /\ OfferTrue(t)
  BY AcceptedIs DEF ShopInv
<1>2. /\ Registered \in SUBSET ProviderKeys /\ EnvProviders \subseteq Registered
      /\ settings.override => \A k \in settings.providers : Known(k) => k \in Registered
  BY <1>1, RegisteredIs
<1>3. PICK k \in EnvProviders \cup (IF settings.override THEN settings.providers ELSE {}) :
         t \in supportedTypes(k)
  BY DEF Named
<1>4. k \in ProviderKeys
  BY <1>1, <1>3, RowsAre, ShopAssumption DEF SettingRows
<1>5. Known(k)
  BY <1>1, <1>3, <1>4, TypesDiffer DEF OfferTrue
<1>6. k \in Registered
  BY <1>2, <1>3, <1>5
<1>7. QED BY <1>2, <1>3, <1>4, <1>6, KeyIs DEF ProviderKeys

\* An instance takes the amount.
LEMMA FreshIsTaken ==
    ASSUME ShopInv, fresh, NEW t \in Types, NEW a \in Amounts, Accepted(t, a), Uniform(t),
           HasInstance(getProviderKey(Registered, t))
    PROVE  Candidates(t, a) # {}
<1> DEFINE key == getProviderKey(Registered, t)
           insts == Holders(instances, t)
<1>1. /\ ShopTypes /\ OfferTrue(t) /\ offer[t].available
      /\ a \in Nat /\ a >= offer[t].singleMin
      /\ offer[t].singleMax > 0 => a <= offer[t].singleMax
      /\ offer[t].singleMin \in Nat /\ offer[t].singleMax \in Nat
  BY AcceptedIs DEF ShopInv, ShopTypes
<1>2. insts = {i \in ToSet(instances) : supports(i, t)}
  <2>1. ToSet(instances) = {instances[i] : i \in 1..Len(instances)}
    BY <1>1, RowsAre DEF ToSet
  <2>2. QED BY <2>1 DEF Holders, Supporting
<1>3. /\ Alike(insts)
      /\ \A i \in insts : i.key = key
      /\ insts # {}
  <2>1. \E i \in ToSet(instances) : i.key = key
    BY <1>1, RowsAre DEF HasInstance, ToSet
  <2>2. QED BY <1>2, <2>1 DEF Uniform, Alike
<1>4. PICK i \in insts : ~Blocks(i, used)
  BY <1>1, <1>3 DEF OfferTrue
<1>5. PICK p \in Supporting(instances, t) : instances[p] = i
  BY DEF Holders
<1>6. p \in 1..Len(instances) /\ i \in InstanceRows /\ supports(i, t) /\ i.key = key
  BY <1>1, <1>3, <1>5, RowsAre DEF Supporting
<1>7. used[i.id] \in Nat
  <2>1. i.id \in instanceIds
    BY <1>5, <1>6 DEF instanceIds
  <2>2. QED BY <1>1, <2>1 DEF ShopTypes
<1>8. i.singleMin \in Nat /\ i.singleMax \in Nat /\ i.dailyLimit \in Nat
  BY <1>6, InfinityIsNumber DEF InstanceRows
<1>9. withinDailyLimit(i, used)
  BY <1>4, <1>7, <1>8 DEF Blocks, withinDailyLimit
<1>10. withinSingleLimits(i, a)
  <2>1. offer[t].singleMin = i.singleMin
        /\ (i.singleMax > 0 => offer[t].singleMax \in 1..i.singleMax)
    BY <1>1, <1>3 DEF OfferTrue
  <2>2. QED BY <1>1, <1>8, <2>1 DEF withinSingleLimits
<1>11. p \in Candidates(t, a)
  BY <1>5, <1>6, <1>9, <1>10 DEF Candidates, eligible
<1>12. QED BY <1>11

LEMMA ChargedIs ==
    ASSUME ShopTypes, NEW t \in Types, NEW a \in Amounts
    PROVE  Charged(t, a) \in Nat
<1>1. a \in Nat
  BY DEF Amounts
<1>2. FeeRate(registered, t) \in Nat
  BY FeeTypes DEF ShopTypes
<1>3. \A r \in Nat : a + (a * r + 99) \div 100 \in Nat
  <2> TAKE r \in Nat
  <2> DEFINE n == a * r + 99
             fee == n \div 100
  <2>1. n \in Nat
    BY <1>1
  <2>2. fee \in Nat
    <3> HIDE DEF n
    <3>1. QED BY <2>1
  <2> HIDE DEF fee
  <2>3. a + fee \in Nat
    BY <1>1, <2>2
  <2>4. QED BY <2>3 DEF fee
<1>4. QED BY <1>2, <1>3 DEF Charged, calculatePayAmount

\* The customer is charged what the page showed, or a cent less.
LEMMA FreshIsQuoted ==
    ASSUME ShopInv, fresh, NEW t \in Types, NEW a \in Amounts, Accepted(t, a),
           NEW shown \in shownPayAmounts(a, offer[t].feeRate)
    PROVE  Quoted(t, a, shown)
<1> SUFFICES ASSUME getProviderKey(EnvProviders, t) # "none"
             PROVE  Charged(t, a) \in {shown, shown - 1}
  BY DEF Quoted
<1>1. ShopTypes /\ RegisteredInv /\ OfferTrue(t)
  BY AcceptedIs DEF ShopInv
<1>2. FeeRate(registered, t) = FeeRate(EnvProviders, t)
  BY <1>1, FeeStays DEF ShopTypes, RegisteredInv
<1>3. offer[t].feeRate = FeeRate(registered, t)
  BY <1>1, <1>2 DEF OfferTrue
<1> DEFINE exact == Charged(t, a)
<1>4. shown \in {exact, exact + 1}
  BY <1>3 DEF Charged, shownPayAmounts
<1>5. exact \in Nat
  BY <1>1, ChargedIs
<1> HIDE DEF exact
<1>6. exact \in {shown, shown - 1}
  BY <1>4, <1>5
<1>7. QED BY <1>6 DEF exact

\* No answer to a submission belies a fresh offer.
LEMMA SubmitHonours ==
    ASSUME ShopInv, NEW t \in Types, NEW a \in Amounts, Submit(t, a)
    PROVE  OfferIsHonoured'
<1> DEFINE answered(result, shown) ==
      answer' = [result |-> result, fresh |-> fresh, uniform |-> Uniform(t),
                 named |-> Named(t), quoted |-> Quoted(t, a, shown)]
           says(result) ==
      \E shown \in shownPayAmounts(a, offer[t].feeRate) : answered(result, shown)
<1>1. CASE RefuseOverLimit(t, a)
  <2>1. says("METHOD_DAILY_LIMIT_EXCEEDED") /\ ~fresh
    BY <1>1, FreshIsWithinLimit DEF RefuseOverLimit, Answer
  <2>2. QED BY <2>1 DEF OfferIsHonoured
<1>2. CASE RefuseNoProvider(t, a)
  <2>1. says("PAYMENT_GATEWAY_ERROR") /\ (fresh => ~Named(t))
    BY <1>2, FreshIsRegistered DEF RefuseNoProvider, Answer
  <2>2. QED BY <2>1 DEF OfferIsHonoured
<1>3. CASE RefuseNoInstance(t, a)
  <2>1. says("NO_AVAILABLE_INSTANCE") /\ (fresh => ~Uniform(t))
    BY <1>3, FreshIsTaken DEF RefuseNoInstance, Answer, HasInstance
  <2>2. QED BY <2>1 DEF OfferIsHonoured
<1>4. CASE PlaceOrder(t, a)
  <2>1. PICK shown \in shownPayAmounts(a, offer[t].feeRate) : answered("placed", shown)
    BY <1>4 DEF PlaceOrder, Answer
  <2>2. fresh => Quoted(t, a, shown)
    BY <1>4, FreshIsQuoted DEF PlaceOrder
  <2>3. QED BY <2>1, <2>2 DEF OfferIsHonoured
<1>5. QED BY <1>1, <1>2, <1>3, <1>4 DEF Submit


(***************************************************************************)
(* Loading the page.                                                       *)
(***************************************************************************)

LEMMA ReverseRows ==
    ASSUME ShopTypes, NEW rows \in {instances, Reverse(instances)}, NEW t
    PROVE  /\ Len(rows) \in Nat /\ \A i \in 1..Len(rows) : rows[i] \in InstanceRows
           /\ Holders(rows, t) = Holders(instances, t)
<1>1. CASE rows = instances
  BY <1>1, RowsAre
<1>2. CASE rows = Reverse(instances)
  <2> DEFINE n == Len(instances)
  <2>1. /\ instances \in Seq(InstanceRows) /\ n \in Nat
        /\ \A i \in 1..n : instances[i] \in InstanceRows
    BY RowsAre
  <2>2. rows = [i \in 1..n |-> instances[(n - i) + 1]]
    BY <1>2 DEF Reverse
  <2> HIDE DEF n
  <2>3. \A i \in 1..n : n - i + 1 \in 1..n /\ n - (n - i + 1) + 1 = i
    BY <2>1
  <2>4. Len(rows) = n /\ \A i \in 1..n : rows[i] = instances[n - i + 1]
    BY <2>1, <2>2
  <2>5. \A i \in 1..n : instances[i] = rows[n - i + 1]
    BY <2>3, <2>4
  <2>6. Holders(rows, t) = {rows[i] : i \in {j \in 1..n : supports(rows[j], t)}}
    BY <2>4 DEF Holders, Supporting
  <2>7. Holders(instances, t)
          = {instances[i] : i \in {j \in 1..n : supports(instances[j], t)}}
    BY DEF Holders, Supporting, n
  <2>8. Holders(rows, t) = Holders(instances, t)
    <3>1. ASSUME NEW x \in Holders(rows, t) PROVE x \in Holders(instances, t)
      <4>1. PICK j \in 1..n : supports(rows[j], t) /\ x = rows[j]
        BY <2>6
      <4>2. x = instances[n - j + 1] /\ n - j + 1 \in 1..n
        BY <2>3, <2>4, <4>1
      <4>3. QED BY <2>7, <4>1, <4>2
    <3>2. ASSUME NEW x \in Holders(instances, t) PROVE x \in Holders(rows, t)
      <4>1. PICK j \in 1..n : supports(instances[j], t) /\ x = instances[j]
        BY <2>7
      <4>2. x = rows[n - j + 1] /\ n - j + 1 \in 1..n
        BY <2>3, <2>5, <4>1
      <4>3. QED BY <2>6, <4>1, <4>2
    <3>3. QED BY <3>1, <3>2
  <2>9. QED BY <2>1, <2>3, <2>4, <2>8
<1>3. QED BY <1>1, <1>2

\* Registering twice changes nothing.
LEMMA RegisteredStays ==
    ASSUME registered' = Registered, UNCHANGED <<instances, settings>>
    PROVE  Registered' = Registered
BY DEF Registered, ensureDBProviders, registerFromList

LEMMA SameInstances ==
    ASSUME UNCHANGED instances
    PROVE  /\ \A k : HasInstance(k)' <=> HasInstance(k)
           /\ \A k : Known(k)' <=> Known(k)
           /\ instanceIds' = instanceIds /\ PendingOrder' = PendingOrder
           /\ \A t : Holders(instances, t)' = Holders(instances, t)
BY DEF HasInstance, Known, instanceIds, PendingOrder, Holders, Supporting

LEMMA SameFollowed ==
    ASSUME FollowedTypes, UNCHANGED <<instances, used, methodUsed, followed>>
    PROVE  FollowedTypes'
BY SameInstances DEF FollowedTypes

LEMMA LoadPreserves ==
    ASSUME ShopInv, LoadMethods
    PROVE  ShopInv'
<1>1. ShopTypes /\ RegisteredInv
  BY DEF ShopInv
<1>2. /\ registered' = Registered /\ answer' = NoAnswer
      /\ UNCHANGED <<instances, settings, counter, used, methodUsed, followed, pending>>
  BY DEF LoadMethods
<1> DEFINE types == resolveEnabledPaymentTypes(
                        UNION {supportedTypes(k) : k \in Registered}, settings.types)
           agg(rows, t) == aggregateInstanceLimits(rows, t, used)
           o(rows, t) == queryMethodLimits(agg(rows, t), DailyLimit(t), SingleLimit(t),
                                           methodUsed[t], FeeRate(Registered, t))
<1>3. PICK rows \in {instances, Reverse(instances)} :
         offer' = [t \in types |-> o(rows, t)]
  BY Zenon DEF LoadMethods
<1>4. /\ Registered \in SUBSET ProviderKeys /\ EnvProviders \subseteq Registered
      /\ \A k \in Registered : Known(k)
  BY <1>1, RegisteredIs
<1>5. Registered' = Registered
  BY <1>2, RegisteredStays
<1>6. \A t \in types : \E k \in Registered : t \in supportedTypes(k)
  BY DEF resolveEnabledPaymentTypes
<1>7. types \in SUBSET Types
  BY <1>4, <1>6 DEF Types
<1> HIDE DEF types
<1>8. ASSUME NEW t \in types
      PROVE  /\ offer'[t].singleMin \in Nat /\ offer'[t].singleMax \in Nat
             /\ OfferTrue(t)'
  <2> DEFINE insts == Holders(instances, t)
             a == agg(rows, t)
             p == o(rows, t)
  <2>1. t \in Types /\ offer'[t] = p
    BY <1>3, <1>7
  <2>2. /\ Len(rows) \in Nat /\ \A i \in 1..Len(rows) : rows[i] \in InstanceRows
        /\ Holders(rows, t) = insts
    BY <1>1, ReverseRows
  <2>3. /\ a.singleMin \in Nat /\ a.singleMax \in Nat /\ a.blocked \in BOOLEAN
        /\ insts # {} /\ ~a.blocked => \E i \in insts : ~Blocks(i, used)
        /\ Alike(insts) => \A i \in insts : /\ a.singleMin = i.singleMin
                                            /\ a.singleMax = i.singleMax
    <3>1. RangeOK(a, Holders(rows, t), used)
      BY <2>2, RangeIsTheirs
    <3> HIDE DEF a, insts
    <3>2. RangeOK(a, insts, used)
      BY <2>2, <3>1
    <3>3. QED BY <3>2 DEF RangeOK
  <2>4. DailyLimit(t) \in Nat /\ SingleLimit(t) \in Nat /\ methodUsed[t] \in Nat
    BY <1>1, <2>1, LimitTypes DEF ShopTypes
  <2> HIDE DEF a
  <2>5. /\ p.singleMin = a.singleMin /\ p.singleMax \in Nat
        /\ p.feeRate = FeeRate(Registered, t)
        /\ p.available => ~a.blocked
        /\ p.available /\ DailyLimit(t) > 0 =>
             p.singleMax > 0 /\ methodUsed[t] + p.singleMax <= DailyLimit(t)
        /\ p.available /\ a.singleMax > 0 => p.singleMax \in 1..a.singleMax
    BY <2>3, <2>4, PublishedRange DEF a
  <2> HIDE DEF p
  <2>6. DailyLimit(t)' = DailyLimit(t)
    BY <1>2, <1>5 DEF DailyLimit, MethodLimit
  <2>7. \E k \in ProviderKeys : t \in supportedTypes(k) /\ Known(k)'
    BY <1>2, <1>4, <1>6, SameInstances
  <2>8. getProviderKey(EnvProviders, t) # "none" =>
          p.feeRate = FeeRate(EnvProviders, t)
    BY <1>4, <2>5, FeeStays
  <2>9. Holders(instances, t)' = insts
    BY <1>2, SameInstances
  <2> HIDE DEF insts
  <2>10. /\ p.available /\ insts # {} => \E i \in insts : ~Blocks(i, used)
         /\ p.available /\ Alike(insts) =>
              \A i \in insts : /\ p.singleMin = i.singleMin
                               /\ i.singleMax > 0 => p.singleMax \in 1..i.singleMax
    BY <2>3, <2>5
  <2>11. \A i : Blocks(i, used)' <=> Blocks(i, used)
    BY <1>2 DEF Blocks
  <2>12. FeeRate(EnvProviders, t)' = FeeRate(EnvProviders, t)
    BY DEF FeeRate
  <2>13. OfferTrue(t)'
    BY <1>2, <2>1, <2>5, <2>6, <2>7, <2>8, <2>9, <2>10, <2>11, <2>12 DEF OfferTrue
  <2>14. QED BY <2>1, <2>3, <2>5, <2>13
<1>9. DOMAIN offer' = types
  BY <1>3
<1>10. ShopTypes'
  <2>1. FollowedTypes'
    BY <1>1, <1>2, SameFollowed DEF ShopTypes
  <2>2. QED BY <1>1, <1>2, <1>4, <1>7, <1>8, <1>9, <2>1, SameInstances DEF ShopTypes
<1>11. RegisteredInv'
  BY <1>2, <1>4, SameInstances DEF RegisteredInv
<1>12. OfferIsHonoured'
  BY <1>2 DEF NoAnswer, OfferIsHonoured
<1>13. QED BY <1>8, <1>9, <1>10, <1>11, <1>12 DEF ShopInv


(***************************************************************************)
(* The other steps.                                                        *)
(***************************************************************************)

\* Less registered is no more of a limit: a type that nobody registered has none.
LEMMA LimitStays ==
    ASSUME ShopTypes, settings' = settings, Registered \in SUBSET ProviderKeys,
           Registered' \subseteq Registered, NEW t \in Types
    PROVE  DailyLimit(t)' \in {DailyLimit(t), 0}
<1>1. getProviderKey(Registered', t) # "none" => getProviderKey(Registered, t) # "none"
  BY KeyStays
<1>2. getDefaultLimit(Registered', DefaultDailyMax, t)
        \in {getDefaultLimit(Registered, DefaultDailyMax, t), 0}
  BY <1>1 DEF getDefaultLimit
<1>3. DailyLimit(t)' = getMethodLimit(settings.daily, settings.override,
                                      getDefaultLimit(Registered', DefaultDailyMax, t))
  BY DEF DailyLimit, MethodLimit
<1>4. DailyLimit(t) = getMethodLimit(settings.daily, settings.override,
                                     getDefaultLimit(Registered, DefaultDailyMax, t))
  BY DEF DailyLimit, MethodLimit
<1>5. QED BY <1>2, <1>3, <1>4 DEF getMethodLimit

\* An offer stays true while no more is used and no limit appears.
LEMMA OfferStays ==
    ASSUME ShopTypes, NEW t \in DOMAIN offer, OfferTrue(t),
           UNCHANGED <<instances, offer>>,
           DailyLimit(t)' \in {DailyLimit(t), 0},
           methodUsed' \in [Types -> Nat], methodUsed'[t] <= methodUsed[t],
           used' \in [instanceIds -> Nat],
           \A i \in instanceIds : used'[i] <= used[i]
    PROVE  OfferTrue(t)'
<1> DEFINE insts == Holders(instances, t)
<1>1. /\ t \in Types /\ methodUsed[t] \in Nat /\ methodUsed'[t] \in Nat
      /\ offer[t].singleMax \in Nat /\ DailyLimit(t) \in Nat
  <2>1. t \in Types
    BY DEF ShopTypes
  <2>2. QED BY <2>1, LimitTypes DEF ShopTypes
<1>2. Holders(instances, t)' = insts /\ \A k : Known(k)' <=> Known(k)
  BY SameInstances
<1>3. FeeRate(EnvProviders, t)' = FeeRate(EnvProviders, t)
  BY DEF FeeRate
<1>4. \A i \in insts : ~Blocks(i, used) => ~Blocks(i, used)'
  <2> SUFFICES ASSUME NEW i \in insts, ~Blocks(i, used) PROVE ~Blocks(i, used')
    BY DEF Blocks
  <2>1. PICK p \in 1..Len(instances) : i = instances[p]
    BY DEF Holders, Supporting
  <2>2. i \in InstanceRows /\ i.id \in instanceIds
    BY <2>1, RowsAre DEF instanceIds
  <2>3. /\ used[i.id] \in Nat /\ used'[i.id] \in Nat /\ used'[i.id] <= used[i.id]
        /\ i.singleMin \in Nat /\ i.dailyLimit \in Nat
    BY <2>2, InfinityIsNumber DEF ShopTypes, InstanceRows
  <2>4. QED BY <2>3 DEF Blocks
<1> HIDE DEF insts
<1>5. offer'[t].available /\ DailyLimit(t)' > 0 =>
        offer'[t].singleMax > 0 /\ methodUsed'[t] + offer'[t].singleMax <= DailyLimit(t)'
  BY <1>1 DEF OfferTrue
<1>6. offer'[t].available /\ insts # {} => \E i \in insts : ~Blocks(i, used)'
  BY <1>4 DEF OfferTrue, insts
<1>7. QED BY <1>2, <1>3, <1>5, <1>6 DEF OfferTrue, insts

\* What every other step has to keep.
LEMMA OthersPreserve ==
    ASSUME ShopInv, UNCHANGED <<instances, offer>>, settings' \in Settings,
           registered' \in {registered, Registered, EnvProviders},
           used' \in [instanceIds -> Nat], methodUsed' \in [Types -> Nat],
           FollowedTypes',
           counter' \in [ProviderKeys -> 0..(CounterPeriod - 1)],
           pending' \in Seq(PendingOrder), Len(pending') <= MaxPending,
           fresh' => /\ fresh /\ settings' = settings
                     /\ \A i \in instanceIds : used'[i] <= used[i]
                     /\ \A t \in Types : methodUsed'[t] <= methodUsed[t],
           OfferIsHonoured'
    PROVE  ShopInv'
<1>1. ShopTypes /\ RegisteredInv
  BY DEF ShopInv
<1>2. /\ Registered \in SUBSET ProviderKeys /\ EnvProviders \subseteq Registered
      /\ EnvProviders \subseteq registered /\ registered \subseteq Registered
      /\ \A k \in Registered : Known(k)
  BY <1>1, RegisteredIs DEF RegisteredInv
<1>3. registered' \in SUBSET ProviderKeys
  BY <1>2
<1>4. ShopTypes'
  BY <1>1, <1>3, SameInstances DEF ShopTypes
<1>5. RegisteredInv'
  <2>1. EnvProviders \subseteq registered' /\ registered' \subseteq Registered
    BY <1>2
  <2>2. \A k \in registered' : Known(k)'
    BY <1>2, <2>1, SameInstances
  <2>3. QED BY <2>1, <2>2 DEF RegisteredInv
<1>6. ASSUME fresh', NEW t \in DOMAIN offer PROVE OfferTrue(t)'
  <2>1. Registered' \subseteq Registered
    BY <1>2, <1>6 DEF Registered, ensureDBProviders, registerFromList
  <2>2. t \in Types /\ OfferTrue(t)
    BY <1>1, <1>6 DEF ShopInv, ShopTypes
  <2>3. DailyLimit(t)' \in {DailyLimit(t), 0}
    BY <1>1, <1>2, <1>6, <2>1, <2>2, LimitStays
  <2>4. QED BY <1>1, <1>6, <2>2, <2>3, OfferStays
<1>7. QED BY <1>4, <1>5, <1>6 DEF ShopInv

\* What is used contains the order.
OfTheDay(o) ==
    /\ o.amount <= methodUsed[o.type]
    /\ o.inst # NoInstance => o.payAmount <= used[o.inst]

LEMMA FollowedIs ==
    ASSUME NEW o \in PendingOrder, NEW c \in BOOLEAN, UNCHANGED instances,
           followed' = {[order |-> o, counts |-> c]}, c => OfTheDay(o)'
    PROVE  FollowedTypes'
BY SameInstances DEF FollowedTypes, OfTheDay

LEMMA RisenUsage ==
    ASSUME NEW o \in PendingOrder, UsageRises(o),
           used \in [instanceIds -> Nat], methodUsed \in [Types -> Nat]
    PROVE  /\ used' \in [instanceIds -> Nat] /\ methodUsed' \in [Types -> Nat]
           /\ OfTheDay(o)'
<1>1. /\ o.inst \in instanceIds \cup {NoInstance} /\ o.type \in Types
      /\ o.amount \in Nat /\ o.payAmount \in Nat
  BY DEF PendingOrder
<1>2. /\ methodUsed' = [methodUsed EXCEPT ![o.type] = @ + o.amount]
      /\ used' = IF o.inst = NoInstance THEN used
                 ELSE [used EXCEPT ![o.inst] = @ + o.payAmount]
  BY DEF UsageRises
<1>3. methodUsed' \in [Types -> Nat] /\ methodUsed'[o.type] = methodUsed[o.type] + o.amount
  BY <1>1, <1>2
<1>4. used' \in [instanceIds -> Nat]
      /\ (o.inst # NoInstance => used'[o.inst] = used[o.inst] + o.payAmount)
  BY <1>1, <1>2
<1>5. o.amount <= methodUsed'[o.type]
  BY <1>1, <1>3
<1>6. o.inst # NoInstance => o.payAmount <= used'[o.inst]
  BY <1>1, <1>4
<1>7. QED BY <1>3, <1>4, <1>5, <1>6 DEF OfTheDay

LEMMA SilentIsHonoured ==
    ASSUME answer' = NoAnswer PROVE OfferIsHonoured'
BY DEF NoAnswer, OfferIsHonoured

LEMMA InitShop == ShopInit => ShopInv
<1> SUFFICES ASSUME ShopInit PROVE ShopInv
  OBVIOUS
<1>1. /\ instances \in Catalogues /\ settings \in Settings
      /\ registered = EnvProviders
      /\ counter = [k \in ProviderKeys |-> 0]
      /\ used = [i \in instanceIds |-> 0] /\ methodUsed = [t \in Types |-> 0]
      /\ offer = <<>> /\ fresh = FALSE /\ pending = <<>> /\ answer = NoAnswer
      /\ followed = {}
  BY DEF ShopInit
<1>2. DOMAIN offer = {}
  BY <1>1
<1>3. pending \in Seq(PendingOrder) /\ Len(pending) = 0
  BY <1>1
<1>4. counter \in [ProviderKeys -> 0..(CounterPeriod - 1)]
  BY <1>1, ShopAssumption
<1>5. used \in [instanceIds -> Nat] /\ methodUsed \in [Types -> Nat]
  BY <1>1
<1>6. ShopTypes
  <2>1. 0 <= MaxPending
    BY ShopAssumption
  <2>2. FollowedTypes
    BY <1>1 DEF FollowedTypes
  <2>3. QED BY <1>1, <1>2, <1>3, <1>4, <1>5, <2>1, <2>2, ShopAssumption DEF ShopTypes
<1>7. RegisteredInv
  BY <1>1 DEF RegisteredInv, Known
<1>8. OfferIsHonoured
  BY <1>1 DEF NoAnswer, OfferIsHonoured
<1>9. QED BY <1>1, <1>6, <1>7, <1>8 DEF ShopInv

\* An order that is placed goes to an instance of the catalogue, or to none.
LEMMA PlacedOrder ==
    ASSUME ShopInv, NEW t \in Types, NEW a \in Amounts, PlaceOrder(t, a)
    PROVE  /\ pending' \in Seq(PendingOrder) /\ Len(pending') <= MaxPending
           /\ counter' \in [ProviderKeys -> 0..(CounterPeriod - 1)]
<1> DEFINE key == getProviderKey(Registered, t)
           some == Candidates(t, a)
           inst == IF some = {} THEN NoInstance
                   ELSE selectInstance(instances, some, settings.strategy,
                                       counter[key], used).id
           order == [inst |-> inst, type |-> t, amount |-> a, payAmount |-> Charged(t, a)]
<1>1. ShopTypes /\ RegisteredInv
  BY DEF ShopInv
<1>2. /\ key # "none" /\ pending' = Append(pending, order) /\ Len(pending) < MaxPending
      /\ counter' = IF some = {} \/ settings.strategy = "least-amount" THEN counter
                    ELSE [counter EXCEPT ![key] = (@ + 1) % CounterPeriod]
  BY Zenon DEF PlaceOrder, Accepted
<1>3. key \in ProviderKeys
  BY <1>1, <1>2, RegisteredIs, KeyIs
<1>4. counter[key] \in Nat /\ (counter[key] + 1) % CounterPeriod \in 0..(CounterPeriod - 1)
  BY <1>1, <1>3, ShopAssumption DEF ShopTypes
<1>5. counter' \in [ProviderKeys -> 0..(CounterPeriod - 1)]
  <2> HIDE DEF key, some
  <2>1. QED BY <1>1, <1>2, <1>4 DEF ShopTypes
<1>6. inst \in instanceIds \cup {NoInstance}
  <2>1. CASE some = {}
    BY <2>1
  <2>2. CASE some # {}
    <3>1. some \in SUBSET (1..Len(instances)) /\ Len(instances) \in Nat
      BY <1>1, RowsAre DEF Candidates, eligible
    <3>2. \A i \in some : instances[i].id \in instanceIds
      BY <3>1 DEF instanceIds
    <3>3. \A i \in some : used[instances[i].id] \in Nat
      BY <1>1, <3>2 DEF ShopTypes
    <3> DEFINE turn == counter[key]
               strategy == settings.strategy
    <3>4. turn \in Nat
      BY <1>4
    <3> HIDE DEF some, turn, strategy
    <3>5. \E i \in some : selectInstance(instances, some, strategy, turn, used) = instances[i]
      BY <2>2, <3>1, <3>3, <3>4, SelectionIsCandidate
    <3>6. PICK i \in some :
             selectInstance(instances, some, strategy, turn, used) = instances[i]
      BY <3>5
    <3>7. inst = instances[i].id
      BY <2>2, <3>6 DEF turn, strategy
    <3>8. QED BY <3>2, <3>7
  <2>3. QED BY <2>1, <2>2
<1>7. a \in Nat /\ Charged(t, a) \in Nat
  BY <1>1, ChargedIs DEF Amounts
<1>8. order \in PendingOrder
  <2> HIDE DEF inst
  <2>1. QED BY <1>6, <1>7 DEF PendingOrder
<1>9. pending' \in Seq(PendingOrder) /\ Len(pending') = Len(pending) + 1
  <2> HIDE DEF order
  <2>1. QED BY <1>1, <1>2, <1>8, AppendProperties DEF ShopTypes
<1>10. QED
  <2>1. Len(pending) \in Nat /\ MaxPending \in Nat
    BY <1>1, ShopAssumption DEF ShopTypes
  <2>2. Len(pending) < MaxPending
    BY <1>2
  <2>3. QED BY <1>5, <1>9, <2>1, <2>2

LEMMA NextShop == ShopInv /\ [ShopNext]_shopVars => ShopInv'
<1> SUFFICES ASSUME ShopInv, [ShopNext]_shopVars PROVE ShopInv'
  OBVIOUS
<1>1. /\ settings \in Settings /\ used \in [instanceIds -> Nat]
      /\ methodUsed \in [Types -> Nat]
      /\ counter \in [ProviderKeys -> 0..(CounterPeriod - 1)]
      /\ pending \in Seq(PendingOrder) /\ Len(pending) <= MaxPending
      /\ Len(pending) \in Nat /\ MaxPending \in Nat
      /\ OfferIsHonoured /\ FollowedTypes
  BY ShopAssumption DEF ShopInv, ShopTypes
<1>2. /\ \A i \in instanceIds : used[i] \in Nat /\ used[i] <= used[i] /\ 0 <= used[i]
      /\ \A t \in Types : methodUsed[t] <= methodUsed[t] /\ 0 <= methodUsed[t]
  BY <1>1
<1>3. ASSUME NEW t \in Types, NEW a \in Amounts, Submit(t, a) PROVE ShopInv'
  <2>1. OfferIsHonoured'
    BY <1>3, SubmitHonours
  <2>2. /\ UNCHANGED <<instances, settings, used, methodUsed, followed, offer, fresh>>
        /\ registered' \in {registered, Registered}
    BY <1>3 DEF Submit, RefuseOverLimit, RefuseNoProvider, RefuseNoInstance, PlaceOrder
  <2>6. FollowedTypes'
    BY <1>1, <2>2, SameFollowed
  <2>3. CASE PlaceOrder(t, a)
    <3>1. /\ pending' \in Seq(PendingOrder) /\ Len(pending') <= MaxPending
          /\ counter' \in [ProviderKeys -> 0..(CounterPeriod - 1)]
      BY <2>3, PlacedOrder
    <3>2. QED BY <1>1, <1>2, <2>1, <2>2, <2>6, <3>1, OthersPreserve
  <2>4. CASE UNCHANGED <<counter, pending>>
    BY <1>1, <1>2, <2>1, <2>2, <2>4, <2>6, OthersPreserve
  <2>5. QED
    BY <1>3, <2>3, <2>4 DEF Submit, RefuseOverLimit, RefuseNoProvider, RefuseNoInstance
<1>4. ASSUME NEW p \in 1..Len(pending), OrderPaid(p) PROVE ShopInv'
  <2>0. PICK o \in PendingOrder : o = pending[p]
    BY <1>1
  <2>1. /\ UsageRises(o) /\ pending' = RemoveAt(pending, p)
        /\ followed' = {[order |-> o, counts |-> TRUE]}
    BY <1>4, <2>0 DEF OrderPaid
  <2>3. /\ used' \in [instanceIds -> Nat] /\ methodUsed' \in [Types -> Nat]
        /\ OfTheDay(o)'
    BY <1>1, <2>1, RisenUsage
  <2>4. UNCHANGED instances
    BY <2>1 DEF UsageRises
  <2>8. FollowedTypes'
    BY <2>1, <2>3, <2>4, FollowedIs
  <2>5. pending' \in Seq(PendingOrder) /\ Len(pending') <= MaxPending
    <3>1. pending' \in Seq(PendingOrder) /\ Len(pending') <= Len(pending)
      BY <1>1, <2>1, RemoveShortens
    <3>2. Len(pending') \in Nat
      BY <3>1
    <3>3. QED BY <1>1, <3>1, <3>2
  <2>6. /\ fresh' = FALSE /\ answer' = NoAnswer
        /\ UNCHANGED <<instances, settings, registered, counter, offer>>
    BY <2>1 DEF UsageRises
  <2>7. QED BY <1>1, <2>3, <2>5, <2>6, <2>8, SilentIsHonoured, OthersPreserve
<1>11. ASSUME NEW f \in followed, PaidOrderDrops(f) PROVE ShopInv'
  <2>0. PICK o \in PendingOrder : o = f.order
    BY <1>1, <1>11 DEF FollowedTypes
  <2>1. /\ f.counts
        /\ methodUsed' = [methodUsed EXCEPT ![o.type] = @ - o.amount]
        /\ used' = IF o.inst = NoInstance THEN used
                   ELSE [used EXCEPT ![o.inst] = @ - o.payAmount]
        /\ followed' = {[order |-> o, counts |-> FALSE]} /\ answer' = NoAnswer
        /\ UNCHANGED <<instances, settings, registered, counter, offer, fresh, pending>>
    BY <1>11, <2>0 DEF PaidOrderDrops
  <2>2. /\ o.amount <= methodUsed[o.type]
        /\ o.inst # NoInstance => o.payAmount <= used[o.inst]
    BY <1>1, <1>11, <2>0, <2>1 DEF FollowedTypes
  <2>3. /\ o.inst \in instanceIds \cup {NoInstance} /\ o.type \in Types
        /\ o.amount \in Nat /\ o.payAmount \in Nat
    BY DEF PendingOrder
  <2>4. UNCHANGED instances
    BY <2>1
  <2>5. FollowedTypes'
    BY <2>1, <2>4, FollowedIs
  <2>6. methodUsed' \in [Types -> Nat] /\ \A t \in Types : methodUsed'[t] <= methodUsed[t]
    <3>1. methodUsed[o.type] - o.amount \in Nat
          /\ methodUsed[o.type] - o.amount <= methodUsed[o.type]
      BY <1>1, <2>2, <2>3
    <3>2. QED BY <1>1, <1>2, <2>1, <2>3, <3>1
  <2>7. used' \in [instanceIds -> Nat] /\ \A i \in instanceIds : used'[i] <= used[i]
    <3>1. CASE o.inst = NoInstance
      BY <1>1, <1>2, <2>1, <3>1
    <3>2. CASE o.inst # NoInstance
      <4>1. o.inst \in instanceIds /\ used[o.inst] - o.payAmount \in Nat
            /\ used[o.inst] - o.payAmount <= used[o.inst]
        BY <1>1, <2>2, <2>3, <3>2
      <4>2. QED BY <1>1, <1>2, <2>1, <3>2, <4>1
    <3>3. QED BY <3>1, <3>2
  <2>8. QED BY <1>1, <2>1, <2>5, <2>6, <2>7, SilentIsHonoured, OthersPreserve
<1>12. ASSUME NEW f \in followed, PaidOrderResumes(f) PROVE ShopInv'
  <2>0. PICK o \in PendingOrder : o = f.order
    BY <1>1, <1>12 DEF FollowedTypes
  <2>1. /\ UsageRises(o) /\ followed' = {[order |-> o, counts |-> TRUE]}
        /\ UNCHANGED pending
    BY <1>12, <2>0 DEF PaidOrderResumes
  <2>2. UNCHANGED instances
    BY <2>1 DEF UsageRises
  <2>4. /\ used' \in [instanceIds -> Nat] /\ methodUsed' \in [Types -> Nat]
        /\ OfTheDay(o)'
    BY <1>1, <2>1, RisenUsage
  <2>5. FollowedTypes'
    BY <2>1, <2>2, <2>4, FollowedIs
  <2>6. /\ fresh' = FALSE /\ answer' = NoAnswer
        /\ UNCHANGED <<instances, settings, registered, counter, offer>>
    BY <2>1 DEF UsageRises
  <2>7. QED BY <1>1, <2>1, <2>4, <2>5, <2>6, SilentIsHonoured, OthersPreserve
<1>5. ASSUME NEW p \in 1..Len(pending), OrderExpires(p) PROVE ShopInv'
  <2>1. /\ pending' = RemoveAt(pending, p) /\ answer' = NoAnswer
        /\ UNCHANGED <<instances, settings, registered, counter, used, methodUsed,
                       followed, offer, fresh>>
    BY <1>5 DEF OrderExpires
  <2>2. pending' \in Seq(PendingOrder) /\ Len(pending') <= MaxPending
    <3>1. pending' \in Seq(PendingOrder) /\ Len(pending') <= Len(pending)
      BY <1>1, <2>1, RemoveShortens
    <3>2. Len(pending') \in Nat
      BY <3>1
    <3>3. QED BY <1>1, <3>1, <3>2
  <2>3. FollowedTypes'
    BY <1>1, <2>1, SameFollowed
  <2>4. QED BY <1>1, <1>2, <2>1, <2>2, <2>3, SilentIsHonoured, OthersPreserve
<1>6. CASE DayEnds
  <2>1. /\ used' = [i \in instanceIds |-> 0] /\ methodUsed' = [t \in Types |-> 0]
        /\ answer' = NoAnswer /\ followed' = {}
        /\ UNCHANGED <<instances, settings, registered, counter, offer, fresh, pending>>
    BY <1>1, <1>6 DEF DayEnds
  <2>2. used' \in [instanceIds -> Nat] /\ methodUsed' \in [Types -> Nat] /\ FollowedTypes'
    BY <2>1 DEF FollowedTypes
  <2>3. QED BY <1>1, <1>2, <2>1, <2>2, SilentIsHonoured, OthersPreserve
<1>7. CASE SettingsSaved
  <2>1. FollowedTypes'
    BY <1>1, <1>7, SameFollowed DEF SettingsSaved
  <2>2. QED BY <1>1, <1>7, <2>1, SilentIsHonoured, OthersPreserve DEF SettingsSaved
<1>8. CASE ServerRestarts
  <2>1. /\ registered' = EnvProviders /\ counter' = [k \in ProviderKeys |-> 0]
        /\ answer' = NoAnswer
        /\ UNCHANGED <<instances, settings, used, methodUsed, followed, offer, fresh,
                       pending>>
    BY <1>1, <1>8 DEF ServerRestarts
  <2>2. counter' \in [ProviderKeys -> 0..(CounterPeriod - 1)] /\ FollowedTypes'
    BY <1>1, <2>1, SameFollowed, ShopAssumption
  <2>3. QED BY <1>1, <1>2, <2>1, <2>2, SilentIsHonoured, OthersPreserve
<1>9. CASE UNCHANGED shopVars
  <2>1. UNCHANGED <<instances, settings, registered, counter, used, methodUsed,
                    followed, offer, fresh, pending, answer>>
    BY <1>9 DEF shopVars
  <2>2. OfferIsHonoured' /\ FollowedTypes'
    BY <1>1, <2>1, SameFollowed DEF OfferIsHonoured
  <2>3. QED BY <1>1, <1>2, <2>1, <2>2, OthersPreserve
<1>10. QED
  BY <1>3, <1>4, <1>5, <1>6, <1>7, <1>8, <1>9, <1>11, <1>12, LoadPreserves DEF ShopNext

-----------------------------------------------------------------------------
(***************************************************************************)
(* The theorems.  A step of the composition is a step of one part, or      *)
(* leaves the part alone.                                                  *)
(***************************************************************************)

\* A part that is not followed stays as it is.
IdleShop == offer = <<>> /\ counter = <<>> /\ pending = <<>> /\ answer = NoAnswer
PartShop == IF part = "shop" THEN ShopInv ELSE IdleShop

\* What only the types say: where an order and a lookup can be.
StatusInv == status \in {"deleted", "PENDING", "PAID", "CANCELLED", "EXPIRED"}
ReaderInv ==
    /\ reader.pc \in {"idle", "query", "store"}
    /\ reader.pc # "idle" <=> reader.missing # {}
    /\ reader.pc = "store" => DOMAIN reader.rows = reader.missing

LEMMA StepOfParts ==
    [Next]_vars => /\ [CreationNext]_creationVars
                   /\ [TradeNext]_tradeVars
                   /\ [ConfigNext]_configVars
                   /\ [CancelNext]_cancelVars
                   /\ IF part = "shop" THEN [ShopNext]_shopVars ELSE UNCHANGED shopVars
                   /\ UNCHANGED part
BY DEF Next, vars, ShopStep, TradeStep, ConfigStep, CancelStep, CreationStep, InTrade

LEMMA CancelInvariant == Spec => []CancelInv
<1>1. Init => CancelInv
  <2>1. NoCancels => CancelInit
    BY DEF NoCancels, CancelInit
  <2>2. QED BY <2>1, InitCancels DEF Init
<1>2. CancelInv /\ [Next]_vars => CancelInv'
  BY NextCancels, StepOfParts
<1>3. QED BY <1>1, <1>2, PTL DEF Spec

LEMMA ShopInvariant == Spec => []PartShop
<1>1. Init => PartShop
  BY InitShop DEF Init, NoShop, PartShop, IdleShop
<1>2. PartShop /\ [Next]_vars => PartShop'
  <2> SUFFICES ASSUME PartShop, [Next]_vars PROVE PartShop'
    OBVIOUS
  <2>1. CASE part = "shop"
    BY <2>1, NextShop, StepOfParts DEF PartShop
  <2>2. CASE part # "shop"
    BY <2>2, StepOfParts DEF PartShop, IdleShop, shopVars
  <2>3. QED BY <2>1, <2>2
<1>3. QED BY <1>1, <1>2, PTL DEF Spec

LEMMA TradeInvariant == Spec => []TradeInv
<1>1. TradeInv /\ [Next]_vars => TradeInv'
  BY NextTrade, StepOfParts
<1>2. QED BY <1>1, InitTrade, PTL DEF Spec

LEMMA StatusInvariant == Spec => []StatusInv
<1>1. Init => StatusInv
  BY DEF Init, TradeInit, NoTrade, StatusInv
<1>2. StatusInv /\ [Next]_vars => StatusInv'
  <2> SUFFICES ASSUME StatusInv, [TradeNext]_tradeVars PROVE StatusInv'
    BY StepOfParts
  <2>1. ASSUME NEW e \in events, Notify(e) PROVE StatusInv'
    BY <2>1 DEF Notify, Confirmed, StatusInv
  <2>2. ASSUME NEW c \in Cancellers, Query(c) PROVE StatusInv'
    BY <2>2 DEF Query, Confirmed, StatusInv
  <2>3. ASSUME NEW c \in Cancellers, CloseOrder(c) PROVE StatusInv'
    BY <2>3 DEF CloseOrder, FinalStatus, Cancellers, StatusInv
  <2>4. CASE CreatePaymentThrows
    BY <2>4 DEF CreatePaymentThrows, StatusInv
  <2>5. CASE UNCHANGED status
    BY <2>5 DEF StatusInv
  <2>6. QED
    BY <2>1, <2>2, <2>3, <2>4, <2>5
    DEF TradeNext, tradeVars, CustomerPays, PaymentFails, CustomerOpensAlipay,
        TradeFinishes, CreatePayment, OpenPaymentEntry, GraceEnds, BeginCancel,
        Cancelled, NothingToCancel, CancelFails, Returned
<1>3. QED BY <1>1, <1>2, PTL DEF Spec

LEMMA ReaderInvariant == Spec => []ReaderInv
<1>1. Init => ReaderInv
  BY DEF Init, ConfigInit, NoRead, ReaderInv
<1>2. ReaderInv /\ [Next]_vars => ReaderInv'
  <2> SUFFICES ASSUME ReaderInv, [ConfigNext]_configVars PROVE ReaderInv'
    BY StepOfParts
  <2>1. ASSUME NEW keys \in SUBSET Keys, BeginRead(keys) PROVE ReaderInv'
    BY <2>1 DEF BeginRead, NoRead, ReaderInv
  <2>2. CASE QueryRows
    BY <2>2 DEF QueryRows, ReaderInv
  <2>3. CASE StoreRows \/ ReadFails
    BY <2>3 DEF StoreRows, ReadFails, NoRead, ReaderInv
  <2>4. CASE UNCHANGED reader
    BY <2>4 DEF ReaderInv
  <2>5. QED
    BY <2>1, <2>2, <2>3, <2>4 DEF ConfigNext, configVars, CommitHere,
                                  CommitElsewhere, invalidateConfigCache, Tick
<1>3. QED BY <1>1, <1>2, PTL DEF Spec

LEMMA CreationInvariant == Spec => []CreationInv
<1>1. Init => CreationInv
  BY InitCreation DEF Init
<1>2. CreationInv /\ [Next]_vars => CreationInv'
  BY NextCreation, StepOfParts
<1>3. QED BY <1>1, <1>2, PTL DEF Spec

\* However requests fail, are cut short or are overtaken by an expiry: whoever
\* has the way to pay has it for a row with its trade number, and no payment
\* meets a deleted row (orders.rs:346-395, service.rs:373-409).
THEOREM PaymentsAreKnown == Spec => []PayableIsKnown
<1>1. CreationInv => PayableIsKnown
  BY DEF CreationInv, SlotOK, PayableIsKnown
<1>2. QED BY <1>1, CreationInvariant, PTL

\* For any limits and any number of requests in any order: the pending orders
\* of a user exceed the limit by no more than the requests that had counted
\* when it was reached, and the paid orders of an instance's day exceed its
\* limit by no more than what was on its way and the orders, FAILED or on the
\* way to a refund, that did not count when the limit was checked
\* (service.rs:186-216, payment.rs:186-201, 384-389, 684-697).
THEOREM OpenOrdersAreBounded == Spec => []OpenStaysBounded
<1>1. ASSUME CreationInv PROVE OpenStaysBounded
  <2>1. /\ Claimants \subseteq Slots /\ Debtors \subseteq Slots
        /\ PendingRows \subseteq Claimants
    BY DEF Claimants, Debtors, PendingRows, Claims
  <2>2. /\ Cardinality(PendingRows) <= Cardinality(Claimants)
        /\ Cardinality(PendingRows) \in Nat /\ Cardinality(Claimants) \in Nat
        /\ Cardinality(Debtors) \in Nat /\ Cardinality(Slots) \in Nat
    BY <2>1, SlotSetsFinite
  <2>3. /\ MaxInFlight \in Nat /\ MaxPendingOrders \in Nat
        /\ InstanceDailyLimit \in Nat /\ MaxSetAside \in Nat
    BY CreationAssumption
  <2>4. /\ Cardinality(Claimants) <= MaxPendingOrders - 1 + MaxInFlight
        /\ usedToday + setAside + Cardinality(Debtors)
             <= InstanceDailyLimit - 1 + Cardinality(Slots) + MaxSetAside
        /\ usedToday \in Nat /\ setAside \in Nat
    BY <1>1 DEF CreationInv, CreationBounds, CreationTypes
  <2>5. QED BY <2>2, <2>3, <2>4 DEF OpenStaysBounded
<1>2. QED BY <1>1, CreationInvariant, PTL

\* Whichever gateway, instance and way to pay, and however the payment, its
\* notifications, the user's cancellation and the expiry overlap: a row is PAID
\* only for money received, a deleted row has none, an adapter's answer is what
\* the trade was, and a trade that was taken back is not paid
\* (easy-pay/provider.ts:53-61, stripe/provider.ts:73-86,
\* wxpay/provider.ts:64-92, alipay/provider.ts:93-134, service.ts:543-604).
THEOREM OrdersFollowMoney == Spec => []OrderFollowsMoney
<1>1. ASSUME TradeInv PROVE OrderFollowsMoney
  <2>1. TradeTypes /\ MoneyInv /\ \A c \in Cancellers : HeardTrue(canceller[c], trade)
    BY <1>1 DEF TradeInv
  <2>2. trade = ClosedWord[gateway] => ~money
    BY <2>1, WordsDiffer DEF MoneyInv
  <2>3. QED BY <2>1, <2>2 DEF OrderFollowsMoney, MoneyInv, HeardTrue
<1>2. QED BY <1>1, TradeInvariant, PTL

\* The bound on stale settings, in the composition that the run checks.
THEOREM SettingsStayFresh == Spec => []StalenessIsBounded
<1>1. Spec => ConfigSpec
  <2>1. Init => ConfigInit
    BY DEF Init
  <2>2. [Next]_vars => [ConfigNext]_configVars
    BY StepOfParts
  <2>3. QED BY <2>1, <2>2, PTL DEF Spec, ConfigSpec
<1>2. QED BY <1>1, CachedSettingsAreFresh, PTL

\* As long as no usage rose and nothing was saved since the page was loaded,
\* what its form accepts is within the method's day, finds its provider and, if
\* the instances agree, an instance, and is charged at the rate that was shown,
\* which the form's floating point makes at most a cent more: for any catalogue
\* of instances, any settings and any amounts, and also when usage fell
\* (limits.ts:76-279, load-balancer.ts:30-151, PaymentForm.tsx:92-113,
\* fee.ts:38-44, service.ts:237-239, 302-332, 368-407).
THEOREM OffersAreHonoured == Spec => []OfferIsHonoured
<1>1. PartShop => OfferIsHonoured
  BY DEF PartShop, IdleShop, ShopInv, OfferIsHonoured, NoAnswer
<1>2. QED BY <1>1, ShopInvariant, PTL

\* No limit that is checked before the order is there can be overrun at will,
\* neither that on cancellations, whose entries are written after the order is
\* CANCELLED, nor those on pending orders and on an instance's day, in which an
\* order may cease to count and count again (service.ts:147-193, 259-275,
\* 585-601, service.rs:186-216, payment.rs:186-201, 384-389, 684-697).
THEOREM LimitsAreBounded == Spec => []LimitsStayBounded
<1>1. CancelInv => CancelsStayBounded
  <2> SUFFICES ASSUME CancelInv PROVE CancelsStayBounded
    OBVIOUS
  <2>1. recentCancelCount \in Nat /\ {open, creating, closing} \subseteq Nat
    BY RecentFinite DEF CancelInv, CancelTypes, RecentEntries, recentCancelCount
  <2>2. {MaxCount, MaxOpen, MaxCreating, MaxCancelling} \subseteq Nat
    BY CancelAssumption
  <2>3. QED BY <2>1, <2>2 DEF CancelInv, CancelsStayBounded
<1>2. CancelsStayBounded /\ OpenStaysBounded => LimitsStayBounded
  BY DEF LimitsStayBounded
<1>3. QED BY <1>1, <1>2, CancelInvariant, OpenOrdersAreBounded, PTL

\* What the model's states are, for any of its parts.
THEOREM TypeCorrect == Spec => []CheckoutTypeOK
<1>1. PartShop => /\ DOMAIN offer \subseteq Types
                  /\ \A k \in DOMAIN counter : counter[k] \in 0..(CounterPeriod - 1)
                  /\ \A t \in DOMAIN offer : /\ offer[t].singleMin \in Nat
                                             /\ offer[t].singleMax \in Nat
                  /\ Len(pending) <= MaxPending
  <2> SUFFICES ASSUME PartShop
               PROVE  /\ DOMAIN offer \subseteq Types
                      /\ \A k \in DOMAIN counter : counter[k] \in 0..(CounterPeriod - 1)
                      /\ \A t \in DOMAIN offer : /\ offer[t].singleMin \in Nat
                                                 /\ offer[t].singleMax \in Nat
                      /\ Len(pending) <= MaxPending
    OBVIOUS
  <2>1. CASE part = "shop"
    BY <2>1 DEF PartShop, ShopInv, ShopTypes
  <2>2. CASE part # "shop"
    <3>1. offer = <<>> /\ counter = <<>> /\ pending = <<>>
      BY <2>2 DEF PartShop, IdleShop
    <3>2. QED BY <3>1, ShopAssumption
  <2>3. QED BY <2>1, <2>2
<1>2. TradeInv => /\ money => trade \in {PaidWord[gateway], "TRADE_FINISHED"}
                  /\ \A c \in Cancellers :
                        canceller[c].pc \in {"idle", "query", "cancel", "close"}
  BY DEF TradeInv, TradeTypes, MoneyInv, CancellerCalls
<1>3. CancelInv => /\ open \in 0..(MaxOpen - 1 + MaxCreating)
                   /\ creating \in 0..MaxCreating /\ closing \in 0..MaxCancelling
  BY CancelAssumption DEF CancelInv, CancelTypes
<1>4. CreationInv => \A s \in Slots :
                        creation[s].row \in {"PENDING", "PAID", "EXPIRED"} =>
                          creation[s].pc \in {"create", "attach", "handed", "failed"}
  <2> SUFFICES ASSUME CreationInv, NEW s \in Slots,
                      creation[s].row \in {"PENDING", "PAID", "EXPIRED"}
               PROVE  creation[s].pc \in {"create", "attach", "handed", "failed"}
    OBVIOUS
  <2>1. creation[s].pc \in CreationPCs /\ SlotOK(creation[s])
    BY DEF CreationInv, CreationTypes, Creations
  <2>2. QED BY <2>1 DEF CreationPCs, SlotOK
<1>5. PartShop /\ TradeInv /\ StatusInv /\ ReaderInv /\ CancelInv /\ CreationInv
        => CheckoutTypeOK
  BY <1>1, <1>2, <1>3, <1>4 DEF StatusInv, ReaderInv, CheckoutTypeOK
<1>6. QED
  BY <1>5, ShopInvariant, TradeInvariant, StatusInvariant, ReaderInvariant,
     CancelInvariant, CreationInvariant, PTL

=============================================================================
