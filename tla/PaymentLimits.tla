--------------------------- MODULE PaymentLimits ---------------------------
(***************************************************************************)
(* What the TypeScript library computes about payment methods: the limits  *)
(* it publishes (lib/order/limits.ts), the instance it chooses             *)
(* (lib/payment/load-balancer.ts), the fee (lib/order/fee.ts), the         *)
(* providers it registers (lib/payment), and what PaymentForm makes of the *)
(* published limits.  Amounts are whole cents; a limit of 0 is no limit.   *)
(***************************************************************************)
EXTENDS Integers, Sequences, SequencesExt, FiniteSetsExt

\* An instance supports the types it lists, or all if it lists none.
supports(inst, type) == inst.types = {} \/ type \in inst.types

-----------------------------------------------------------------------------
(* Providers.                                                              *)

supportedTypes(key) ==
    CASE key = "easypay" -> {"alipay", "wxpay"}
      [] key = "stripe" -> {"stripe"}
      [] key = "alipay" -> {"alipay_direct"}
      [] key = "wxpay" -> {"wxpay_direct"}

ProviderKeys == {"easypay", "stripe", "alipay", "wxpay"}
Types == UNION {supportedTypes(k) : k \in ProviderKeys}

\* The provider that registered the type, or "none".  No two providers of
\* the library have a type in common.
getProviderKey(registered, type) ==
    IF \E k \in registered : type \in supportedTypes(k)
    THEN CHOOSE k \in registered : type \in supportedTypes(k)
    ELSE "none"

\* A type that nobody registered has no limit of its own.
getDefaultLimit(registered, defaults, type) ==
    IF getProviderKey(registered, type) = "none" THEN 0 ELSE defaults[type]

registerFromList(providers, env) == providers \cap env

\* Providers named in the database are registered from the environment or,
\* two of them, from the first enabled instance.  Nothing is unregistered.
ensureDBProviders(registered, db, env, instances) ==
    IF ~db.override THEN registered
    ELSE registered \cup registerFromList(db.providers, env)
         \cup {k \in db.providers \cap {"stripe", "easypay"} :
                  \E i \in 1..Len(instances) : instances[i].key = k}

resolveEnabledPaymentTypes(types, configured) ==
    IF configured = {} THEN types ELSE types \cap configured

-----------------------------------------------------------------------------
(* Fees.  Rates are percentages; -1 stands for a rate that is not set, is  *)
(* not a number, or is negative.                                           *)

getMethodFeeRate(method, provider) ==
    IF method >= 0 THEN method ELSE IF provider >= 0 THEN provider ELSE 0

\* The fee is rounded up to a cent.
calculatePayAmount(amount, rate) == amount + (amount * rate + 99) \div 100

\* PaymentForm computes the same in floating point.  Where the fee is a whole
\* number of cents the product may come out above it, and is rounded up to the
\* next one: 7.00 at 1% shows a fee of 0.08.
shownPayAmounts(amount, rate) ==
    LET exact == calculatePayAmount(amount, rate)
        whole == rate > 0 /\ (amount * rate) % 100 = 0
    IN {exact} \cup (IF whole THEN {exact + 1} ELSE {})

-----------------------------------------------------------------------------
(* Published limits.                                                       *)

\* getMethodDailyLimit and getMethodSingleLimit: configured (-1: not, or not
\* a number), else no limit if the database overrides the environment, else
\* the provider's own.
getMethodLimit(configured, override, default) ==
    IF configured >= 0 THEN configured ELSE IF override THEN 0 ELSE default

Infinity == 1000000

\* One instance's range widens the range published so far.  An instance with
\* no maximum sets the published maximum to 0, which means none, but the next
\* instance that has one replaces it.
widen(agg, inst, used) ==
    [singleMin |-> IF inst.singleMin = 0 THEN 0
                   ELSE IF inst.singleMin < agg.singleMin THEN inst.singleMin
                   ELSE agg.singleMin,
     singleMax |-> IF inst.singleMax = 0 THEN 0
                   ELSE IF inst.singleMax > agg.singleMax THEN inst.singleMax
                   ELSE agg.singleMax,
     blocked   |-> /\ agg.blocked
                   /\ inst.dailyLimit > 0
                   /\ inst.dailyLimit - used[inst.id] <= inst.singleMin]

\* rows: the enabled instances of every provider, in the order the database
\* returns them.  The largest remaining capacity is never found: it starts
\* as null, which the loop takes for "one has no limit".
aggregateInstanceLimits(rows, type, used) ==
    LET supporting == {i \in 1..Len(rows) : supports(rows[i], type)}
        agg == MapThenFoldSet(LAMBDA inst, a : widen(a, inst, used),
                              [singleMin |-> Infinity, singleMax |-> 0,
                               blocked |-> TRUE],
                              LAMBDA i : rows[i], LAMBDA S : Max(S), supporting)
    IN IF supporting = {}
       THEN [singleMin |-> 0, singleMax |-> 0, blocked |-> FALSE]
       ELSE [agg EXCEPT !.singleMin = IF @ = Infinity THEN 0 ELSE @]

\* The smallest of some maxima, of which 0 is none.
Tightest(maxima) ==
    IF maxima \subseteq {0} THEN 0 ELSE Min(maxima \ {0})

\* inst: aggregateInstanceLimits; used: paid by this method today.  A method
\* whose remaining capacity is 0 publishes no maximum, but is not available.
queryMethodLimits(inst, dailyLimit, singleLimit, used, feeRate) ==
    LET remaining == IF dailyLimit > used THEN dailyLimit - used ELSE 0
        single == Tightest({singleLimit, inst.singleMax})
        singleMax == IF dailyLimit = 0 THEN single
                     ELSE IF single = 0 THEN remaining
                     ELSE Min({single, remaining})
    IN [available |-> /\ dailyLimit = 0 \/ used < dailyLimit
                      /\ ~inst.blocked
                      /\ inst.singleMin = 0 \/ singleMax >= inst.singleMin,
        singleMin |-> inst.singleMin,
        singleMax |-> singleMax,
        feeRate   |-> feeRate]

\* PaymentForm lets the customer submit the amount.
isValid(limits, amount, minAmount, maxAmount) ==
    /\ amount >= Max({limits.singleMin, minAmount})
    /\ amount <= (IF limits.singleMax > 0 THEN limits.singleMax ELSE maxAmount)
    /\ limits.available

-----------------------------------------------------------------------------
(* The choice of an instance.                                              *)

withinDailyLimit(inst, used) ==
    inst.dailyLimit = 0 \/ used[inst.id] < inst.dailyLimit

withinSingleLimits(inst, amount) ==
    /\ amount >= inst.singleMin
    /\ inst.singleMax = 0 \/ amount <= inst.singleMax

\* The indices of the instances that may take the order.
\* Mutant: an instance whose remaining capacity is below its minimum is out.
MutantEligible(instances, key, type, amount, used) ==
    {i \in 1..Len(instances) :
        LET inst == instances[i]
        IN /\ inst.key = key /\ supports(inst, type)
           /\ withinDailyLimit(inst, used)
           /\ inst.dailyLimit = 0 \/ inst.dailyLimit - used[inst.id] >= amount
           /\ withinSingleLimits(inst, amount)}

eligible(instances, key, type, amount, used) ==
    {i \in 1..Len(instances) :
        LET inst == instances[i]
        IN /\ inst.key = key /\ supports(inst, type)
           /\ withinDailyLimit(inst, used)
           /\ withinSingleLimits(inst, amount)}

\* The first of those who have earned least today, or one after the other.
selectInstance(instances, candidates, strategy, counter, used) ==
    LET earned(i) == used[instances[i].id]
        before(i) == {j \in candidates : j < i}
    IN IF strategy = "least-amount"
       THEN instances[Min({i \in candidates :
                              \A j \in candidates : earned(i) <= earned(j)})]
       ELSE instances[CHOOSE i \in candidates :
                Cardinality(before(i)) = counter % Cardinality(candidates)]

=============================================================================
