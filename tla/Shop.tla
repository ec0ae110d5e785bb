-------------------------------- MODULE Shop --------------------------------
(***************************************************************************)
(* One day of business with the TypeScript library: a customer loads the   *)
(* payment methods with their limits, submits an amount the form accepts,  *)
(* and createOrder finds a provider and an instance for it, while orders   *)
(* are paid or expire, the administrator saves settings, the server is     *)
(* restarted and the day ends.                                             *)
(*                                                                         *)
(* createOrder is one step from the limit check to the stored instance:    *)
(* its interleavings are the subject of LibOrders, not of this module.     *)
(* An order counts towards the limits while it is PAID, RECHARGING or      *)
(* COMPLETED; the order that was paid last is followed as it ceases to     *)
(* count and counts again, the others stay as they are.                    *)
(***************************************************************************)
EXTENDS PaymentLimits

CONSTANTS
    EnvProviders,      \* PAYMENT_PROVIDERS with their keys in the environment
    Catalogues,        \* the enabled instances, in sortOrder: some sequences
    Settings,          \* what the administrator may have saved
    ProviderFeeRate,   \* FEE_RATE_PROVIDER_...: key -> percentage or -1
    DefaultDailyMax,   \* defaultLimits.dailyMax: type -> amount, 0 for none
    DefaultSingleMax,  \* defaultLimits.singleMax: type -> amount, 0 for none
    MaxAmount,         \* the largest amount the page lets customers enter
    CounterPeriod,     \* bound: a common multiple of the numbers of instances
    MaxPending,        \* bound: unpaid orders at a time
    MaxTaken           \* bound: what one method takes in a day

\* A rate or limit that is not set is -1.
Configured == Nat \cup {-1}

InstanceRows ==
    [id : UNION {{c[i].id : i \in 1..Len(c)} : c \in Catalogues},
     key : ProviderKeys, types : SUBSET Types,
     singleMin : 0..(Infinity - 1), singleMax : Nat, dailyLimit : Nat]

SettingRows ==
    [override : BOOLEAN, providers : SUBSET ProviderKeys, types : SUBSET Types,
     daily : Configured, single : Configured,
     strategy : {"round-robin", "least-amount"}]

ASSUME ShopAssumption ==
    /\ EnvProviders \subseteq ProviderKeys
    /\ Catalogues \subseteq Seq(InstanceRows) /\ Settings \subseteq SettingRows
    /\ ProviderFeeRate \in [ProviderKeys -> Configured]
    /\ DefaultDailyMax \in [Types -> Nat] /\ DefaultSingleMax \in [Types -> Nat]
    /\ {MaxAmount, MaxPending, MaxTaken} \subseteq Nat
    /\ CounterPeriod \in Nat \ {0}
    /\ \A c \in Catalogues : \A n \in 1..Len(c) : CounterPeriod % n = 0

Amounts == 1..MaxAmount

VARIABLES
    instances,    \* the enabled instances: id, key, types and limits
    settings,     \* OVERRIDE_ENV_ENABLED and the rest
    registered,   \* registeredKeys of the running server
    counter,      \* rrCounters: key -> orders placed in turn, modulo the period
    used,         \* instance -> paid today and counted, with fees
    methodUsed,   \* type -> paid today and counted, without fees
    followed,     \* the order of today that was paid last: does it count?
    offer,        \* what the page shows: type -> limits
    fresh,        \* since the page was loaded no usage rose, nothing was saved
    pending,      \* unpaid orders
    answer        \* to the submission just made

shopVars == <<instances, settings, registered, counter, used, methodUsed,
              followed, offer, fresh, pending, answer>>

NoAnswer == [result |-> "none", fresh |-> FALSE, uniform |-> FALSE,
             named |-> FALSE, quoted |-> FALSE]
NoInstance == "env"      \* providerInstanceId null

instanceIds == {instances[i].id : i \in 1..Len(instances)}

ShopInit ==
    /\ instances \in Catalogues
    /\ settings \in Settings
    /\ registered = EnvProviders
    /\ counter = [k \in ProviderKeys |-> 0]
    /\ used = [i \in instanceIds |-> 0]
    /\ methodUsed = [t \in Types |-> 0]
    /\ followed = {}
    /\ offer = <<>> /\ fresh = FALSE
    /\ pending = <<>>
    /\ answer = NoAnswer

-----------------------------------------------------------------------------

Registered == ensureDBProviders(registered, settings, EnvProviders, instances)

MethodLimit(configured, defaults, t) ==
    getMethodLimit(configured, settings.override,
                   getDefaultLimit(Registered, defaults, t))
DailyLimit(t) == MethodLimit(settings.daily, DefaultDailyMax, t)
SingleLimit(t) == MethodLimit(settings.single, DefaultSingleMax, t)

\* getMethodFeeRate asks the providers that are registered when it is called.
FeeRate(keys, t) ==
    LET key == getProviderKey(keys, t)
    IN getMethodFeeRate(-1, IF key = "none" THEN -1 ELSE ProviderFeeRate[key])

\* getEnabledPaymentTypes and queryMethodLimits.  The instances come in any
\* order: aggregateInstanceLimits asks for none.
LoadMethods ==
    /\ registered' = Registered
    /\ \E rows \in {instances, Reverse(instances)} :
          offer' = [t \in resolveEnabledPaymentTypes(
                              UNION {supportedTypes(k) : k \in Registered},
                              settings.types) |->
                      queryMethodLimits(aggregateInstanceLimits(rows, t, used),
                                        DailyLimit(t), SingleLimit(t),
                                        methodUsed[t], FeeRate(Registered, t))]
    /\ fresh' = TRUE
    /\ answer' = NoAnswer
    /\ UNCHANGED <<instances, settings, counter, used, methodUsed, followed, pending>>

\* All instances whose limits are published for the type are its provider's
\* and have the same range, and there is one if the provider has any.
Uniform(t) ==
    LET supporting == {i \in ToSet(instances) : supports(i, t)}
        own == {i \in ToSet(instances) : i.key = getProviderKey(Registered, t)}
    IN /\ supporting \subseteq own
       /\ supporting = {} => own = {}
       /\ \A i, j \in supporting :
             i.singleMin = j.singleMin /\ i.singleMax = j.singleMax

\* The fee is computed before ensureDBProviders: a provider that only the
\* database names is unknown to it in the first order after a restart.
Charged(t, a) == calculatePayAmount(a, FeeRate(registered, t))

\* The settings still name the provider that the page offered.
Named(t) ==
    \E k \in EnvProviders \cup (IF settings.override THEN settings.providers ELSE {}) :
        t \in supportedTypes(k)

\* quoted: what PaymentForm showed is charged, or a cent less; or the provider
\* is not one the environment names.
Quoted(t, a, shown) ==
    \/ Charged(t, a) \in {shown, shown - 1}
    \/ getProviderKey(EnvProviders, t) = "none"

Answer(t, a, result) ==
    \E shown \in shownPayAmounts(a, offer[t].feeRate) :
        answer' = [result |-> result, fresh |-> fresh, uniform |-> Uniform(t),
                   named |-> Named(t), quoted |-> Quoted(t, a, shown)]

Accepted(t, a) ==
    /\ t \in DOMAIN offer
    /\ isValid(offer[t], a, 1, MaxAmount)
    /\ Len(pending) < MaxPending

OverLimit(t, a) == DailyLimit(t) > 0 /\ methodUsed[t] + a > DailyLimit(t)

RefuseOverLimit(t, a) ==
    /\ Accepted(t, a) /\ OverLimit(t, a)
    /\ Answer(t, a, "METHOD_DAILY_LIMIT_EXCEEDED")
    /\ UNCHANGED <<instances, settings, registered, counter, used, methodUsed,
                   followed, offer, fresh, pending>>

\* paymentRegistry.getProvider throws; the new row is deleted.
RefuseNoProvider(t, a) ==
    /\ Accepted(t, a) /\ ~OverLimit(t, a)
    /\ getProviderKey(Registered, t) = "none"
    /\ registered' = Registered
    /\ Answer(t, a, "PAYMENT_GATEWAY_ERROR")
    /\ UNCHANGED <<instances, settings, counter, used, methodUsed, followed, offer,
                   fresh, pending>>

\* Instances are chosen by the amount without the fee.
Candidates(t, a) ==
    eligible(instances, getProviderKey(Registered, t), t, a, used)

RefuseNoInstance(t, a) ==
    /\ Accepted(t, a) /\ ~OverLimit(t, a)
    /\ getProviderKey(Registered, t) # "none"
    /\ Candidates(t, a) = {}
    /\ \E i \in 1..Len(instances) :
          instances[i].key = getProviderKey(Registered, t)
    /\ registered' = Registered
    /\ Answer(t, a, "NO_AVAILABLE_INSTANCE")
    /\ UNCHANGED <<instances, settings, counter, used, methodUsed, followed, offer,
                   fresh, pending>>

PlaceOrder(t, a) ==
    /\ Accepted(t, a) /\ ~OverLimit(t, a)
    /\ LET key == getProviderKey(Registered, t)
           some == Candidates(t, a)
       IN /\ key # "none"
          /\ some = {} => \A i \in 1..Len(instances) : instances[i].key # key
          /\ pending' = Append(pending,
               [inst |-> IF some = {} THEN NoInstance
                         ELSE selectInstance(instances, some, settings.strategy,
                                             counter[key], used).id,
                type |-> t, amount |-> a,
                payAmount |-> Charged(t, a)])
          /\ counter' = IF some = {} \/ settings.strategy = "least-amount"
                        THEN counter
                        ELSE [counter EXCEPT ![key] = (@ + 1) % CounterPeriod]
    /\ registered' = Registered
    /\ Answer(t, a, "placed")
    /\ UNCHANGED <<instances, settings, used, methodUsed, followed, offer, fresh>>

\* The order o begins to count.
UsageRises(o) ==
    /\ methodUsed[o.type] + o.amount <= MaxTaken
    /\ methodUsed' = [methodUsed EXCEPT ![o.type] = @ + o.amount]
    /\ used' = IF o.inst = NoInstance THEN used
               ELSE [used EXCEPT ![o.inst] = @ + o.payAmount]
    /\ fresh' = FALSE
    /\ answer' = NoAnswer
    /\ UNCHANGED <<instances, settings, registered, counter, offer>>

\* External: the customer pays.
OrderPaid(p) ==
    /\ UsageRises(pending[p])
    /\ followed' = {[order |-> pending[p], counts |-> TRUE]}
    /\ pending' = RemoveAt(pending, p)

\* The order that is followed is FAILED, or on the way to a refund.
PaidOrderDrops(f) ==
    LET o == f.order
    IN /\ f.counts
       /\ methodUsed' = [methodUsed EXCEPT ![o.type] = @ - o.amount]
       /\ used' = IF o.inst = NoInstance THEN used
                  ELSE [used EXCEPT ![o.inst] = @ - o.payAmount]
       /\ followed' = {[order |-> o, counts |-> FALSE]}
       /\ answer' = NoAnswer
       /\ UNCHANGED <<instances, settings, registered, counter, offer, fresh,
                      pending>>

\* It is retried, or its refund is rolled back.  Nobody pays.
PaidOrderResumes(f) ==
    /\ ~f.counts
    /\ UsageRises(f.order)
    /\ followed' = {[order |-> f.order, counts |-> TRUE]}
    /\ UNCHANGED pending

OrderExpires(p) ==
    /\ pending' = RemoveAt(pending, p)
    /\ answer' = NoAnswer
    /\ UNCHANGED <<instances, settings, registered, counter, used, methodUsed,
                   followed, offer, fresh>>

\* getBizDayStartUTC moves on: yesterday's payments no longer count.
DayEnds ==
    /\ used' = [i \in DOMAIN used |-> 0]
    /\ methodUsed' = [t \in DOMAIN methodUsed |-> 0]
    /\ followed' = {}
    /\ answer' = NoAnswer
    /\ UNCHANGED <<instances, settings, registered, counter, offer, fresh,
                   pending>>

SettingsSaved ==
    /\ settings' \in Settings /\ settings' # settings
    /\ fresh' = FALSE /\ answer' = NoAnswer
    /\ UNCHANGED <<instances, registered, counter, used, methodUsed, followed,
                   offer, pending>>

\* registeredKeys and rrCounters live in memory.
ServerRestarts ==
    /\ registered' = EnvProviders
    /\ counter' = [k \in DOMAIN counter |-> 0]
    /\ answer' = NoAnswer
    /\ UNCHANGED <<instances, settings, used, methodUsed, followed, offer, fresh,
                   pending>>

Submit(t, a) ==
    \/ RefuseOverLimit(t, a) \/ RefuseNoProvider(t, a)
    \/ RefuseNoInstance(t, a) \/ PlaceOrder(t, a)

ShopNext ==
    \/ LoadMethods
    \/ \E t \in Types, a \in Amounts : Submit(t, a)
    \/ \E p \in 1..Len(pending) : OrderPaid(p) \/ OrderExpires(p)
    \/ \E f \in followed : PaidOrderDrops(f) \/ PaidOrderResumes(f)
    \/ DayEnds \/ SettingsSaved \/ ServerRestarts

-----------------------------------------------------------------------------

\* The page never offers what createOrder then refuses: as long as no order
\* was paid, retried or given up being refunded and nothing was saved since the
\* page was loaded, an amount its form accepts is within the method's remaining
\* day, a provider that is still named is found, and the customer is charged
\* no more than was shown and at most a cent less; and an instance takes the
\* order if all that share the method have one range, also when usage fell
\* meanwhile (limits.ts:76-279, load-balancer.ts:30-151, PaymentForm.tsx:92-113,
\* fee.ts:38-44, service.ts:237-239, 302-332, 368-407).
OfferIsHonoured ==
    answer.fresh =>
        /\ answer.result # "METHOD_DAILY_LIMIT_EXCEEDED"
        /\ answer.named => answer.result # "PAYMENT_GATEWAY_ERROR"
        /\ answer.uniform => answer.result # "NO_AVAILABLE_INSTANCE"
        /\ answer.result = "placed" => answer.quoted

=============================================================================
