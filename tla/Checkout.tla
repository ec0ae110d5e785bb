------------------------------ MODULE Checkout ------------------------------
(***************************************************************************)
(* What surrounds an order: in the TypeScript library the offer it is made *)
(* from, the trade at the gateway, the cached settings and the limit on    *)
(* cancellations, in the Rust service its creation.  Each has its own      *)
(* state, so a behaviour follows one.                                      *)
(***************************************************************************)
EXTENDS Shop, ProviderTrades, ConfigCache, CancelLimit, OrderCreation

VARIABLE part       \* "shop", "trade", "config", "cancels" or "creation"

vars == <<part, shopVars, tradeVars, configVars, cancelVars, creationVars>>

NoShop ==
    /\ instances = <<>> /\ settings \in {CHOOSE s \in Settings : TRUE}
    /\ registered = {} /\ counter = <<>> /\ used = <<>> /\ methodUsed = <<>>
    /\ followed = {} /\ offer = <<>> /\ fresh = FALSE /\ pending = <<>>
    /\ answer = NoAnswer

NoTrade ==
    /\ gateway = "easypay" /\ viaInstance = FALSE /\ way = "none"
    /\ trade = "0" /\ money = FALSE /\ events = {} /\ status = "PENDING"
    /\ grace = TRUE /\ linkOpen = FALSE
    /\ canceller = [c \in Cancellers |-> NoCall]

NoCancels ==
    /\ now = WindowSize * Unit /\ windowMode = "fixed" /\ open = 0 /\ creating = 0
    /\ closing = 0 /\ cancelled = {}

Init ==
    /\ part \in {"shop", "trade", "config", "cancels", "creation"}
    /\ IF part = "shop" THEN ShopInit ELSE NoShop
    /\ IF part = "trade" THEN TradeInit ELSE NoTrade
    /\ ConfigInit
    /\ IF part = "cancels" THEN CancelInit ELSE NoCancels
    /\ CreationInit

InTrade(A) ==
    /\ part = "trade" /\ A
    /\ UNCHANGED <<part, shopVars, configVars, cancelVars, creationVars>>

ShopStep ==
    /\ part = "shop" /\ ShopNext
    /\ UNCHANGED <<part, tradeVars, configVars, cancelVars, creationVars>>
TradeStep == InTrade(TradeNext)
ConfigStep ==
    /\ part = "config" /\ ConfigNext
    /\ UNCHANGED <<part, shopVars, tradeVars, cancelVars, creationVars>>
CancelStep ==
    /\ part = "cancels" /\ CancelNext
    /\ UNCHANGED <<part, shopVars, tradeVars, configVars, creationVars>>
CreationStep ==
    /\ part = "creation" /\ CreationNext
    /\ UNCHANGED <<part, shopVars, tradeVars, configVars, cancelVars>>

Next == ShopStep \/ TradeStep \/ ConfigStep \/ CancelStep \/ CreationStep

Spec == Init /\ [][Next]_vars

\* A gateway repeats a notification until it is acknowledged.
Fairness == WF_vars(InTrade(\E e \in events : Notify(e)))

FairSpec == Spec /\ Fairness

-----------------------------------------------------------------------------

\* Types.  A counter never points past the period, no instance is charged for
\* nothing, a trade that nobody began is not paid, and a lookup in progress
\* has something to look up.
CheckoutTypeOK ==
    /\ DOMAIN offer \subseteq Types
    /\ \A k \in DOMAIN counter : counter[k] \in 0..(CounterPeriod - 1)
    /\ \A t \in DOMAIN offer : offer[t].singleMin \in Nat /\ offer[t].singleMax \in Nat
    /\ Len(pending) <= MaxPending
    /\ status \in {"deleted", "PENDING", "PAID", "CANCELLED", "EXPIRED"}
    /\ money => trade \in {PaidWord[gateway], "TRADE_FINISHED"}
    /\ \A c \in Cancellers : canceller[c].pc \in {"idle", "query", "cancel", "close"}
    /\ reader.pc \in {"idle", "query", "store"}
    /\ reader.pc # "idle" <=> reader.missing # {}
    /\ reader.pc = "store" => DOMAIN reader.rows = reader.missing
    /\ open \in 0..(MaxOpen - 1 + MaxCreating) /\ creating \in 0..MaxCreating
    /\ closing \in 0..MaxCancelling
    /\ \A s \in Slots : creation[s].row \in {"PENDING", "PAID", "EXPIRED"} =>
                          creation[s].pc \in {"create", "attach", "handed", "failed"}

\* No limit that is checked before the order is there can be overrun at will:
\* not the one on cancellations, not those on pending orders and on what an
\* instance collects in a day (CancelsStayBounded, OpenStaysBounded).
LimitsStayBounded == CancelsStayBounded /\ OpenStaysBounded

\* A payment is noticed: an order whose money has arrived does not stay
\* PENDING.  Early and failed notifications of the same trade, which are
\* acknowledged as well, must not use up the gateway's retries
\* (service.ts:788-799, verifyNotification of the four adapters).
PaymentIsNoticed == money ~> (status # "PENDING")

=============================================================================
