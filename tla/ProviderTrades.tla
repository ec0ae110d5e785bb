--------------------------- MODULE ProviderTrades ---------------------------
(***************************************************************************)
(* One pending order and its trade at one of the four gateways: the        *)
(* customer pays, the gateway notifies, and the user's cancellation and    *)
(* the expiry of the order ask the gateway, cancel the trade and close the *)
(* row, each in steps of its own.  The adapters of lib/easy-pay,           *)
(* lib/stripe, lib/wxpay and lib/alipay translate the gateways' words.     *)
(*                                                                         *)
(* Amounts agree; what confirmPayment does with others, and the fulfilment *)
(* after it, are in LibOrders.  Signatures are valid: a notification that  *)
(* is not signed by its gateway is refused before anything is read.        *)
(***************************************************************************)
EXTENDS Naturals, FiniteSets

Gateways == {"easypay", "stripe", "wxpay", "alipay"}
Cancellers == {"user", "sweep"}

\* The gateways' own words.
Untouched == [easypay |-> "0", stripe |-> "requires_payment_method",
              wxpay |-> "NOTPAY", alipay |-> "ACQ.TRADE_NOT_EXIST"]
PaidWord  == [easypay |-> "1", stripe |-> "succeeded",
              wxpay |-> "SUCCESS", alipay |-> "TRADE_SUCCESS"]
ClosedWord == [easypay |-> "-", stripe |-> "canceled",
               wxpay |-> "CLOSED", alipay |-> "TRADE_CLOSED"]
Payable == {"0", "requires_payment_method", "NOTPAY", "PAYERROR",
            "WAIT_BUYER_PAY"}

VARIABLES
    gateway,      \* of the order: the registered provider of its type
    viaInstance,  \* providerInstanceId is set
    way,          \* how the customer can pay; "none" while createPayment runs
    trade,        \* the gateway's word for the trade
    money,        \* the customer has paid
    events,       \* notifications not yet acknowledged
    status,       \* of the order's row
    grace,        \* an EXPIRED row is not older than five minutes
    linkOpen,     \* a signed alipay URL for the order is open somewhere
    canceller     \* cancelOrderCore: where each caller is, and what it heard

tradeVars == <<gateway, viaInstance, way, trade, money, events, status,
               grace, linkOpen, canceller>>

\* answer: to queryOrder; hadMoney: the trade was paid when it was asked;
\* closed: cancelPayment returned without an error.
NoCall == [pc |-> "idle", answer |-> "none", hadMoney |-> FALSE, closed |-> FALSE]

-----------------------------------------------------------------------------
(* The adapters: how an order can be paid, what queryOrder makes of the    *)
(* gateway's word, and what verifyNotification makes of its events.        *)

easypayCreate == {"url", "qr"}
easypayWays == easypayCreate
stripeWays == {"clientSecret"}

\* On a phone the H5 page, or the code when the merchant has no H5 (NO_AUTH).
createPcOrder == "code"
createH5Order == "h5"
wxpayWays == {createH5Order, createPcOrder}

\* On a phone the signed link itself, else the entry page of the application.
pageExecute == "link"
buildAlipayPaymentUrl == pageExecute
buildAlipayEntryUrl == "entry"
alipayWays == {buildAlipayPaymentUrl, buildAlipayEntryUrl}

Ways == [easypay |-> easypayWays, stripe |-> stripeWays,
         wxpay |-> wxpayWays, alipay |-> alipayWays]

easypayQuery(word) == IF word = "1" THEN "paid" ELSE "pending"

stripeQuery(word) ==
    CASE word = "succeeded" -> "paid" [] word = "canceled" -> "failed"
      [] OTHER -> "pending"

wxpayQuery(word) ==
    CASE word = "SUCCESS" -> "paid" [] word = "REFUND" -> "refunded"
      [] word \in {"CLOSED", "PAYERROR"} -> "failed" [] OTHER -> "pending"

\* Mutant: Alipay's last word for a paid trade is not known.
MutantalipayQuery(word) ==
    CASE word = "TRADE_SUCCESS" -> "paid"
      [] word = "TRADE_CLOSED" -> "failed" [] OTHER -> "pending"

\* A trade that Alipay does not know is pending.
alipayQuery(word) ==
    CASE word \in {"TRADE_SUCCESS", "TRADE_FINISHED"} -> "paid"
      [] word = "TRADE_CLOSED" -> "failed" [] OTHER -> "pending"

easypayVerify(event) == IF event = "TRADE_SUCCESS" THEN "success" ELSE "failed"

\* null, for the webhook's caller: an event the library does not know.
stripeVerify(event) ==
    CASE event = "payment_intent.succeeded" -> "success"
      [] event = "payment_intent.payment_failed" -> "failed" [] OTHER -> "null"

wxpayVerify(event) == IF event = "TRANSACTION.SUCCESS" THEN "success" ELSE "null"

\* Mutant: only a finished trade counts as paid.
MutantalipayVerify(event) == IF event = "TRADE_FINISHED" THEN "success" ELSE "failed"

alipayVerify(event) ==
    IF event \in {"TRADE_SUCCESS", "TRADE_FINISHED"} THEN "success" ELSE "failed"

\* The clients throw what is not a good answer: a code other than 1, an HTTP
\* error, a code other than 10000, a timeout.  A gateway that is asked for a
\* number it does not know answers such an error: another gateway's trade, or
\* the gateway's own number where EasyPay expects the merchant's.
easypayAnswers(word, known) ==
    {"error"} \cup (IF known THEN {easypayQuery(word)} ELSE {})

stripeAnswers(word) == {"error", stripeQuery(word)}
wxpayAnswers(word) == {"error", wxpayQuery(word)}
alipayAnswers(word) == {"error", alipayQuery(word)}

TradeInit ==
    /\ gateway \in Gateways /\ viaInstance \in BOOLEAN
    /\ way = "none"
    /\ trade = Untouched[gateway]
    /\ money = FALSE /\ events = {}
    /\ status = "PENDING" /\ grace = TRUE
    /\ linkOpen = FALSE
    /\ canceller = [c \in Cancellers |-> NoCall]

\* The provider cancelOrderCore asks takes every instance for one of EasyPay;
\* an instance that is gone falls back on the registered provider.
queryOrder ==
    (IF viaInstance THEN easypayAnswers(trade, gateway = "easypay") ELSE {})
    \cup CASE gateway = "easypay" -> easypayAnswers(trade, TRUE)
           [] gateway = "stripe" -> stripeAnswers(trade)
           [] gateway = "wxpay" -> wxpayAnswers(trade)
           [] gateway = "alipay" -> alipayAnswers(trade)

verifyNotification(event) ==
    CASE gateway = "easypay" -> easypayVerify(event)
      [] gateway = "stripe" -> stripeVerify(event)
      [] gateway = "wxpay" -> wxpayVerify(event)
      [] gateway = "alipay" -> alipayVerify(event)

-----------------------------------------------------------------------------
(* The customer and the gateways (external).                               *)

PaidEvent == [easypay |-> "TRADE_SUCCESS", stripe |-> "payment_intent.succeeded",
              wxpay |-> "TRANSACTION.SUCCESS", alipay |-> "TRADE_SUCCESS"]

CustomerPays ==
    /\ way # "none" /\ trade \in Payable
    /\ trade' = PaidWord[gateway] /\ money' = TRUE
    /\ events' = events \cup {PaidEvent[gateway]}
    /\ UNCHANGED <<gateway, viaInstance, way, status, grace, linkOpen, canceller>>

\* An attempt fails; the customer may try again.
PaymentFails ==
    /\ way # "none" /\ gateway \in {"stripe", "wxpay"} /\ trade \in Payable
    /\ trade' = IF gateway = "wxpay" THEN "PAYERROR" ELSE trade
    /\ events' = IF gateway = "stripe"
                 THEN events \cup {"payment_intent.payment_failed"} ELSE events
    /\ UNCHANGED <<gateway, viaInstance, way, money, status, grace, linkOpen,
                   canceller>>

\* Alipay knows the trade once the customer opens the signed URL.
CustomerOpensAlipay ==
    /\ linkOpen /\ trade = "ACQ.TRADE_NOT_EXIST"
    /\ trade' = "WAIT_BUYER_PAY"
    /\ events' = events \cup {"WAIT_BUYER_PAY"}
    /\ UNCHANGED <<gateway, viaInstance, way, money, status, grace, linkOpen,
                   canceller>>

\* After the time in which a refund is possible.
TradeFinishes ==
    /\ trade = "TRADE_SUCCESS"
    /\ trade' = "TRADE_FINISHED"
    /\ events' = events \cup {"TRADE_FINISHED"}
    /\ UNCHANGED <<gateway, viaInstance, way, money, status, grace, linkOpen,
                   canceller>>

-----------------------------------------------------------------------------
(* The library.                                                            *)

\* createOrder, after the row was inserted: the gateway answers and the row
\* gets its trade number, whatever its status is by then.
CreatePayment ==
    /\ way = "none" /\ status # "deleted"
    /\ way' \in Ways[gateway]
    /\ linkOpen' = (way' = buildAlipayPaymentUrl)
    /\ UNCHANGED <<gateway, viaInstance, trade, money, events, status, grace,
                   canceller>>

\* Any error, a timeout after the gateway made the trade included, deletes the
\* row.
CreatePaymentThrows ==
    /\ way = "none" /\ status # "deleted"
    /\ status' = "deleted"
    /\ UNCHANGED <<gateway, viaInstance, way, trade, money, events, grace,
                   linkOpen, canceller>>

\* confirmPayment for the right amount: the row's status and its verdict.
Confirmed == IF status = "PENDING" \/ (status = "EXPIRED" /\ grace)
             THEN "PAID" ELSE status

\* GET /pay/[orderId]: a page that sends the customer on to Alipay while the
\* order is PENDING and not overdue.
OpenPaymentEntry ==
    /\ gateway = "alipay" /\ status = "PENDING"
    /\ linkOpen' = TRUE
    /\ UNCHANGED <<gateway, viaInstance, way, trade, money, events, status,
                   grace, canceller>>

\* handlePaymentNotify, and the gateway's acknowledgement.  Only a success
\* reaches confirmPayment; a row that is already PAID may still be in
\* fulfilment, and the gateway is then asked to try again.
Notify(e) ==
    /\ e \in events
    /\ IF verifyNotification(e) = "success"
       THEN /\ status' = Confirmed
            /\ events' \in IF status = "PAID" THEN {events, events \ {e}}
                           ELSE {events \ {e}}
       ELSE events' = events \ {e} /\ UNCHANGED status
    /\ UNCHANGED <<gateway, viaInstance, way, trade, money, grace, linkOpen,
                   canceller>>

\* cancelOrder and expireOrders look for PENDING rows.  Without a trade number
\* there is nobody to ask.
BeginCancel(c) ==
    /\ canceller[c].pc = "idle" /\ status = "PENDING"
    /\ canceller' = [canceller EXCEPT ![c] =
          [NoCall EXCEPT !.pc = IF way = "none" THEN "close" ELSE "query"]]
    /\ UNCHANGED <<gateway, viaInstance, way, trade, money, events, status,
                   grace, linkOpen>>

Query(c) ==
    /\ canceller[c].pc = "query"
    /\ \E a \in queryOrder :
          /\ canceller' = [canceller EXCEPT ![c] =
                 [@ EXCEPT !.answer = a, !.hadMoney = money,
                           !.pc = CASE a = "paid" -> "idle"
                                    [] a = "error" -> "close"
                                    [] OTHER -> "cancel"]]
          /\ status' = IF a = "paid" THEN Confirmed ELSE status
    /\ UNCHANGED <<gateway, viaInstance, way, trade, money, events, grace,
                   linkOpen>>

\* EasyPay has nothing to cancel; Stripe and WeChat Pay refuse to cancel what
\* is paid; Alipay refuses too, and the library takes an unknown trade for a
\* closed one.
CanCancel == trade \in Payable \/ trade = ClosedWord[gateway]

Returned(c, closed) ==
    canceller' = [canceller EXCEPT ![c].pc = "close", ![c].closed = closed]

Cancelled(c) ==
    /\ canceller[c].pc = "cancel"
    /\ gateway # "easypay" /\ CanCancel
    /\ trade' = ClosedWord[gateway]
    /\ Returned(c, TRUE)
    /\ UNCHANGED <<gateway, viaInstance, way, money, events, status, grace,
                   linkOpen>>

NothingToCancel(c) ==
    /\ canceller[c].pc = "cancel"
    /\ gateway = "easypay" \/ trade = "ACQ.TRADE_NOT_EXIST"
    /\ Returned(c, TRUE)
    /\ UNCHANGED <<gateway, viaInstance, way, trade, money, events, status,
                   grace, linkOpen>>

\* Any error of cancelPayment is logged and forgotten.
CancelFails(c) ==
    /\ canceller[c].pc = "cancel" /\ gateway # "easypay"
    /\ Returned(c, FALSE)
    /\ UNCHANGED <<gateway, viaInstance, way, trade, money, events, status,
                   grace, linkOpen>>

FinalStatus == [user |-> "CANCELLED", sweep |-> "EXPIRED"]

\* UPDATE ... WHERE status = 'PENDING'.
CloseOrder(c) ==
    /\ canceller[c].pc = "close"
    /\ status' = IF status = "PENDING" THEN FinalStatus[c] ELSE status
    /\ canceller' = [canceller EXCEPT ![c].pc = "idle"]
    /\ UNCHANGED <<gateway, viaInstance, way, trade, money, events, grace,
                   linkOpen>>

GraceEnds ==
    /\ status = "EXPIRED" /\ grace
    /\ grace' = FALSE
    /\ UNCHANGED <<gateway, viaInstance, way, trade, money, events, status,
                   linkOpen, canceller>>

TradeNext ==
    \/ CustomerPays \/ PaymentFails \/ CustomerOpensAlipay \/ TradeFinishes
    \/ CreatePayment \/ CreatePaymentThrows \/ OpenPaymentEntry \/ GraceEnds
    \/ \E e \in events : Notify(e)
    \/ \E c \in Cancellers :
          \/ BeginCancel(c) \/ Query(c) \/ Cancelled(c) \/ NothingToCancel(c)
          \/ CancelFails(c) \/ CloseOrder(c)

-----------------------------------------------------------------------------

\* The order goes where the money is.  A row is PAID only for money received,
\* and a row that is deleted has none.
\* An adapter that answers says paid exactly if the trade was paid when it was
\* asked, in whatever words the gateway has for it.  And once Stripe or WeChat
\* Pay has taken back the trade of a closed order, no money comes for it
\* (easy-pay/provider.ts:53-61, stripe/provider.ts:73-86,
\* wxpay/provider.ts:64-92, alipay/provider.ts:93-134, service.ts:543-604).
OrderFollowsMoney ==
    /\ status = "PAID" => money
    /\ status = "deleted" => ~money
    /\ \A c \in Cancellers :
          /\ canceller[c].answer = "paid" => canceller[c].hadMoney
          /\ canceller[c].answer \in {"pending", "failed"} => ~canceller[c].hadMoney
          /\ canceller[c].closed /\ gateway \in {"stripe", "wxpay"} => ~money

=============================================================================
