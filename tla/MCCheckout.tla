----------------------------- MODULE MCCheckout -----------------------------
EXTENDS Checkout

Instance(id, key, types, min, max, daily) ==
    [id |-> id, key |-> key, types |-> types, singleMin |-> min,
     singleMax |-> max, dailyLimit |-> daily]

\* No instance; equal ranges with daily limits; a gap between ranges; an
\* instance for every type beside one of a provider of the database.
MCCatalogues ==
    { <<>>,
      << Instance("a", "easypay", {"alipay"}, 1, 3, 4),
         Instance("b", "easypay", {"alipay"}, 1, 3, 4) >>,
      << Instance("a", "easypay", {"alipay"}, 0, 1, 4),
         Instance("b", "easypay", {"alipay"}, 3, 3, 0) >>,
      << Instance("a", "easypay", {"alipay"}, 0, 0, 4),
         Instance("b", "stripe", {}, 2, 3, 4) >> }

Setting(override, providers, types, daily, single, strategy) ==
    [override |-> override, providers |-> providers, types |-> types,
     daily |-> daily, single |-> single, strategy |-> strategy]

MCSettings ==
    { Setting(FALSE, {}, {}, -1, -1, "round-robin"),
      Setting(TRUE, {"stripe"}, {"alipay", "stripe"}, 3, 3, "least-amount") }

MCProviderFeeRate == [easypay |-> 50, stripe |-> 3, alipay |-> -1, wxpay |-> -1]
MCDefaultDailyMax ==
    [t \in Types |-> IF t \in {"alipay", "wxpay"} THEN 5 ELSE 0]
MCDefaultSingleMax ==
    [t \in Types |-> IF t \in {"alipay", "wxpay"} THEN 3 ELSE 0]
=============================================================================
