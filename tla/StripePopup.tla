---------------------------- MODULE StripePopup ----------------------------
(***************************************************************************)
(* Paying with Stripe in a window of its own: handleOpenPopup of           *)
(* PaymentQRCode.tsx and app/pay/stripe-popup/page.tsx.  The page must not *)
(* put the client secret into the popup's URL, so the popup asks for it:   *)
(* once loaded it posts READY to its opener, which answers INIT.           *)
(*                                                                         *)
(* The opener listens from the moment it has opened the window until it    *)
(* has heard the first READY, and opening again reuses the named window.   *)
(***************************************************************************)
EXTENDS Naturals

CONSTANT MaxOpens       \* bound: how often the user opens the popup

VARIABLES
    opens,              \* how often the popup was opened
    listeners,          \* the opener's listeners, one per opening not heard
    posted,             \* messages on their way: "READY" and "INIT"
    popup,              \* "closed", "loading", "shown" or "blocked"
    credentials,        \* the popup has the client secret
    isAlipay,           \* the method the user chose
    paying,             \* "no", "submitting", "error", "done", "redirected"
    disturbed           \* the popup was reloaded by its user, or opened again
                        \* while its READY was on its way: its next READY may
                        \* find nobody listening

popupVars ==
    <<opens, listeners, posted, popup, credentials, isAlipay, paying,
      disturbed>>

PopupInit ==
    /\ opens = 0 /\ listeners = 0 /\ posted = {}
    /\ popup = "closed" /\ credentials = FALSE /\ paying = "no"
    /\ disturbed = FALSE /\ isAlipay \in BOOLEAN

\* Mutant: an opener that has listened once does not listen again.
MutantHandleOpenPopup ==
    /\ opens < MaxOpens
    /\ opens' = opens + 1
    /\ \/ /\ popup' = "loading" /\ credentials' = FALSE /\ paying' = "no"
          /\ posted' = posted \ {"INIT"} /\ disturbed' = ("READY" \in posted)
          /\ listeners' = IF opens = 0 THEN 1 ELSE listeners
       \/ /\ popup \in {"closed", "blocked"} /\ popup' = "blocked"
          /\ UNCHANGED <<listeners, posted, credentials, paying, disturbed>>
    /\ UNCHANGED isAlipay

\* The popup is opened, or the one that is open is loaded anew; the browser
\* may refuse.  A message to the page that was in the window is lost.
handleOpenPopup ==
    /\ opens < MaxOpens
    /\ opens' = opens + 1
    /\ \/ /\ popup' = "loading" /\ credentials' = FALSE /\ paying' = "no"
          /\ posted' = posted \ {"INIT"} /\ disturbed' = ("READY" \in posted)
          /\ listeners' = listeners + 1
       \/ /\ popup \in {"closed", "blocked"} /\ popup' = "blocked"
          /\ UNCHANGED <<listeners, posted, credentials, paying, disturbed>>
    /\ UNCHANGED isAlipay

\* The popup's first effect: it listens, then says that it does.
PopupLoaded ==
    /\ popup = "loading"
    /\ popup' = "shown"
    /\ posted' = posted \cup {"READY"}
    /\ UNCHANGED <<opens, listeners, credentials, isAlipay, paying, disturbed>>

\* Every listener answers once and goes.
onReady ==
    /\ "READY" \in posted
    /\ posted' = (posted \ {"READY"}) \cup
                 (IF listeners > 0 /\ popup # "closed" THEN {"INIT"} ELSE {})
    /\ listeners' = 0
    /\ UNCHANGED <<opens, popup, credentials, isAlipay, paying, disturbed>>

\* A popup that is still loading has no handler yet.
InitReceived ==
    /\ "INIT" \in posted
    /\ posted' = posted \ {"INIT"}
    /\ credentials' = (credentials \/ popup = "shown")
    /\ UNCHANGED <<opens, listeners, popup, isAlipay, paying, disturbed>>

\* Alipay is confirmed as soon as the credentials are there, a card when the
\* user submits the form.
ConfirmPayment ==
    /\ popup = "shown" /\ credentials /\ paying \in {"no", "error"}
    /\ isAlipay => paying = "no"
    /\ paying' = "submitting"
    /\ UNCHANGED <<opens, listeners, posted, popup, credentials, isAlipay,
                   disturbed>>

PaymentConfirmed ==
    /\ popup = "shown" /\ paying = "submitting"
    /\ \/ paying' = "error"
       \/ ~isAlipay /\ paying' = "done"
       \/ paying' = "redirected"
    /\ UNCHANGED <<opens, listeners, posted, popup, credentials, isAlipay,
                   disturbed>>

ReloadPopup ==
    /\ popup = "shown" /\ paying # "redirected"
    /\ popup' = "loading" /\ credentials' = FALSE /\ paying' = "no"
    /\ posted' = posted \ {"INIT"} /\ disturbed' = TRUE
    /\ UNCHANGED <<opens, listeners, isAlipay>>

\* By the user, or two seconds after the payment succeeded.
ClosePopup ==
    /\ popup \in {"loading", "shown"}
    /\ popup' = "closed" /\ posted' = posted \ {"INIT"}
    /\ credentials' = FALSE /\ paying' = "no" /\ disturbed' = FALSE
    /\ UNCHANGED <<opens, listeners, isAlipay>>

PopupNext ==
    \/ handleOpenPopup \/ PopupLoaded \/ onReady \/ InitReceived
    \/ ConfirmPayment \/ PaymentConfirmed \/ ReloadPopup \/ ClosePopup

=============================================================================
