---------------------------- MODULE MyOrdersPage ----------------------------
(***************************************************************************)
(* The customer's page of orders (app/pay/orders/page.tsx) with its table, *)
(* the refund dialog of the table and the pagination bar.  Every answer is *)
(* applied, whenever it comes; a load remembers what it asked for.  While  *)
(* the dialog is open it covers the page.  The user is on a desktop and    *)
(* has a token: the page sends the others away.                            *)
(***************************************************************************)
EXTENDS Naturals, FiniteSets

CONSTANTS MaxLoads,    \* bound: outstanding requests when the user starts one
          SmallPages   \* how many small pages a long list of orders has

ASSUME TableAssumption == SmallPages \in Nat \ {0}

VARIABLES
    stored,         \* on the server: the number of small pages of orders
    page, pageSize, totalPages,
    rows,           \* the page whose rows are shown, or 0 for no rows
    listLoading, listError,
    dialogOrder,    \* OrderTable: refundOrder, or 0
    submittingId,   \* OrderTable: the order whose request is sent, or 0
    loads

table == <<rows, totalPages, listLoading, listError>>
dialog == <<dialogOrder, submittingId>>
myOrdersVars == <<stored, page, pageSize, table, dialog, loads>>

Sizes == {"small", "large"}

\* GET /api/orders/my: a large page holds everything, a small one a part of
\* it.  A page past the end is empty, it is not an error.
PagesOf(size) == IF size = "large" /\ stored > 0 THEN 1 ELSE stored
RowsOf(p, size) == IF p <= PagesOf(size) THEN p ELSE 0

Load(op, p, size, nr) == [op |-> op, page |-> p, size |-> size, nr |-> nr]

\* The parts of the refund request that is being submitted.
OwnRequests == {l \in loads : l.op \in {"refund", "reload"}}

\* Loads that ask for the same are told apart.
Fresh(set) == CHOOSE n \in 0..Cardinality(set) : \A l \in set : l.nr # n

Begin(op, p, size, set) ==
    /\ loads' = set \cup {Load(op, p, size, Fresh(set))}
    /\ IF op = "refund" THEN UNCHANGED <<listLoading, listError>>
       ELSE listLoading' = TRUE /\ listError' = FALSE

\* The effect runs again if the page finds that it is not in a frame.
MyOrdersInit ==
    /\ stored \in {0, SmallPages}
    /\ page = 1 /\ pageSize = "small" /\ totalPages = 1
    /\ rows = 0 /\ listLoading = TRUE /\ listError = FALSE
    /\ dialogOrder = 0 /\ submittingId = 0
    /\ \E n \in {0, 1} : loads = {Load("list", 1, "small", i) : i \in 0..n}

-----------------------------------------------------------------------------
(* Clicks.                                                                 *)

CanLoad == Cardinality(loads) < MaxLoads
Uncovered == dialogOrder = 0 /\ CanLoad

\* The refresh button stays enabled while the list is loading.
refreshOrders ==
    /\ Uncovered
    /\ Begin("list", page, pageSize, loads)
    /\ UNCHANGED <<stored, page, pageSize, rows, totalPages, dialog>>

\* The pagination bar: first, previous, next and last.
BarPages ==
    (IF page > 1 THEN {1, page - 1} ELSE {}) \cup
    (IF page < totalPages THEN {page + 1, totalPages} ELSE {})

handlePageChange ==
    /\ Uncovered /\ ~listLoading /\ totalPages > 1
    /\ page' \in BarPages
    /\ Begin("list", page', pageSize, loads)
    /\ UNCHANGED <<stored, pageSize, rows, totalPages, dialog>>

handlePageSizeChange ==
    /\ Uncovered /\ ~listLoading
    /\ pageSize' \in Sizes /\ page' = 1
    /\ Begin("list", 1, pageSize', loads)
    /\ UNCHANGED <<stored, rows, totalPages, dialog>>

\* Two orders of the page whose refund may be requested.
openRefundDialog(o) ==
    /\ dialogOrder = 0 /\ submittingId # o
    /\ ~listLoading /\ ~listError /\ rows # 0
    /\ dialogOrder' = o
    /\ UNCHANGED <<stored, page, pageSize, table, submittingId, loads>>

\* Mutant: the dialog can be closed while its request is under way.
MutantCloseRefundDialog ==
    /\ dialogOrder # 0
    /\ dialogOrder' = 0
    /\ UNCHANGED <<stored, page, pageSize, table, submittingId, loads>>

\* The cancel button and the Escape key.
closeRefundDialog ==
    /\ dialogOrder # 0 /\ submittingId # dialogOrder
    /\ dialogOrder' = 0
    /\ UNCHANGED <<stored, page, pageSize, table, submittingId, loads>>

\* The handler remembers the page shown when it was clicked.
handleRefundRequest ==
    /\ dialogOrder # 0 /\ submittingId # dialogOrder /\ CanLoad
    /\ submittingId' = dialogOrder
    /\ Begin("refund", page, pageSize, loads)
    /\ UNCHANGED <<stored, page, pageSize, rows, totalPages, dialogOrder>>

-----------------------------------------------------------------------------
(* The answers.                                                            *)

\* A reload is the end of handleRefundRequest, which closes the dialog, and
\* gives the button back whatever happened.
DialogAfter(l) ==
    IF l.op = "list" THEN UNCHANGED dialog
    ELSE dialogOrder' = 0 /\ submittingId' = 0

\* Mutant: a list that comes late leaves the page number as it is.
MutantLoaded(l) ==
    /\ l.op # "refund"
    /\ rows' = RowsOf(l.page, l.size)
    /\ totalPages' = PagesOf(l.size)
    /\ listLoading' = FALSE
    /\ loads' = loads \ {l}
    /\ DialogAfter(l)
    /\ UNCHANGED <<stored, page, pageSize, listError>>

Loaded(l) ==
    /\ l.op # "refund"
    /\ rows' = RowsOf(l.page, l.size) /\ page' = l.page
    /\ totalPages' = PagesOf(l.size)
    /\ listLoading' = FALSE
    /\ loads' = loads \ {l}
    /\ DialogAfter(l)
    /\ UNCHANGED <<stored, pageSize, listError>>

\* A refused or failed load empties the list; a refused refund request
\* only shows the error, in place of the table.
LoadFails(l) ==
    /\ listError' = TRUE
    /\ IF l.op = "refund" THEN UNCHANGED <<rows, listLoading>>
       ELSE rows' = 0 /\ listLoading' = FALSE
    /\ loads' = loads \ {l}
    /\ DialogAfter(l)
    /\ UNCHANGED <<stored, page, pageSize, totalPages>>

RefundAccepted(l) ==
    /\ l.op = "refund"
    /\ Begin("reload", l.page, l.size, loads \ {l})
    /\ UNCHANGED <<stored, page, pageSize, rows, totalPages, dialog>>

LoadEnds(l) == Loaded(l) \/ LoadFails(l) \/ RefundAccepted(l)

MyOrdersNext ==
    \/ refreshOrders \/ handlePageChange \/ handlePageSizeChange
    \/ closeRefundDialog \/ handleRefundRequest
    \/ \E o \in {1, 2} : openRefundDialog(o)
    \/ \E l \in loads : LoadEnds(l)

=============================================================================
