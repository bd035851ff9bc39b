----------------------------- MODULE Receiving -----------------------------
(***************************************************************************)
(* Labels for received goods: the By PO and By Receipt tabs of the         *)
(* console, the routes of the node that ask D365 for an order, for its     *)
(* receipts and for one receipt, and the route that prints.                *)
(*                                                                         *)
(* Nothing blocks the page while it waits (showLoading shows nothing), so  *)
(* that loads overlap each other, the box is edited and labels are printed *)
(* in the meantime.  The number on a label is the one in the box.          *)
(*                                                                         *)
(* Orders and receipts do not change while a page is open.  Quantities are *)
(* whole: the page rounds them up.  Descriptions, batches and bins are     *)
(* left out.                                                               *)
(***************************************************************************)
EXTENDS Sequences, FiniteSetsExt

CONSTANTS
    Order, Item, Receipt,
    NoOrder,     \* the empty box; no order yet
    NoReceipt,   \* no receipt chosen; a count that is of no receipt
    Lines,       \* D365: the items of an order, line by line
    Received,    \* D365: the items and quantities of a receipt, line by line
    For,         \* D365: the order that a receipt is for
    TopLines,    \* lines that a query asks for
    MaxCount,    \* labels of one kind that a request prints
    Counts,      \* counts that are entered
    Load,        \* slots for loads of an order under way at the same time
    Fetch        \* slots for quantities under way at the same time

ASSUME ReceivingAssumption ==
    /\ Lines \in [Order -> Seq(Item)]
    /\ Received \in [Receipt -> Seq([item : Item, cnt : Nat])]
    /\ For \in [Receipt -> Order]
    /\ NoOrder \notin Order
    /\ NoReceipt \notin Receipt
    /\ TopLines \in Nat \ {0}
    /\ MaxCount \in Nat \ {0}
    /\ Counts \subseteq Nat

VARIABLES
    box,       \* #poInput
    po,        \* state.po, and the header shown
    table,     \* #poTable: its order and its rows
    options,   \* the order whose receipts #poReceiptSel offers
    chosen,    \* #poReceiptSel
    receipt,   \* state.receipt, which is what the By Receipt tab shows
    load,      \* loadPo calls under way
    fetch,     \* applyReceiptQty calls under way
    doubt,     \* why box and table may differ; no action reads it
    stale      \* options are not those of the table; no action reads it

shown == <<box, po, table, options, chosen, receipt>>
calls == <<load, fetch>>
vars  == <<shown, calls, doubt, stale>>

\* sure: by all that happened, the count is from a receipt of the table's order.
Row == [item : Item, cnt : Nat, from : Receipt \cup {NoReceipt}, sure : BOOLEAN]

Idle == [at |-> "idle"]

Reason == {"edited", "failed", "overlapped"}

\* $top
Answered(lines) == SubSeq(lines, 1, IF Len(lines) < TopLines THEN Len(lines) ELSE TopLines)

Init ==
    /\ box = NoOrder
    /\ po = NoOrder
    /\ table = [order |-> NoOrder, rows |-> << >>]
    /\ options = NoOrder
    /\ chosen = NoReceipt
    /\ receipt = NoReceipt
    /\ load = [s \in Load |-> Idle]
    /\ fetch = [f \in Fetch |-> Idle]
    /\ doubt = {}
    /\ stale = FALSE

Loading == \E s \in Load : load[s] # Idle

-----------------------------------------------------------------------------
(* Loading an order *)

TypeOrder(o) ==
    /\ o # box
    /\ box' = o
    /\ doubt' = doubt \cup {"edited"}
    /\ UNCHANGED <<po, table, options, chosen, receipt, calls, stale>>

\* loadPo, up to the first answer.
LoadPo(s) ==
    /\ box # NoOrder
    /\ load[s] = Idle
    /\ load' = [load EXCEPT ![s] = [at |-> "order", order |-> box]]
    /\ doubt' = IF Loading THEN doubt \cup {"overlapped"} ELSE {}
    /\ UNCHANGED <<shown, fetch, stale>>

\* get_po: header and lines in one answer.  The page shows the header now and the
\* lines when the receipts are there too.
OrderArrives(s) ==
    /\ load[s].at = "order"
    /\ po' = load[s].order
    /\ load' = [load EXCEPT ![s].at = "receipts"]
    /\ UNCHANGED <<box, table, options, chosen, receipt, fetch, doubt, stale>>

\* No D365 (503), no such order (404), an error (502), no connection.
OrderFails(s) ==
    /\ load[s].at = "order"
    /\ load' = [load EXCEPT ![s] = Idle]
    /\ doubt' = doubt \cup {"failed"}
    /\ UNCHANGED <<shown, fetch, stale>>

\* renderPoLines, in the same task as what precedes it.  Quantities on their way
\* are not called off.
RenderPoLines(s) ==
    LET lines == Answered(Lines[load[s].order])
    IN  /\ table' = [order |-> load[s].order,
                     rows  |-> [i \in DOMAIN lines |->
                         [item |-> lines[i], cnt |-> 0, from |-> NoReceipt, sure |-> TRUE]]]
        /\ load' = [load EXCEPT ![s] = Idle]
        /\ fetch' = [f \in Fetch |-> IF fetch[f] = Idle THEN Idle
                                     ELSE [fetch[f] EXCEPT !.sure = FALSE]]
        /\ UNCHANGED <<box, po, receipt, doubt>>

\* Mutant of ReceiptsArrive: the choice outlives the list that it was made from.
ReceiptsArriveAround(s) ==
    /\ load[s].at = "receipts"
    /\ options' = load[s].order
    /\ stale' = FALSE
    /\ RenderPoLines(s)
    /\ UNCHANGED chosen

ReceiptsArrive(s) ==
    /\ load[s].at = "receipts"
    /\ options' = load[s].order
    /\ chosen' = NoReceipt
    /\ stale' = FALSE
    /\ RenderPoLines(s)

\* catch {}: the receipts offered before stay.
ReceiptsFail(s) ==
    /\ load[s].at = "receipts"
    /\ stale' = TRUE
    /\ RenderPoLines(s)
    /\ UNCHANGED <<options, chosen>>

-----------------------------------------------------------------------------
(* Counts *)

Choose(r) ==
    /\ r # NoReceipt => For[r] = options
    /\ chosen' = r
    /\ UNCHANGED <<box, po, table, options, receipt, calls, doubt, stale>>

\* applyReceiptQty, up to its answer.
ApplyReceiptQty(f) ==
    /\ chosen # NoReceipt
    /\ po # NoOrder
    /\ fetch[f] = Idle
    /\ fetch' = [fetch EXCEPT ![f] = [at |-> "receipt", receipt |-> chosen, sure |-> ~stale]]
    /\ UNCHANGED <<shown, load, doubt, stale>>

\* Of the lines of one item the last counts.
ByItem(r, item) == LET lines == Answered(Received[r])
                       of == {i \in DOMAIN lines : lines[i].item = item}
                   IN  IF of = {} THEN -1 ELSE lines[Max(of)].cnt

\* Mutant of Filled: rows whose item the receipt has not are not left out.
FilledAlways(row, r, sure) ==
    [row EXCEPT !.cnt = ByItem(r, row.item), !.from = r, !.sure = sure]

Filled(row, r, sure) ==
    IF ByItem(r, row.item) = -1 THEN row
    ELSE [row EXCEPT !.cnt = ByItem(r, row.item), !.from = r, !.sure = sure]

\* Every row with an item of the receipt gets all of its quantity, in the table that
\* is there by now.
QtyArrives(f) ==
    /\ fetch[f] # Idle
    /\ table' = [table EXCEPT !.rows = [i \in DOMAIN @ |->
                    Filled(@[i], fetch[f].receipt, fetch[f].sure)]]
    /\ fetch' = [fetch EXCEPT ![f] = Idle]
    /\ UNCHANGED <<box, po, options, chosen, receipt, load, doubt, stale>>

QtyFails(f) ==
    /\ fetch[f] # Idle
    /\ fetch' = [fetch EXCEPT ![f] = Idle]
    /\ UNCHANGED <<shown, load, doubt, stale>>

Entered(row, n) == [row EXCEPT !.cnt = n, !.from = NoReceipt, !.sure = TRUE]

EnterCount(i, n) ==
    /\ i \in DOMAIN table.rows
    /\ table' = [table EXCEPT !.rows[i] = Entered(@, n)]
    /\ UNCHANGED <<box, po, options, chosen, receipt, calls, doubt, stale>>

\* setAllQty, with what was ordered or remains of each row; clearAllQty.
SetAllQty(n) ==
    /\ table.rows # << >>
    /\ table' = [table EXCEPT !.rows = [i \in DOMAIN @ |-> Entered(@[i], n)]]
    /\ UNCHANGED <<box, po, options, chosen, receipt, calls, doubt, stale>>

\* loadReceipt fills the other tab from one answer; one that fails changes nothing.
LoadReceipt(r) ==
    /\ receipt' = r
    /\ UNCHANGED <<box, po, table, options, chosen, calls, doubt, stale>>

-----------------------------------------------------------------------------
(* Printing.  A print leaves no trace on the page nor in the node, and what it *)
(* prints is settled when the button is clicked: operators and not actions.    *)

Clamp(n) == IF n < MaxCount THEN n ELSE MaxCount

\* printLabels asks for the rows with a count; receiving_labels::print repeats each
\* at most MaxCount times and sends them all in one go, or nothing.
Labels(rows, number) ==
    [i \in {k \in DOMAIN rows : rows[k].cnt > 0} |->
        [item |-> rows[i].item, po |-> number, cnt |-> Clamp(rows[i].cnt),
         from |-> rows[i].from, sure |-> rows[i].sure]]

\* printLabels('po'): with nothing in the box, the order of the other tab's receipt.
PoNumber ==
    IF box # NoOrder THEN box ELSE IF receipt # NoReceipt THEN For[receipt] ELSE NoOrder

PoLabels == Labels(table.rows, PoNumber)

\* printLabels('receipt'), of a table as it was loaded: as many as were received.
ReceiptLabels ==
    LET lines == IF receipt = NoReceipt THEN << >> ELSE Answered(Received[receipt])
    IN  Labels([i \in DOMAIN lines |->
                   [item |-> lines[i].item, cnt |-> lines[i].cnt,
                    from |-> receipt, sure |-> TRUE]], For[receipt])

-----------------------------------------------------------------------------
Next ==
    \/ \E o \in Order \cup {NoOrder} : TypeOrder(o)
    \/ \E s \in Load : \/ LoadPo(s) \/ OrderArrives(s) \/ OrderFails(s)
                       \/ ReceiptsArrive(s) \/ ReceiptsFail(s)
    \/ \E r \in Receipt \cup {NoReceipt} : Choose(r)
    \/ \E r \in Receipt : LoadReceipt(r)
    \/ \E f \in Fetch : ApplyReceiptQty(f) \/ QtyArrives(f) \/ QtyFails(f)
    \/ \E n \in Counts : SetAllQty(n) \/ \E i \in 1..TopLines : EnterCount(i, n)

Spec == Init /\ [][Next]_vars

-----------------------------------------------------------------------------
(* Properties *)

TypeOK ==
    /\ box \in Order \cup {NoOrder}
    /\ po \in Order \cup {NoOrder}
    /\ table \in [order : Order \cup {NoOrder}, rows : Seq(Row)]
    /\ options \in Order \cup {NoOrder}
    /\ chosen \in Receipt \cup {NoReceipt}
    /\ receipt \in Receipt \cup {NoReceipt}
    /\ load \in [Load -> {Idle} \cup [at : {"order", "receipts"}, order : Order]]
    /\ fetch \in [Fetch -> {Idle} \cup [at : {"receipt"}, receipt : Receipt, sure : BOOLEAN]]
    /\ doubt \in SUBSET Reason
    /\ stale \in BOOLEAN

Sure == doubt = {} /\ ~Loading

\* Labels name the order of the lines that they are for, unless the box was edited
\* after the load began, or a load had failed, overlapped another, or is under way.
NamesTheirOrder ==
    Sure => \A i \in DOMAIN PoLabels : PoLabels[i].po = table.order

\* A count that came from a receipt came from one of that order, unless the list of
\* receipts could not be loaded or lines were loaded while the receipt was fetched.
FromTheirReceipt ==
    \A i \in DOMAIN PoLabels :
        LET l == PoLabels[i]
        IN  l.from # NoReceipt /\ l.sure => For[l.from] = table.order

\* There are as many labels as the receipt says, up to MaxCount, where it has the
\* item on one line: with more, the By PO tab counts the last of them.
AsManyAsReceived(labels) ==
    \A i \in DOMAIN labels :
        LET l     == labels[i]
            lines == Received[l.from]
        IN  l.from # NoReceipt =>
                \A k \in DOMAIN lines :
                    {j \in DOMAIN lines : lines[j].item = l.item} = {k}
                        => l.cnt = Clamp(lines[k].cnt)

\* What is printed now has its order, its receipt, and its number.
LabelsFit ==
    /\ NamesTheirOrder
    /\ FromTheirReceipt
    /\ AsManyAsReceived(PoLabels)
    /\ AsManyAsReceived(ReceiptLabels)
=============================================================================
