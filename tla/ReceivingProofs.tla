-------------------------- MODULE ReceivingProofs --------------------------
(***************************************************************************)
(* For any orders, receipts and numbers of overlapping loads: what the By  *)
(* PO and By Receipt tabs print has its order, its receipt and its number. *)
(***************************************************************************)
EXTENDS Receiving, WellFoundedInduction, TLAPS

\* No lines, no rows.
EmptyTable == table.order = NoOrder => table.rows = << >>

\* With nothing in doubt box and table agree, or the only load under way is of
\* what is in the box.
BoxInv ==
    /\ Sure => box = table.order
    /\ doubt = {} => \A s \in Load : load[s] # Idle =>
           /\ load[s].order = box
           /\ \A t \in Load : load[t] # Idle => t = s

\* A choice is of the list, and a list that is not stale of the table.
ListInv ==
    /\ chosen # NoReceipt => For[chosen] = options
    /\ ~stale => options = table.order

FetchInv ==
    \A f \in Fetch : fetch[f] # Idle /\ fetch[f].sure => For[fetch[f].receipt] = table.order

\* What r says of an item, where it has it on one line.
Counted(r, item, n) ==
    \A k \in DOMAIN Received[r] :
        {j \in DOMAIN Received[r] : Received[r][j].item = item} = {k}
            => n = Received[r][k].cnt

RowFits(row, order) ==
    row.from # NoReceipt =>
        /\ row.sure => For[row.from] = order
        /\ Counted(row.from, row.item, row.cnt)

RowInv == \A i \in DOMAIN table.rows : RowFits(table.rows[i], table.order)

PageInv == EmptyTable /\ BoxInv /\ ListInv /\ FetchInv /\ RowInv

ReceivingInv == TypeOK /\ PageInv

-----------------------------------------------------------------------------
\* A load or a fetch under way is not one that is idle.
LEMMA Busy ==
    ASSUME TypeOK
    PROVE  /\ \A s \in Load : load[s] # Idle =>
                  load[s] \in [at : {"order", "receipts"}, order : Order]
           /\ \A s \in Load : load[s].at \in {"order", "receipts"} => load[s] # Idle
           /\ \A f \in Fetch : fetch[f] # Idle =>
                  fetch[f] \in [at : {"receipt"}, receipt : Receipt, sure : BOOLEAN]
           /\ \A o : [at |-> "order", order |-> o] # Idle
           /\ \A r, b : [at |-> "receipt", receipt |-> r, sure |-> b] # Idle
BY DEF TypeOK, Idle

\* An element of a sequence over a set is in the set.
LEMMA ElementOf ==
    ASSUME NEW T, NEW q \in Seq(T)
    PROVE  \A i \in DOMAIN q : q[i] \in T
OBVIOUS

\* What is made of a sequence element by element is a sequence of its length.
LEMMA MappedSeq ==
    ASSUME NEW S, NEW T, NEW q \in Seq(S), NEW g, g = [i \in DOMAIN q |-> g[i]],
           \A i \in DOMAIN q : g[i] \in T
    PROVE  g \in Seq(T) /\ Len(g) = Len(q) /\ DOMAIN g = DOMAIN q
<1>1. DOMAIN q = 1..Len(q) /\ Len(q) \in Nat
  OBVIOUS
<1>2. DOMAIN g = 1..Len(q)
  BY <1>1
<1>3. g \in [1..Len(q) -> T]
  BY <1>1, <1>2
<1>. QED BY <1>1, <1>2, <1>3

\* The lines that a query answers are the first of those there are.
LEMMA AnsweredPrefix ==
    ASSUME NEW T, NEW lines \in Seq(T)
    PROVE  /\ Answered(lines) \in Seq(T)
           /\ DOMAIN Answered(lines) \subseteq DOMAIN lines
           /\ \A i \in DOMAIN Answered(lines) : Answered(lines)[i] = lines[i]
<1> DEFINE n == IF Len(lines) < TopLines THEN Len(lines) ELSE TopLines
<1>1. n \in Nat /\ n <= Len(lines) /\ Answered(lines) = SubSeq(lines, 1, n)
  BY ReceivingAssumption DEF Answered
<1> HIDE DEF n
<1>2. /\ SubSeq(lines, 1, n) \in Seq(T)
      /\ Len(SubSeq(lines, 1, n)) = n
      /\ \A i \in 1..n : SubSeq(lines, 1, n)[i] = lines[i]
  BY <1>1
<1>. QED BY <1>1, <1>2

\* Some of the numbers of the lines of a sequence have a last one.
LEMMA LastOfSome ==
    ASSUME NEW n \in Nat, NEW S \in SUBSET (1..n), S # {}
    PROVE  Max(S) \in S
<1> DEFINE Below == {n - x : x \in S}
<1>0. \A x \in S : x \in Nat /\ n - x \in Nat
  OBVIOUS
<1>1. Below \subseteq Nat /\ Below # {}
  BY <1>0
<1>2. PICK m \in Below : \A y \in Below : ~ (<<y, m>> \in OpToRel(<, Nat))
  BY <1>1, NatLessThanWellFounded, WFMin
<1>3. \A y \in Below : ~ (y < m)
  <2> TAKE y \in Below
  <2>1. y \in Nat /\ m \in Nat
    BY <1>1
  <2>2. ~ (<<y, m>> \in OpToRel(<, Nat))
    BY <1>2
  <2>. QED BY <2>1, <2>2 DEF OpToRel
<1>4. PICK x \in S : m = n - x
  OBVIOUS
<1>5. \A y \in S : x >= y
  <2> TAKE y \in S
  <2>1. n - y \in Below
    OBVIOUS
  <2>2. ~ (n - y < n - x)
    BY <1>3, <1>4, <2>1
  <2>3. x \in Nat /\ y \in Nat
    BY <1>0
  <2>. QED BY <2>2, <2>3
<1>. QED BY <1>5 DEF Max

\* What a receipt fills in is what it says where it says it once.
LEMMA ByItemCounts ==
    ASSUME NEW r \in Receipt, NEW item, ByItem(r, item) # -1
    PROVE  ByItem(r, item) \in Nat /\ Counted(r, item, ByItem(r, item))
<1> DEFINE lines == Answered(Received[r])
           of == {i \in DOMAIN lines : lines[i].item = item}
<1>1. /\ Received[r] \in Seq([item : Item, cnt : Nat])
      /\ lines \in Seq([item : Item, cnt : Nat])
      /\ DOMAIN lines \subseteq DOMAIN Received[r]
      /\ \A i \in DOMAIN lines : lines[i] = Received[r][i]
  BY AnsweredPrefix, ReceivingAssumption
<1>2. of # {} /\ ByItem(r, item) = lines[Max(of)].cnt
  BY DEF ByItem
<1>3. Max(of) \in of
  <2>1. Len(lines) \in Nat /\ DOMAIN lines = 1..Len(lines)
    BY <1>1
  <2>. QED BY <1>2, <2>1, LastOfSome
<1>4. /\ Max(of) \in DOMAIN Received[r]
      /\ ByItem(r, item) = Received[r][Max(of)].cnt
      /\ Received[r][Max(of)].item = item
  BY <1>1, <1>2, <1>3
<1>5. ByItem(r, item) \in Nat
  <2>1. \A i \in DOMAIN Received[r] : Received[r][i].cnt \in Nat
    <3>1. \A i \in DOMAIN Received[r] : Received[r][i] \in [item : Item, cnt : Nat]
      BY <1>1, ElementOf
    <3>. QED BY <3>1
  <2>. QED BY <2>1, <1>4
<1>. QED BY <1>4, <1>5 DEF Counted

-----------------------------------------------------------------------------
\* The initial state satisfies the invariant.
LEMMA ReceivingInvInit == Init => ReceivingInv
<1> SUFFICES ASSUME Init PROVE ReceivingInv
  OBVIOUS
<1>1. table = [order |-> NoOrder, rows |-> << >>] /\ stale \in BOOLEAN
  BY DEF Init
<1>2. << >> \in Seq(Row) /\ DOMAIN << >> = {}
  OBVIOUS
<1>3. TypeOK
  <2>1. load \in [Load -> {Idle} \cup [at : {"order", "receipts"}, order : Order]]
    BY DEF Init
  <2>2. fetch \in [Fetch -> {Idle} \cup [at : {"receipt"}, receipt : Receipt, sure : BOOLEAN]]
    BY DEF Init
  <2>3. table \in [order : Order \cup {NoOrder}, rows : Seq(Row)]
    BY <1>1, <1>2
  <2>. QED BY <1>1, <2>1, <2>2, <2>3 DEF Init, TypeOK
<1>4. PageInv
  BY <1>1, <1>2, ReceivingAssumption
     DEF Init, PageInv, EmptyTable, BoxInv, ListInv, FetchInv, RowInv, Sure
<1>. QED BY <1>3, <1>4 DEF ReceivingInv

\* What renders the lines of an order brings box, list and table together.
LEMMA RenderKeeps ==
    ASSUME ReceivingInv, NEW s \in Load, load[s].at = "receipts", RenderPoLines(s),
           options' \in Order \cup {NoOrder}, chosen' \in Receipt \cup {NoReceipt},
           stale' \in BOOLEAN, ListInv'
    PROVE  ReceivingInv'
<1> DEFINE o == load[s].order
           lines == Answered(Lines[o])
<1>1. load[s] # Idle /\ o \in Order
  BY Busy DEF ReceivingInv
<1>2. /\ lines \in Seq(Item)
      /\ UNCHANGED <<box, po, receipt, doubt>>
      /\ load' = [load EXCEPT ![s] = Idle]
  BY <1>1, AnsweredPrefix, ReceivingAssumption DEF RenderPoLines
<1>3. /\ table'.order = o
      /\ table'.rows \in Seq(Row)
      /\ table' \in [order : Order \cup {NoOrder}, rows : Seq(Row)]
      /\ \A i \in DOMAIN table'.rows : table'.rows[i].from = NoReceipt
  <2> DEFINE row(i) == [item |-> lines[i], cnt |-> 0, from |-> NoReceipt, sure |-> TRUE]
             rows == [i \in DOMAIN lines |-> row(i)]
  <2>1. table' = [order |-> o, rows |-> rows]
    BY DEF RenderPoLines
  <2>2. \A i \in DOMAIN lines : row(i) \in Row
    BY <1>2 DEF Row
  <2>3. rows \in Seq(Row)
    <3>1. DOMAIN lines = 1..Len(lines) /\ Len(lines) \in Nat
      BY <1>2
    <3> HIDE DEF lines, row
    <3>. QED BY <2>2, <3>1
  <2>. QED BY <1>1, <2>1, <2>3
<1>4. /\ fetch' \in [Fetch -> {Idle} \cup [at : {"receipt"}, receipt : Receipt, sure : BOOLEAN]]
      /\ \A f \in Fetch : fetch'[f] # Idle => fetch'[f].sure = FALSE
  <2>1. \A f \in Fetch : fetch[f] # Idle =>
            /\ [fetch[f] EXCEPT !.sure = FALSE]
                   \in [at : {"receipt"}, receipt : Receipt, sure : BOOLEAN]
            /\ [fetch[f] EXCEPT !.sure = FALSE].sure = FALSE
    BY Busy DEF ReceivingInv
  <2>. QED BY <2>1 DEF RenderPoLines
<1>5. TypeOK'
  BY <1>2, <1>3, <1>4 DEF ReceivingInv, TypeOK
<1>6. EmptyTable' /\ RowInv' /\ FetchInv'
  BY <1>1, <1>3, <1>4, ReceivingAssumption DEF EmptyTable, RowInv, RowFits, FetchInv
<1>7. BoxInv'
  <2>1. doubt = {} => o = box /\ \A t \in Load : load[t] # Idle => t = s
    BY <1>1 DEF ReceivingInv, PageInv, BoxInv
  <2>2. \A t \in Load : load'[t] # Idle => load'[t] = load[t] /\ t # s
    BY <1>2 DEF ReceivingInv, TypeOK
  <2>. QED BY <1>2, <1>3, <2>1, <2>2 DEF BoxInv, Sure
<1>. QED BY <1>5, <1>6, <1>7 DEF ReceivingInv, PageInv

\* Filling in keeps a row a row that fits.
LEMMA FilledFits ==
    ASSUME NEW row \in Row, NEW r \in Receipt, NEW sure \in BOOLEAN, NEW order,
           RowFits(row, order), sure => For[r] = order
    PROVE  Filled(row, r, sure) \in Row /\ RowFits(Filled(row, r, sure), order)
<1>1. CASE ByItem(r, row.item) = -1
  BY <1>1 DEF Filled
<1>2. CASE ByItem(r, row.item) # -1
  <2> DEFINE n == ByItem(r, row.item)
  <2>1. n \in Nat /\ Counted(r, row.item, n)
    BY <1>2, ByItemCounts
  <2>2. Filled(row, r, sure) = [row EXCEPT !.cnt = n, !.from = r, !.sure = sure]
    BY <1>2 DEF Filled
  <2> HIDE DEF n
  <2>3. /\ Filled(row, r, sure) \in Row
        /\ Filled(row, r, sure).from = r /\ Filled(row, r, sure).cnt = n
        /\ Filled(row, r, sure).item = row.item /\ Filled(row, r, sure).sure = sure
    BY <2>1, <2>2 DEF Row
  <2>. QED BY <2>1, <2>3 DEF RowFits
<1>. QED BY <1>1, <1>2

\* A step that changes rows one by one, each into one that fits.
LEMMA RowsKeep ==
    ASSUME ReceivingInv, NEW rows \in Seq(Row), Len(rows) = Len(table.rows),
           table' = [table EXCEPT !.rows = rows],
           \A i \in DOMAIN rows : RowFits(rows[i], table.order)
    PROVE  /\ table' \in [order : Order \cup {NoOrder}, rows : Seq(Row)]
           /\ table'.order = table.order
           /\ EmptyTable' /\ RowInv'
<1>1. table \in [order : Order \cup {NoOrder}, rows : Seq(Row)]
  BY DEF ReceivingInv, TypeOK
<1>2. /\ table' \in [order : Order \cup {NoOrder}, rows : Seq(Row)]
      /\ table'.order = table.order /\ table'.rows = rows
  BY <1>1
<1>3. table.order = NoOrder => rows = << >>
  <2>1. table.order = NoOrder => Len(rows) = 0
    BY DEF ReceivingInv, PageInv, EmptyTable
  <2>. QED BY <2>1
<1>. QED BY <1>2, <1>3 DEF EmptyTable, RowInv

\* Every step keeps the invariant.
LEMMA ReceivingInvNext == ReceivingInv /\ [Next]_vars => ReceivingInv'
<1> SUFFICES ASSUME ReceivingInv, [Next]_vars PROVE ReceivingInv'
  OBVIOUS
<1>0. TypeOK /\ EmptyTable /\ BoxInv /\ ListInv /\ FetchInv /\ RowInv
  BY DEF ReceivingInv, PageInv
<1>1. ASSUME NEW o \in Order \cup {NoOrder}, TypeOrder(o) PROVE ReceivingInv'
  <2>1. /\ box' = o /\ doubt' = doubt \cup {"edited"}
        /\ UNCHANGED <<po, table, options, chosen, receipt, load, fetch, stale>>
    BY <1>1 DEF TypeOrder, calls
  <2>2. TypeOK'
    BY <1>0, <2>1 DEF TypeOK, Reason
  <2>3. PageInv'
    BY <1>0, <2>1 DEF PageInv, EmptyTable, BoxInv, Sure, ListInv, FetchInv, RowInv
  <2>. QED BY <2>2, <2>3 DEF ReceivingInv
<1>2. ASSUME NEW s \in Load, LoadPo(s) PROVE ReceivingInv'
  <2>1. /\ UNCHANGED <<box, po, table, options, chosen, receipt, fetch, stale>>
        /\ box \in Order /\ load[s] = Idle
        /\ load' = [load EXCEPT ![s] = [at |-> "order", order |-> box]]
        /\ doubt' = IF Loading THEN doubt \cup {"overlapped"} ELSE {}
    BY <1>0, <1>2 DEF LoadPo, shown, TypeOK
  <2>2. TypeOK'
    BY <1>0, <2>1 DEF TypeOK, Reason
  <2>3. /\ load'[s] # Idle /\ load'[s].order = box
        /\ \A t \in Load : load'[t] # Idle /\ t # s => load[t] # Idle
    BY <1>0, <2>1, Busy DEF TypeOK
  <2>4. doubt' = {} => ~Loading
    BY <2>1
  <2>5. BoxInv'
    BY <2>1, <2>3, <2>4 DEF BoxInv, Sure, Loading
  <2>6. PageInv'
    BY <1>0, <2>1, <2>5 DEF PageInv, EmptyTable, ListInv, FetchInv, RowInv
  <2>. QED BY <2>2, <2>6 DEF ReceivingInv
<1>3. ASSUME NEW s \in Load, OrderArrives(s) PROVE ReceivingInv'
  <2>1. /\ UNCHANGED <<box, table, options, chosen, receipt, fetch, doubt, stale>>
        /\ load[s] # Idle /\ load[s] \in [at : {"order", "receipts"}, order : Order]
        /\ load' = [load EXCEPT ![s].at = "receipts"] /\ po' = load[s].order
    BY <1>0, <1>3, Busy DEF OrderArrives
  <2>2. /\ load' \in [Load -> {Idle} \cup [at : {"order", "receipts"}, order : Order]]
        /\ \A t \in Load : load'[t] # Idle => load[t] # Idle /\ load'[t].order = load[t].order
        /\ load'[s] # Idle
    BY <1>0, <2>1 DEF TypeOK, Idle
  <2>3. TypeOK'
    BY <1>0, <2>1, <2>2 DEF TypeOK
  <2>4. BoxInv'
    BY <1>0, <2>1, <2>2 DEF BoxInv, Sure, Loading
  <2>5. PageInv'
    BY <1>0, <2>1, <2>4 DEF PageInv, EmptyTable, ListInv, FetchInv, RowInv
  <2>. QED BY <2>3, <2>5 DEF ReceivingInv
<1>4. ASSUME NEW s \in Load, OrderFails(s) PROVE ReceivingInv'
  <2>1. /\ UNCHANGED <<box, po, table, options, chosen, receipt, fetch, stale>>
        /\ load' = [load EXCEPT ![s] = Idle] /\ doubt' = doubt \cup {"failed"}
    BY <1>4 DEF OrderFails, shown
  <2>2. TypeOK'
    BY <1>0, <2>1 DEF TypeOK, Reason
  <2>3. PageInv'
    BY <1>0, <2>1 DEF PageInv, EmptyTable, BoxInv, Sure, ListInv, FetchInv, RowInv
  <2>. QED BY <2>2, <2>3 DEF ReceivingInv
<1>5. ASSUME NEW s \in Load, ReceiptsArrive(s) PROVE ReceivingInv'
  <2>1. /\ load[s].at = "receipts" /\ RenderPoLines(s) /\ load[s].order \in Order
        /\ options' = load[s].order /\ chosen' = NoReceipt /\ stale' = FALSE
    BY <1>0, <1>5, Busy DEF ReceiptsArrive
  <2>2. ListInv' /\ stale' \in BOOLEAN
    BY <2>1 DEF ListInv, RenderPoLines
  <2>. QED BY <2>1, <2>2, RenderKeeps
<1>6. ASSUME NEW s \in Load, ReceiptsFail(s) PROVE ReceivingInv'
  <2>1. /\ load[s].at = "receipts" /\ RenderPoLines(s)
        /\ UNCHANGED <<options, chosen>> /\ stale' = TRUE
    BY <1>6 DEF ReceiptsFail
  <2>2. ListInv' /\ stale' \in BOOLEAN
    BY <1>0, <2>1 DEF ListInv
  <2>3. options' \in Order \cup {NoOrder} /\ chosen' \in Receipt \cup {NoReceipt}
    BY <1>0, <2>1 DEF TypeOK
  <2>. QED BY <2>1, <2>2, <2>3, RenderKeeps
<1>7. ASSUME NEW r \in Receipt \cup {NoReceipt}, Choose(r) \/ (r \in Receipt /\ LoadReceipt(r))
      PROVE  ReceivingInv'
  <2>1. /\ UNCHANGED <<box, po, table, options, load, fetch, doubt, stale>>
        /\ \/ receipt' = receipt /\ chosen' = r /\ (r # NoReceipt => For[r] = options)
           \/ receipt' = r /\ chosen' = chosen
    BY <1>7 DEF Choose, LoadReceipt, calls
  <2>2. TypeOK'
    BY <1>0, <2>1 DEF TypeOK
  <2>3. PageInv'
    BY <1>0, <2>1 DEF PageInv, EmptyTable, BoxInv, Sure, Loading, ListInv, FetchInv, RowInv
  <2>. QED BY <2>2, <2>3 DEF ReceivingInv
<1>8. ASSUME NEW f \in Fetch, ApplyReceiptQty(f) PROVE ReceivingInv'
  <2> DEFINE call == [at |-> "receipt", receipt |-> chosen, sure |-> ~stale]
  <2>1. /\ UNCHANGED <<box, po, table, options, chosen, receipt, load, doubt, stale>>
        /\ chosen \in Receipt /\ fetch' = [fetch EXCEPT ![f] = call]
    BY <1>0, <1>8 DEF ApplyReceiptQty, shown, TypeOK
  <2>2. call \in [at : {"receipt"}, receipt : Receipt, sure : BOOLEAN]
    BY <2>1
  <2>3. call.sure => For[call.receipt] = table.order
    BY <1>0, <2>1, ReceivingAssumption DEF ListInv
  <2> HIDE DEF call
  <2>4. TypeOK'
    BY <1>0, <2>1, <2>2 DEF TypeOK
  <2>5. FetchInv'
    BY <1>0, <2>1, <2>3 DEF FetchInv, TypeOK
  <2>6. PageInv'
    BY <1>0, <2>1, <2>5 DEF PageInv, EmptyTable, BoxInv, Sure, Loading, ListInv, RowInv
  <2>. QED BY <2>4, <2>6 DEF ReceivingInv
<1>9. ASSUME NEW rows \in Seq(Row), Len(rows) = Len(table.rows),
             table' = [table EXCEPT !.rows = rows],
             \A i \in DOMAIN rows : RowFits(rows[i], table.order),
             \A f \in Fetch : fetch'[f] \in {Idle, fetch[f]},
             fetch' \in [Fetch -> {Idle} \cup [at : {"receipt"}, receipt : Receipt, sure : BOOLEAN]],
             UNCHANGED <<box, po, options, chosen, receipt, load, doubt, stale>>
      PROVE  ReceivingInv'
  <2>1. /\ table' \in [order : Order \cup {NoOrder}, rows : Seq(Row)]
        /\ table'.order = table.order /\ EmptyTable' /\ RowInv'
    BY <1>9, RowsKeep
  <2>2. TypeOK'
    BY <1>0, <1>9, <2>1 DEF TypeOK
  <2>3. BoxInv' /\ ListInv' /\ FetchInv'
    BY <1>0, <1>9, <2>1 DEF BoxInv, Sure, Loading, ListInv, FetchInv
  <2>. QED BY <2>1, <2>2, <2>3 DEF ReceivingInv, PageInv
<1>10. ASSUME NEW f \in Fetch, QtyArrives(f) PROVE ReceivingInv'
  <2> DEFINE r == fetch[f].receipt
             rows == [i \in DOMAIN table.rows |-> Filled(table.rows[i], r, fetch[f].sure)]
  <2>1. /\ fetch[f] \in [at : {"receipt"}, receipt : Receipt, sure : BOOLEAN]
        /\ table' = [table EXCEPT !.rows = rows]
        /\ fetch' = [fetch EXCEPT ![f] = Idle] /\ fetch[f] # Idle
        /\ UNCHANGED <<box, po, options, chosen, receipt, load, doubt, stale>>
    BY <1>0, <1>10, Busy DEF QtyArrives
  <2>2. \A i \in DOMAIN table.rows : table.rows[i] \in Row /\ RowFits(table.rows[i], table.order)
    BY <1>0 DEF TypeOK, RowInv
  <2>3. \A i \in DOMAIN table.rows : rows[i] \in Row /\ RowFits(rows[i], table.order)
    BY <1>0, <2>1, <2>2, FilledFits DEF FetchInv
  <2>4. rows \in Seq(Row) /\ Len(rows) = Len(table.rows) /\ DOMAIN rows = DOMAIN table.rows
    <3>1. table.rows \in Seq(Row)
      BY <1>0 DEF TypeOK
    <3>2. rows = [i \in DOMAIN table.rows |-> rows[i]]
      OBVIOUS
    <3> HIDE DEF rows
    <3>. QED BY <2>3, <3>1, <3>2, MappedSeq
  <2>5. /\ \A g \in Fetch : fetch'[g] \in {Idle, fetch[g]}
        /\ fetch' \in [Fetch -> {Idle} \cup [at : {"receipt"}, receipt : Receipt, sure : BOOLEAN]]
    BY <1>0, <2>1 DEF TypeOK
  <2> HIDE DEF rows, r
  <2>. QED BY <1>9, <2>1, <2>3, <2>4, <2>5
<1>11. ASSUME NEW f \in Fetch, QtyFails(f) PROVE ReceivingInv'
  <2>1. /\ UNCHANGED <<box, po, table, options, chosen, receipt, load, doubt, stale>>
        /\ fetch' = [fetch EXCEPT ![f] = Idle]
    BY <1>11 DEF QtyFails, shown
  <2>2. TypeOK'
    BY <1>0, <2>1 DEF TypeOK
  <2>3. FetchInv'
    BY <1>0, <2>1 DEF FetchInv, TypeOK
  <2>4. PageInv'
    BY <1>0, <2>1, <2>3 DEF PageInv, EmptyTable, BoxInv, Sure, Loading, ListInv, RowInv
  <2>. QED BY <2>2, <2>4 DEF ReceivingInv
<1>12. ASSUME NEW row \in Row, NEW n \in Nat
       PROVE  Entered(row, n) \in Row /\ RowFits(Entered(row, n), table.order)
  BY <1>12 DEF Entered, Row, RowFits
<1>13. ASSUME NEW n \in Counts, NEW i \in 1..TopLines, EnterCount(i, n) PROVE ReceivingInv'
  <2> DEFINE rows == [table.rows EXCEPT ![i] = Entered(@, n)]
  <2>1. /\ UNCHANGED <<box, po, options, chosen, receipt, load, fetch, doubt, stale>>
        /\ i \in DOMAIN table.rows /\ n \in Nat
        /\ table' = [table EXCEPT !.rows = rows]
    BY <1>13, ReceivingAssumption DEF EnterCount, calls
  <2>2. table.rows \in Seq(Row) /\ \A k \in DOMAIN table.rows : table.rows[k] \in Row
    BY <1>0 DEF TypeOK
  <2>3. Entered(table.rows[i], n) \in Row /\ RowFits(Entered(table.rows[i], n), table.order)
    BY <1>12, <2>1, <2>2
  <2>4. rows \in Seq(Row) /\ Len(rows) = Len(table.rows)
    BY <2>1, <2>2, <2>3
  <2>5. \A k \in DOMAIN rows : RowFits(rows[k], table.order)
    BY <1>0, <2>1, <2>2, <2>3 DEF RowInv
  <2>6. /\ \A g \in Fetch : fetch'[g] \in {Idle, fetch[g]}
        /\ fetch' \in [Fetch -> {Idle} \cup [at : {"receipt"}, receipt : Receipt, sure : BOOLEAN]]
    BY <1>0, <2>1 DEF TypeOK
  <2> HIDE DEF rows
  <2>. QED BY <1>9, <2>1, <2>4, <2>5, <2>6
<1>14. ASSUME NEW n \in Counts, SetAllQty(n) PROVE ReceivingInv'
  <2> DEFINE rows == [i \in DOMAIN table.rows |-> Entered(table.rows[i], n)]
  <2>1. /\ UNCHANGED <<box, po, options, chosen, receipt, load, fetch, doubt, stale>>
        /\ n \in Nat /\ table' = [table EXCEPT !.rows = rows]
    BY <1>14, ReceivingAssumption DEF SetAllQty, calls
  <2>2. \A i \in DOMAIN table.rows : table.rows[i] \in Row
    BY <1>0 DEF TypeOK
  <2>3. \A i \in DOMAIN table.rows : rows[i] \in Row /\ RowFits(rows[i], table.order)
    BY <1>12, <2>1, <2>2
  <2>4. rows \in Seq(Row) /\ Len(rows) = Len(table.rows) /\ DOMAIN rows = DOMAIN table.rows
    <3>1. table.rows \in Seq(Row)
      BY <1>0 DEF TypeOK
    <3>2. rows = [i \in DOMAIN table.rows |-> rows[i]]
      OBVIOUS
    <3> HIDE DEF rows
    <3>. QED BY <2>3, <3>1, <3>2, MappedSeq
  <2>5. /\ \A g \in Fetch : fetch'[g] \in {Idle, fetch[g]}
        /\ fetch' \in [Fetch -> {Idle} \cup [at : {"receipt"}, receipt : Receipt, sure : BOOLEAN]]
    BY <1>0, <2>1 DEF TypeOK
  <2> HIDE DEF rows
  <2>. QED BY <1>9, <2>1, <2>3, <2>4, <2>5
<1>15. CASE UNCHANGED vars
  BY <1>0, <1>15 DEF ReceivingInv, PageInv, vars, shown, calls, TypeOK, EmptyTable, BoxInv,
     Sure, Loading, ListInv, FetchInv, RowInv
<1>. QED
  BY <1>1, <1>2, <1>3, <1>4, <1>5, <1>6, <1>7, <1>8, <1>10, <1>11, <1>13, <1>14, <1>15
     DEF Next

-----------------------------------------------------------------------------
\* Labels that are printed now fit.
LEMMA InvLabelsFit == ReceivingInv => LabelsFit
<1> SUFFICES ASSUME ReceivingInv PROVE LabelsFit
  OBVIOUS
<1>0. TypeOK /\ EmptyTable /\ BoxInv /\ RowInv
  BY DEF ReceivingInv, PageInv
<1>1. ASSUME NEW i \in DOMAIN PoLabels
      PROVE  /\ i \in DOMAIN table.rows
             /\ PoLabels[i] = [item |-> table.rows[i].item, po |-> PoNumber,
                               cnt |-> Clamp(table.rows[i].cnt),
                               from |-> table.rows[i].from, sure |-> table.rows[i].sure]
  BY <1>1 DEF PoLabels, Labels
<1>2. NamesTheirOrder
  <2> SUFFICES ASSUME Sure, NEW i \in DOMAIN PoLabels PROVE PoLabels[i].po = table.order
    BY DEF NamesTheirOrder
  <2>1. table.order # NoOrder
    BY <1>0, <1>1 DEF EmptyTable
  <2>2. box = table.order
    BY <1>0 DEF BoxInv
  <2>. QED BY <1>1, <2>1, <2>2 DEF PoNumber
<1>3. ASSUME NEW i \in DOMAIN PoLabels, PoLabels[i].from # NoReceipt
      PROVE  /\ PoLabels[i].sure => For[PoLabels[i].from] = table.order
             /\ Counted(PoLabels[i].from, PoLabels[i].item, table.rows[i].cnt)
             /\ PoLabels[i].cnt = Clamp(table.rows[i].cnt)
  BY <1>0, <1>1, <1>3 DEF RowInv, RowFits
<1>4. FromTheirReceipt
  BY <1>3 DEF FromTheirReceipt
<1>5. AsManyAsReceived(PoLabels)
  BY <1>3 DEF AsManyAsReceived, Counted
<1>6. AsManyAsReceived(ReceiptLabels)
  <2> SUFFICES ASSUME NEW i \in DOMAIN ReceiptLabels
               PROVE  /\ ReceiptLabels[i].from = receipt
                      /\ i \in DOMAIN Received[receipt]
                      /\ ReceiptLabels[i].item = Received[receipt][i].item
                      /\ ReceiptLabels[i].cnt = Clamp(Received[receipt][i].cnt)
    BY DEF AsManyAsReceived
  <2> DEFINE lines == Answered(Received[receipt])
  <2>1. receipt \in Receipt
    BY <1>0 DEF ReceiptLabels, Labels, TypeOK
  <2>2. DOMAIN lines \subseteq DOMAIN Received[receipt]
        /\ \A k \in DOMAIN lines : lines[k] = Received[receipt][k]
    BY <2>1, AnsweredPrefix, ReceivingAssumption
  <2> DEFINE rows == [k \in DOMAIN lines |->
                         [item |-> lines[k].item, cnt |-> lines[k].cnt,
                          from |-> receipt, sure |-> TRUE]]
  <2>3. ReceiptLabels = Labels(rows, For[receipt])
    BY <2>1, ReceivingAssumption DEF ReceiptLabels
  <2> HIDE DEF lines
  <2>. QED BY <2>2, <2>3 DEF Labels
<1>. QED BY <1>2, <1>4, <1>5, <1>6 DEF LabelsFit

\* Every variable keeps its type: a table's counts are numbers, whatever order
\* answers come in.
THEOREM TypeCorrect == Spec => []TypeOK
<1>1. ReceivingInv => TypeOK
  BY DEF ReceivingInv
<1>. QED BY ReceivingInvInit, ReceivingInvNext, <1>1, PTL DEF Spec

\* However loads, quantities and edits overlap, and whatever D365 has: labels have
\* their order's number, counts are from its receipts and as the receipt says, but
\* for the causes that LabelsFit names.
THEOREM LabelsAlwaysFit == Spec => []LabelsFit
BY ReceivingInvInit, ReceivingInvNext, InvLabelsFit, PTL DEF Spec
=============================================================================
