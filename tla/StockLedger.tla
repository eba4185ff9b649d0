----------------------------- MODULE StockLedger -----------------------------
(***************************************************************************)
(* The stock of the agency's warehouses and vans: the balances, the ledger *)
(* of movements they are to agree with, and the physical counts that       *)
(* correct them after a second person has approved.                        *)
(*                                                                         *)
(* Every use case reads the balances of a location without a lock, changes *)
(* them in memory and writes the ones it touched back as absolute numbers, *)
(* with a ledger row for each change, in one transaction.  Calls overlap:  *)
(* here each one is a step that reads and a step that commits.  The stock  *)
(* register is two reads: of the balances, and then of the movements.      *)
(*                                                                         *)
(* One cylinder type; a load transfer has one line, and what a delivery    *)
(* gives back was set aside for it (Fulfilment has the reports that name a *)
(* type twice and give it back twice).                                     *)
(***************************************************************************)
EXTENDS Integers, FiniteSets, Functions

CONSTANTS
    Warehouses, Vehicles,
    Counts,      \* the reconciliation records there may be
    Calls,       \* bound: the most calls at a time
    Quantities,  \* bound: how many cylinders a call moves, or a count finds
    Handled,     \* bound: the statuses calls are about
    FirstStock,  \* bound: the stock of each location before the first call
    MaxMoves,    \* bound: the calls made
    NoCount, NoLocation

ASSUME NamesAssumption ==
    /\ Warehouses \cap Vehicles = {} /\ NoCount \notin Counts
    /\ NoLocation \notin Warehouses \cup Vehicles

ASSUME BoundsAssumption ==
    IsFiniteSet(Calls) /\ Quantities \subseteq Nat /\ MaxMoves \in Nat

Locations == Warehouses \cup Vehicles

Statuses == {"filled", "empty", "damaged", "leakage", "quarantine", "repair", "scrap"}

ASSUME StockAssumption ==
    Handled \subseteq Statuses /\ FirstStock \in [Locations -> [Statuses -> Nat]]

Cells == Locations \X Statuses

VARIABLES
    balance,   \* inventory_balance.quantity
    net,       \* what the inventory_transaction rows add up to
    reserved,  \* filled cylinders on a van that are set aside for orders
    count,     \* reconciliation_record
    booked,    \* what each count has added to the ledger
    call,      \* what each call is to write
    register,  \* the stock register between its two reads
    torn,      \* cells that two calls at once were to change
    moves

vars == <<balance, net, reserved, count, booked, call, register, torn, moves>>

NoRegister == [at |-> NoLocation, read |-> [s \in Statuses |-> 0], crossed |-> {}]

Returnable == {"empty", "damaged", "leakage", "quarantine"}

\* _STATUS_TRANSITIONS
Transitions ==
    [empty |-> {"damaged", "leakage"}, filled |-> {"damaged", "leakage"},
     damaged |-> {"quarantine"}, leakage |-> {"quarantine"},
     quarantine |-> {"repair", "scrap"}, repair |-> {"filled"}, scrap |-> {}]

\* _ADJUSTMENT_TRANSITIONS: a move of the cycle, or one taken back.
Adjustments ==
    [s \in Statuses |-> Transitions[s] \cup {t \in Statuses : s \in Transitions[t]}]

-----------------------------------------------------------------------------
(* Ledger rows, and how the register reads them *)

In == {"grn_receipt", "load", "collection", "reservation_release"}
Out == {"unload", "delivery", "reservation", "omc_return"}
Types == In \cup Out \cup {"status_change", "adjustment", "reconciliation"}

Row(l, type, from, to, q) == [at |-> l, type |-> type, from |-> from, to |-> to, qty |-> q]

If(test, n) == IF test THEN n ELSE 0

\* signed_balance_changes, at status s
Signed(row, s) ==
    CASE row.type \in In -> If(s = row.to, row.qty)
      [] row.type \in Out -> -If(s = row.to, row.qty)
      [] row.type = "reconciliation" ->
            If(s = row.to, IF row.from = "none" THEN row.qty ELSE -row.qty)
      [] OTHER -> If(s = row.to, row.qty) - If(s = row.from, row.qty)

Net(rows, l, s) ==
    SumFunctionOnSet([row \in rows |-> If(row.at = l, Signed(row, s))], rows)

-----------------------------------------------------------------------------
(* A call, between its reads and its commit *)

Credit(l, s, q) == [at |-> l, status |-> s, by |-> q]
Debit(l, s, q) == Credit(l, s, -q)

Idle == [op |-> "idle", count |-> NoCount, writes |-> {}, rows |-> {}]
Is(c, op) == call[c].op = op

CellsOf(changes) == {<<x.at, x.status>> : x \in changes}
Busy(c) == UNION {CellsOf(call[d].writes) : d \in Calls \ {c}}

After(x) == [at |-> x.at, status |-> x.status, quantity |-> balance[x.at][x.status] + x.by]

\* Mutant: all balances of the locations are written, as they were read.
WritesAll(changes) ==
    {After(x) : x \in changes} \cup
    {After(Credit(p[1], p[2], 0)) : p \in
        {q \in Cells : q \notin CellsOf(changes) /\ \E x \in changes : x.at = q[1]}}

\* Only the balances that have a ledger row are written.
Writes(changes) == {After(x) : x \in changes}

\* Mutant: a debit does not look at the balance.
AlwaysEnough(changes) == TRUE

\* A debit of more than there is raises, and nothing is saved.
Enough(changes) == \A x \in changes : balance[x.at][x.status] + x.by >= 0

Start(c, op, r, changes, rows) ==
    /\ Is(c, "idle") /\ moves < MaxMoves /\ moves' = moves + 1
    /\ Enough(changes)
    /\ call' = [call EXCEPT ![c] =
                  [op |-> op, count |-> r, writes |-> Writes(changes), rows |-> rows]]
    /\ torn' = torn \cup (CellsOf(changes) \cap Busy(c))
    /\ UNCHANGED <<balance, net, reserved, booked, register>>

Move(c, changes, rows) ==
    Start(c, "move", NoCount, changes, rows) /\ UNCHANGED count

-----------------------------------------------------------------------------
(* Movements *)

RecordGoodsReceipt(c, w, q) ==
    Move(c, {Credit(w, "filled", q)}, {Row(w, "grn_receipt", "none", "filled", q)})

ReturnStockToOmc(c, w, s, q) ==
    /\ s \in Returnable
    /\ Move(c, {Debit(w, s, q)}, {Row(w, "omc_return", s, s, q)})

LoadTransfer(c, w, v, s, q) ==
    Move(c, {Debit(w, s, q), Credit(v, s, q)},
            {Row(w, "unload", s, s, q), Row(v, "load", s, s, q)})

RecordDelivery(c, v, q) ==
    Move(c, {Debit(v, "filled", q)}, {Row(v, "delivery", "filled", "filled", q)})

RecordCollection(c, v, q) ==
    Move(c, {Credit(v, "empty", q)}, {Row(v, "collection", "empty", "empty", q)})

ChangeCylinderStatus(c, l, from, to, q) ==
    /\ to \in Transitions[from]
    /\ Move(c, {Debit(l, from, q), Credit(l, to, q)}, {Row(l, "status_change", from, to, q)})

AdjustInventory(c, l, from, to, q) ==
    /\ to \in Adjustments[from]
    /\ Move(c, {Debit(l, from, q), Credit(l, to, q)}, {Row(l, "adjustment", from, to, q)})

\* An order is assigned to the van's trip.
Reserve(c, v, q) ==
    Move(c, {Debit(v, "filled", q)}, {Row(v, "reservation", "filled", "filled", q)})

Leaving(rows, v) ==
    SumFunctionOnSet([row \in rows |-> If(row.type = "reservation_release" /\ row.at = v,
                                          row.qty)], rows)

\* What is set aside and not being released already
SetAside(v) == reserved[v] - SumFunctionOnSet([d \in Calls |-> Leaving(call[d].rows, v)], Calls)

\* An order is cancelled, fails, or takes less than was reserved for it.
ReleaseReservation(c, v, q) ==
    /\ q <= SetAside(v)
    /\ Move(c, {Credit(v, "filled", q)}, {Row(v, "reservation_release", "filled", "filled", q)})

-----------------------------------------------------------------------------
(* Counts.  moved is what the cell has really gained since the count, clean  *)
(* whether its balance was otherwise left alone.                             *)

NoRecord == [state |-> "none", at |-> <<>>, expected |-> 0, actual |-> 0,
             moved |-> 0, clean |-> FALSE]

\* On a van the counter sees the reserved cylinders too.
Aside(p) == If(p[1] \in Vehicles /\ p[2] = "filled", reserved[p[1]])

\* Mutant: the count is compared with the filled cylinders, whatever was counted.
ExpectedFilled(l, s) == balance[l]["filled"]

Expected(l, s) == balance[l][s]

CreateReconciliationRecord(c, r, l, s, actual) ==
    /\ count[r].state = "none"
    /\ Start(c, "count", r, {}, {})
    /\ count' = [count EXCEPT ![r] =
                   [state |-> "recording", at |-> <<l, s>>, expected |-> Expected(l, s),
                    actual |-> actual, moved |-> 0,
                    clean |-> Aside(<<l, s>>) = 0]]

\* What is added to the balance when the count is approved
Variance(r) == count[r].actual - count[r].expected

\* Mutant: the record is read without FOR UPDATE.
NeverLocked(r) == FALSE

Locked(r) == \E c \in Calls : call[c].count = r /\ call[c].op \in {"approve", "reject"}

Decidable(r) == count[r].state = "pending" /\ ~Locked(r)

ApproveReconciliation(c, r) ==
    LET l == count[r].at[1]
        s == count[r].at[2]
        d == Variance(r)
        row == IF d > 0 THEN Row(l, "reconciliation", "none", s, d)
                        ELSE Row(l, "reconciliation", s, s, -d)
    IN  /\ Decidable(r)
        /\ Start(c, "approve", r, IF d = 0 THEN {} ELSE {Credit(l, s, d)},
                                  IF d = 0 THEN {} ELSE {row})
        /\ UNCHANGED count

RejectReconciliation(c, r) ==
    /\ Decidable(r)
    /\ Start(c, "reject", r, {}, {}) /\ UNCHANGED count

-----------------------------------------------------------------------------
(* The commit *)

Written(l, s, ws) ==
    IF \E x \in ws : x.at = l /\ x.status = s
    THEN (CHOOSE x \in ws : x.at = l /\ x.status = s).quantity
    ELSE balance[l][s]

Physical(rows) ==
    {row \in rows : row.type \notin {"reservation", "reservation_release",
                                     "adjustment", "reconciliation"}}

Corrects(rows, p) ==
    \E row \in rows : /\ row.type \in {"adjustment", "reconciliation"}
                      /\ row.at = p[1] /\ p[2] \in {row.from, row.to}

Decision == [count |-> "pending", approve |-> "approved", reject |-> "rejected"]

\* What a commit makes of count r
Recount(c, r) ==
    IF count[r].state = "none" THEN count[r]
    ELSE [count[r] EXCEPT
            !.state = IF call[c].count = r THEN Decision[call[c].op] ELSE @,
            !.moved = @ + Net(Physical(call[c].rows), count[r].at[1], count[r].at[2]),
            !.clean = @ /\ (call[c].count = r \/ ~Corrects(call[c].rows, count[r].at))]

\* The statuses of the register's location that it changes
Crossing(c) == {s \in Statuses : <<register.at, s>> \in CellsOf(call[c].writes)}

Commit(c) ==
    LET rows == call[c].rows
        aside(v) == -Net({row \in rows : row.type \in {"reservation", "reservation_release"}},
                         v, "filled")
    IN  /\ ~Is(c, "idle")
        /\ balance' = [l \in Locations |-> [s \in Statuses |-> Written(l, s, call[c].writes)]]
        /\ net' = [l \in Locations |-> [s \in Statuses |-> net[l][s] + Net(rows, l, s)]]
        /\ reserved' = [v \in Vehicles |-> reserved[v] + aside(v)]
        /\ count' = [r \in Counts |-> Recount(c, r)]
        /\ booked' = IF Is(c, "approve")
                     THEN [booked EXCEPT ![call[c].count] =
                             @ + Net(rows, count[call[c].count].at[1],
                                           count[call[c].count].at[2])]
                     ELSE booked
        /\ call' = [call EXCEPT ![c] = Idle]
        /\ register' = [register EXCEPT !.crossed = @ \cup Crossing(c)]
        /\ UNCHANGED <<torn, moves>>

\* The request fails or its worker dies: the transaction is rolled back.
Rollback(c) ==
    /\ ~Is(c, "idle")
    /\ call' = [call EXCEPT ![c] = Idle]
    /\ count' = IF Is(c, "count") THEN [count EXCEPT ![call[c].count] = NoRecord] ELSE count
    /\ UNCHANGED <<balance, net, reserved, booked, register, torn, moves>>

\* A reserved cylinder is handed over: its balance was debited when it was
\* reserved, so the delivery writes no stock.
HandOver(v, q) ==
    /\ q > 0 /\ q <= SetAside(v)
    /\ reserved' = [reserved EXCEPT ![v] = @ - q]
    /\ count' = [r \in Counts |->
                   IF count[r].at = <<v, "filled">>
                   THEN [count[r] EXCEPT !.moved = @ - q] ELSE count[r]]
    /\ UNCHANGED <<balance, net, booked, call, register, torn, moves>>

-----------------------------------------------------------------------------
(* The stock register of a location: one query for its balances, another     *)
(* for the movements.  crossed are the statuses that changed in between.     *)

ReadBalances(l) ==
    /\ register = NoRegister /\ moves < MaxMoves /\ moves' = moves + 1
    /\ register' = [at |-> l, read |-> balance[l], crossed |-> {}]
    /\ UNCHANGED <<balance, net, reserved, count, booked, call, torn>>

\* What a cell of it opens with: the balance that was read, walked back through
\* the movements there are by now.
Opening(s) == register.read[s] - net[register.at][s]

ReadMovements ==
    /\ register # NoRegister
    /\ register' = NoRegister
    /\ UNCHANGED <<balance, net, reserved, count, booked, call, torn, moves>>

-----------------------------------------------------------------------------
Init ==
    /\ balance = FirstStock
    /\ net = [l \in Locations |-> [s \in Statuses |-> 0]]
    /\ reserved = [v \in Vehicles |-> 0]
    /\ count = [r \in Counts |-> NoRecord]
    /\ booked = [r \in Counts |-> 0]
    /\ call = [c \in Calls |-> Idle]
    /\ register = NoRegister
    /\ torn = {} /\ moves = 0

Positive == Quantities \ {0}

AtWarehouse(c) ==
    \E w \in Warehouses, q \in Positive :
        \/ RecordGoodsReceipt(c, w, q)
        \/ \E s \in Handled : ReturnStockToOmc(c, w, s, q)
        \/ \E v \in Vehicles, s \in Handled : LoadTransfer(c, w, v, s, q)

OnVan(c) ==
    \E v \in Vehicles, q \in Positive :
        \/ RecordDelivery(c, v, q) \/ RecordCollection(c, v, q)
        \/ Reserve(c, v, q) \/ ReleaseReservation(c, v, q)

Correct(c) ==
    \E l \in Locations, from, to \in Handled, q \in Positive :
        ChangeCylinderStatus(c, l, from, to, q) \/ AdjustInventory(c, l, from, to, q)

Counting(c) ==
    \E r \in Counts :
        \/ \E l \in Locations, s \in Handled, actual \in Quantities :
              CreateReconciliationRecord(c, r, l, s, actual)
        \/ ApproveReconciliation(c, r) \/ RejectReconciliation(c, r)

Next ==
    \/ \E c \in Calls :
          AtWarehouse(c) \/ OnVan(c) \/ Correct(c) \/ Counting(c) \/ Commit(c) \/ Rollback(c)
    \/ \E v \in Vehicles, q \in Positive : HandOver(v, q)
    \/ \E l \in Locations : ReadBalances(l)
    \/ ReadMovements

Spec == Init /\ [][Next]_vars
-----------------------------------------------------------------------------
(* Properties *)

Amounts == [at : Locations, status : Statuses, quantity : Nat]
Rows == [at : Locations, type : Types, from : Statuses \cup {"none"}, to : Statuses, qty : Nat]

CallTypes ==
    [op : {"idle", "move", "count", "approve", "reject"}, count : Counts \cup {NoCount},
     writes : SUBSET Amounts, rows : SUBSET Rows]

CountTypes ==
    [state : {"none", "recording", "pending", "approved", "rejected"},
     at : Cells \cup {<<>>}, expected : Nat, actual : Nat, moved : Int, clean : BOOLEAN]

RegisterTypes ==
    [at : Locations \cup {NoLocation}, read : [Statuses -> Nat], crossed : SUBSET Statuses]

\* Every variable has its type; in particular no balance is ever negative.
TypeOK ==
    /\ balance \in [Locations -> [Statuses -> Nat]]
    /\ net \in [Locations -> [Statuses -> Int]]
    /\ reserved \in [Vehicles -> Nat]
    /\ count \in [Counts -> CountTypes]
    /\ booked \in [Counts -> Int]
    /\ call \in [Calls -> CallTypes]
    /\ register \in RegisterTypes
    /\ torn \subseteq Cells /\ moves \in 0 .. MaxMoves

\* GetStockRegisterUseCase walks back from the balance through the ledger: a
\* cell opens with what was there, however it was received, moved, reserved,
\* counted or corrected since, and even where calls overlapped on other cells of
\* the same location; only two calls at once on the same cell, or a commit to it
\* between the register's own two reads, may make it wrong.
RegisterOpensRight ==
    register # NoRegister =>
        \A s \in Statuses \ register.crossed :
            <<register.at, s>> \notin torn => Opening(s) = FirstStock[register.at][s]

\* "Books a pending count's variance into stock, exactly once": what a count has
\* added to the ledger is its variance if it is approved and nothing before or
\* otherwise, also when approvals and rejections of it come at the same time.
BookedOnce ==
    \A r \in Counts :
        booked[r] = IF count[r].state = "approved" THEN Variance(r) ELSE 0

Approved(r) == count[r].state = "pending" /\ count'[r].state = "approved"

ApprovedAsCounted ==
    \A r \in Counts :
        Approved(r) /\ count[r].clean /\ count[r].at \notin torn
           => LET l == count[r].at[1]
                  s == count[r].at[2]
              IN  balance'[l][s] + Aside(count[r].at) = count[r].actual + count[r].moved

\* "Stock that moved between the count and its approval stays correct": when a
\* count is approved, the balance (with what is set aside on the van) becomes
\* what was counted plus what has really come and gone since.  It takes that
\* nothing was set aside on the van when it was counted, that nobody corrected
\* the same cell in between, and that no two calls changed it at once.
CountedThenMoved == [][ApprovedAsCounted]_vars
=============================================================================
