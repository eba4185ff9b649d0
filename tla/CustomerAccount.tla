---------------------------- MODULE CustomerAccount ----------------------------
(***************************************************************************)
(* What one customer holds and owes, and the two limits that look at it:   *)
(* a booking may not take him over the cylinder holding cap (BR-04), and a *)
(* balance put on his account not over his credit limit (BR-19).           *)
(*                                                                         *)
(* Both look at projections.  A delivery commits first; then its event is  *)
(* handed to the handlers, one after the other and in transactions of      *)
(* their own: first the cylinder ledger, then the invoice.  A handler that *)
(* raises ends the row, and a process that dies takes its events with it.  *)
(* Meanwhile other calls check the limits.                                 *)
(*                                                                         *)
(* An order has one line; a cylinder costs 1; taxes, payments made in      *)
(* advance and cancellation charges are left out (module Billing has the   *)
(* first two).  The bookings are those of one branch, and calls on the     *)
(* same order come one at a time (ConcurrentCalls is about those races).   *)
(***************************************************************************)
EXTENDS Integers, FiniteSets, Functions

CONSTANTS
    Orders, Types,
    Ledgers,      \* the rows there may be of cylinder_ledger
    Calls,        \* bound: the most calls at a time
    Quantities,   \* bound: how many cylinders are ordered, delivered, taken back
    Deltas,       \* bound: what a correction adds
    Cap,          \* cylinder_holding_cap for this kind of customer
    CreditLimit,  \* credit_limit_default for this kind of customer
    MaxAdjusts,   \* bound: the corrections made by staff
    MaxCrashes,   \* bound: the worker processes that die
    NoOrder, NoLedger

ASSUME FiniteAssumption ==
    IsFiniteSet(Orders) /\ IsFiniteSet(Types) /\ IsFiniteSet(Ledgers) /\ IsFiniteSet(Calls)

ASSUME NamesAssumption == NoOrder \notin Orders /\ NoLedger \notin Ledgers

\* A call that finds no ledger makes one of its own.
ASSUME LedgersAssumption == Cardinality(Calls) <= Cardinality(Ledgers)

ASSUME BoundsAssumption ==
    /\ Quantities \subseteq Nat /\ Deltas \subseteq Int \ {0} /\ Cap \in Nat /\ CreditLimit \in Nat
    /\ MaxAdjusts \in Nat /\ MaxCrashes \in Nat

VARIABLES
    order,    \* status and line of each order, and what is unpaid of it
    ledger,   \* balance rows of each ledger, and what its transactions add up to
    call,     \* what each call has read and is about to write
    posted,   \* how often each delivery was written to a ledger
    lost,     \* deliveries whose handlers were cut short
    adjusts,
    crashes

counters == <<adjusts, crashes>>
ghosts == <<posted, lost>>
vars == <<order, ledger, call, ghosts, counters>>

\* _CUSTOMER_OPEN_STATUSES; "confirmed" stands for every status from there to
\* the departure.
Open == {"booked", "confirmed", "out_for_delivery", "failed_delivery"}
Statuses == Open \cup {"draft", "delivered", "cancelled"}

NoLine(t) == [status |-> "draft", type |-> t, asked |-> 0, got |-> 0, back |-> 0,
              owed |-> 0, billed |-> FALSE]

NoRows == [made |-> FALSE, balance |-> [t \in Types |-> 0], net |-> [t \in Types |-> 0]]

\* blind: what the call has checked was not, or is no longer, all there is.
Idle == [op |-> "idle", job |-> "none", order |-> NoOrder, line |-> <<>>,
         ledger |-> NoLedger, held |-> [t \in Types |-> 0], delta |-> 0, blind |-> FALSE]

Is(c, op) == call[c].op = op
Becomes(c, state) == call' = [call EXCEPT ![c] = state]

\* c goes on, and what the calls at ops have checked is no longer all there is.
BecomesSeen(c, state, ops) ==
    call' = [d \in Calls |-> IF d = c THEN state
                             ELSE [call[d] EXCEPT !.blind = @ \/ call[d].op \in ops]]

Free(o) == \A c \in Calls : call[c].order # o

-----------------------------------------------------------------------------
(* The customer's cylinders *)

Larger(a, b) == IF a >= b THEN a ELSE b

Awaited(t) ==
    [p \in Orders |-> IF order[p].status \in Open /\ order[p].type = t
                      THEN order[p].asked - order[p].got ELSE 0]

\* OpenOrderReader.open_quantities, without order o
Coming(t, o) == SumFunctionOnSet(Awaited(t), Orders \ {o})

\* projected_cylinder_holding: a refill is an exchange, so of each type the
\* customer will hold the larger of what he holds and what is coming to him.
Projected(held, line, o) ==
    SumFunctionOnSet(
        [t \in Types |-> Larger(Larger(held[t], 0),
                                Coming(t, o) + (IF line.type = t THEN line.asked ELSE 0))],
        Types)

\* What the customer holds by everything ever written to his ledgers
Holding ==
    [t \in Types |-> SumFunctionOnSet([k \in Ledgers |-> ledger[k].net[t]], Ledgers)]

\* What he will have once all that he awaits has come
WillHave ==
    SumFunctionOnSet([t \in Types |-> Larger(Holding[t], Coming(t, NoOrder))], Types)

Made == {k \in Ledgers : ledger[k].made}

\* get_by_customer_id: the first ledger found, or a new one
LedgerFor(c) ==
    IF Made # {} THEN Made
    ELSE {k \in Ledgers : \A d \in Calls \ {c} : call[d].ledger # k}

BalancesOf(k) == ledger[k].balance

Delivered == {o \in Orders : order[o].status = "delivered"}

\* A delivery that moved nothing leaves no rows.
Moved(o) == order[o].got + order[o].back > 0

\* Some cylinders that were delivered are on no ledger, or on one of several.
Incomplete ==
    \/ \E o \in Delivered : Moved(o) /\ posted[o] = 0
    \/ Cardinality(Made) > 1

-----------------------------------------------------------------------------
(* The customer's debts *)

Owed == SumFunctionOnSet([o \in Orders |-> order[o].owed], Orders)

\* get_outstanding_balance: of invoices, not of deliveries
Outstanding ==
    SumFunctionOnSet([o \in Orders |-> IF order[o].billed THEN order[o].owed ELSE 0], Orders)

\* Mutant: what this booking adds is not counted.
WithinCreditSoFar(amount) == Outstanding <= CreditLimit

WithinCredit(amount) == Outstanding + amount <= CreditLimit

Unbilled == {o \in Delivered : order[o].owed > 0 /\ ~order[o].billed}

-----------------------------------------------------------------------------
(* Booking, amending and confirming *)

Checking == {c \in Calls : call[c].op \in {"check", "save"}}

\* Mutant: bookings do not wait for each other.
NobodyBooks == TRUE

BranchIsFree == Checking = {}

\* The branch's booking lock is taken; then the ledger is read.
StartCheck(c, job, o, line) ==
    /\ Is(c, "idle") /\ Free(o) /\ BranchIsFree
    /\ \E k \in LedgerFor(c) :
         Becomes(c, [Idle EXCEPT !.op = "check", !.job = job, !.order = o, !.line = line,
                                 !.held = BalancesOf(k), !.blind = Incomplete])
    /\ UNCHANGED <<order, ledger, ghosts, counters>>

CreateOrder(c, o, t, q) ==
    /\ order[o].status = "draft"
    /\ StartCheck(c, "book", o, [type |-> t, asked |-> q])

\* A booking in the WhatsApp chat: no cap policy is given to the use case.
PlaceOrder(c, o, t, q) ==
    /\ order[o].status = "draft"
    /\ StartCheck(c, "chat", o, [type |-> t, asked |-> q])

AmendOrder(c, o, t, q) ==
    /\ order[o].status \in {"booked", "confirmed"}
    /\ StartCheck(c, "amend", o, [type |-> t, asked |-> q])

ConfirmOrder(c, o) ==
    /\ order[o].status \in {"booked", "failed_delivery"}
    /\ StartCheck(c, "confirm", o, [type |-> order[o].type, asked |-> order[o].asked])

NeedsCredit(c) ==
    \/ call[c].job = "confirm"
    \/ call[c].job = "amend" /\ order[call[c].order].status = "confirmed"

Passes(c) ==
    /\ call[c].job # "chat" => Projected(call[c].held, call[c].line, call[c].order) <= Cap
    /\ NeedsCredit(c) => WithinCredit(call[c].line.asked)

\* The open orders are read, and for a confirmation the unpaid invoices.
CheckLimits(c) ==
    /\ Is(c, "check")
    /\ IF Passes(c) THEN Becomes(c, [call[c] EXCEPT !.op = "save"])
                    ELSE Becomes(c, Idle)
    /\ UNCHANGED <<order, ledger, ghosts, counters>>

StatusSaved(c) ==
    CASE call[c].job \in {"book", "chat"} -> "booked"
      [] call[c].job = "confirm" -> "confirmed"
      [] OTHER -> order[call[c].order].status

SaveOrder(c) ==
    LET o == call[c].order
    IN  /\ Is(c, "save")
        /\ order' = [order EXCEPT ![o].status = StatusSaved(c),
                                  ![o].type = call[c].line.type,
                                  ![o].asked = call[c].line.asked]
        /\ Becomes(c, Idle)
        /\ UNCHANGED <<ledger, ghosts, counters>>

-----------------------------------------------------------------------------
(* On the road *)

Moves(o, from, to) ==
    /\ order[o].status \in from /\ Free(o)
    /\ order' = [order EXCEPT ![o].status = to]
    /\ UNCHANGED <<ledger, call, ghosts, counters>>

Depart(o) == Moves(o, {"confirmed"}, "out_for_delivery")
FailDelivery(o) == Moves(o, {"out_for_delivery"}, "failed_delivery")
RescheduleOrder(o) == Moves(o, {"failed_delivery"}, "confirmed")

\* Not after a failed delivery: the failed stop cannot be cancelled.
CancelOrder(o) == Moves(o, Open \ {"failed_delivery"}, "cancelled")

\* At the door: got cylinders are handed over, back empties taken, paid money
\* collected.  The rest is put on account, if the limit allows.
DeliverOrder(c, o, got, back, paid) ==
    LET rest == got - paid
    IN  /\ Is(c, "idle") /\ Free(o)
        /\ order[o].status = "out_for_delivery"
        /\ got <= order[o].asked /\ paid <= got
        /\ rest > 0 => WithinCredit(rest)
        /\ Becomes(c, [Idle EXCEPT !.op = "deliver", !.job = "deliver", !.order = o,
                                   !.line = [got |-> got, back |-> back, owed |-> rest],
                                   !.blind = Unbilled # {}])
        /\ UNCHANGED <<order, ledger, ghosts, counters>>

\* The commit, which also dispatches CylinderDelivered
SaveDelivery(c) ==
    LET o == call[c].order
        line == call[c].line
    IN  /\ Is(c, "deliver")
        /\ order' = [order EXCEPT ![o].status = "delivered", ![o].got = line.got,
                                  ![o].back = line.back, ![o].owed = line.owed]
        /\ BecomesSeen(c, [call[c] EXCEPT !.op = "ledger"], {"check", "save", "deliver"})
        /\ UNCHANGED <<ledger, ghosts, counters>>

-----------------------------------------------------------------------------
(* The ledger: the handler's transaction, and a correction by staff *)

TypeOf(c) == IF call[c].job = "deliver" THEN order[call[c].order].type ELSE call[c].line.type

\* The rows it adds: a delivery, then a collection; or an adjustment.
Delta(c) ==
    IF call[c].job = "deliver" THEN call[c].line.got - call[c].line.back ELSE call[c].line.delta

AdjustLedgerBalance(c, t, delta) ==
    /\ Is(c, "idle") /\ adjusts < MaxAdjusts
    /\ adjusts' = adjusts + 1
    /\ Becomes(c, [Idle EXCEPT !.op = "ledger", !.job = "adjust",
                               !.line = [type |-> t, delta |-> delta]])
    /\ UNCHANGED <<order, ledger, ghosts, crashes>>

NothingToPost(c) ==
    /\ Is(c, "ledger") /\ call[c].job = "deliver" /\ ~Moved(call[c].order)
    /\ Becomes(c, [call[c] EXCEPT !.op = "invoice"])
    /\ UNCHANGED <<order, ledger, ghosts, counters>>

\* The ledger is read and the rows are made in memory, where the balance may
\* not go below zero.
ReadLedger(c, k) ==
    /\ Is(c, "ledger") /\ k \in LedgerFor(c)
    /\ call[c].job = "deliver" => Moved(call[c].order)
    /\ BalancesOf(k)[TypeOf(c)] + Delta(c) >= 0
    /\ Becomes(c, [call[c] EXCEPT !.op = "rows", !.ledger = k, !.held = BalancesOf(k)])
    /\ UNCHANGED <<order, ledger, ghosts, counters>>

\* NegativeBalanceError: the handler raises, and those after it do not run.
Raise(c, k) ==
    /\ Is(c, "ledger") /\ k \in LedgerFor(c)
    /\ call[c].job = "deliver" => Moved(call[c].order)
    /\ BalancesOf(k)[TypeOf(c)] + Delta(c) < 0
    /\ lost' = IF call[c].job = "deliver" THEN lost \cup {call[c].order} ELSE lost
    /\ Becomes(c, Idle)
    /\ UNCHANGED <<order, ledger, posted, counters>>

\* Mutant: the balance written is the one in memory.
BaseInMemory(c) == call[c].held[TypeOf(c)]

\* The balance row is read again, and the change added to it.
Base(c) == BalancesOf(call[c].ledger)[TypeOf(c)]

\* The ledger row is written first, and so locked until the commit.
LedgerIsFree(c) == \A d \in Calls \ {c} : ~(Is(d, "post") /\ call[d].ledger = call[c].ledger)

AddRows(c) ==
    /\ Is(c, "rows") /\ LedgerIsFree(c)
    /\ Becomes(c, [call[c] EXCEPT !.op = "post", !.delta = Base(c) + Delta(c)])
    /\ UNCHANGED <<order, ledger, ghosts, counters>>

\* Mutant: the handler is registered for the route's OrderDelivered as well.
TwiceRegistered(c) ==
    IF call[c].job # "deliver" THEN Idle
    ELSE [call[c] EXCEPT !.op = IF posted[call[c].order] = 0 THEN "ledger" ELSE "invoice",
                         !.ledger = NoLedger]

\* Dispatch goes on to the next handler.
Afterwards(c) ==
    IF call[c].job = "deliver" THEN [call[c] EXCEPT !.op = "invoice", !.ledger = NoLedger]
    ELSE Idle

Post(c) ==
    LET k == call[c].ledger
        t == TypeOf(c)
    IN  /\ Is(c, "post")
        /\ ledger' = [ledger EXCEPT ![k].made = TRUE, ![k].balance[t] = call[c].delta,
                                    ![k].net[t] = @ + Delta(c)]
        /\ posted' = IF call[c].job = "deliver"
                     THEN [posted EXCEPT ![call[c].order] = @ + 1] ELSE posted
        /\ BecomesSeen(c, Afterwards(c), {"check", "save"})
        /\ UNCHANGED <<order, lost, counters>>

-----------------------------------------------------------------------------
(* The invoice *)

Billable(o) == order[o].status = "delivered" /\ order[o].got > 0 /\ ~order[o].billed

Billed(o) == order' = [order EXCEPT ![o].billed = TRUE]

GenerateInvoice(c) ==
    LET o == call[c].order
    IN  /\ Is(c, "invoice")
        /\ IF Billable(o) THEN Billed(o) ELSE UNCHANGED order
        /\ Becomes(c, Idle)
        /\ UNCHANGED <<ledger, ghosts, counters>>

\* The office issues an invoice that is on hold.
Reissue(o) ==
    /\ Billable(o) /\ Billed(o)
    /\ UNCHANGED <<ledger, call, ghosts, counters>>

RecordPayment(o, amount) ==
    /\ order[o].billed /\ amount <= order[o].owed
    /\ order' = [order EXCEPT ![o].owed = @ - amount]
    /\ UNCHANGED <<ledger, call, ghosts, counters>>

-----------------------------------------------------------------------------
\* The process dies; its events die with it.
Crash(c) ==
    /\ ~Is(c, "idle") /\ crashes < MaxCrashes
    /\ crashes' = crashes + 1
    /\ lost' = IF call[c].job = "deliver" /\ call[c].op \in {"ledger", "rows", "post"}
               THEN lost \cup {call[c].order} ELSE lost
    /\ Becomes(c, Idle)
    /\ UNCHANGED <<order, ledger, posted, adjusts>>

Init ==
    /\ order \in [Orders -> {NoLine(t) : t \in Types}]
    /\ \A o, p \in Orders : order[o] = order[p]
    /\ ledger = [k \in Ledgers |-> NoRows]
    /\ call = [c \in Calls |-> Idle]
    /\ posted = [o \in Orders |-> 0]
    /\ lost = {}
    /\ adjusts = 0 /\ crashes = 0

Positive == Quantities \ {0}

AtTheOffice(c) ==
    \/ \E o \in Orders, t \in Types, q \in Positive : 
          CreateOrder(c, o, t, q) \/ PlaceOrder(c, o, t, q) \/ AmendOrder(c, o, t, q)
    \/ \E o \in Orders : ConfirmOrder(c, o)
    \/ \E t \in Types, delta \in Deltas : AdjustLedgerBalance(c, t, delta)

Goes(c) ==
    \/ CheckLimits(c) \/ SaveOrder(c) \/ SaveDelivery(c) \/ NothingToPost(c)
    \/ \E k \in Ledgers : ReadLedger(c, k) \/ Raise(c, k)
    \/ AddRows(c) \/ Post(c) \/ GenerateInvoice(c) \/ Crash(c)

Next ==
    \/ \E c \in Calls : AtTheOffice(c) \/ Goes(c)
    \/ \E c \in Calls, o \in Orders, got, back, paid \in Quantities :
          DeliverOrder(c, o, got, back, paid)
    \/ \E o \in Orders : Depart(o) \/ FailDelivery(o) \/ RescheduleOrder(o) \/ CancelOrder(o)
    \/ \E o \in Orders : Reissue(o) \/ \E q \in Positive : RecordPayment(o, q)

Spec == Init /\ [][Next]_vars
-----------------------------------------------------------------------------
(* Properties *)

OrderRows == [status : Statuses, type : Types, asked : Nat, got : Nat, back : Nat,
              owed : Nat, billed : BOOLEAN]

LedgerRows == [made : BOOLEAN, balance : [Types -> Int], net : [Types -> Int]]

\* What a call works on, by its job: a booking, a delivery, a correction
Bookings == [type : Types, asked : Nat]
Handovers == [got : Nat, back : Nat, owed : Nat]
Corrections == [type : Types, delta : Int]
Lines == Bookings \cup Handovers \cup Corrections \cup {<<>>}

CallStates ==
    [op : {"idle", "check", "save", "deliver", "ledger", "rows", "post", "invoice"},
     job : {"none", "book", "chat", "amend", "confirm", "deliver", "adjust"},
     order : Orders \cup {NoOrder}, line : Lines, ledger : Ledgers \cup {NoLedger},
     held : [Types -> Int], delta : Int, blind : BOOLEAN]

\* Type invariant: the calls at every stage, and balances that are integers.
TypeOK ==
    /\ order \in [Orders -> OrderRows]
    /\ ledger \in [Ledgers -> LedgerRows]
    /\ call \in [Calls -> CallStates]
    /\ posted \in [Orders -> Nat] /\ lost \subseteq Orders
    /\ adjusts \in Nat /\ crashes \in Nat

\* What the ledger shows is the sum of its append-only rows: the balance stays
\* in lockstep, whatever other calls commit between a call's check of the
\* balance in memory and its write.
LedgerInLockstep ==
    \A k \in Ledgers, t \in Types : ledger[k].balance[t] = ledger[k].net[t]

Posting(o) == \E c \in Calls : call[c].order = o /\ call[c].op \in {"ledger", "rows", "post"}

\* A delivery reaches the ledger once: not twice although it emits two events,
\* not never although nothing asks for it again, unless its handler raised or
\* its process died.
OnLedgerOnce ==
    \A o \in Orders :
        posted[o] = IF o \in Delivered \ lost /\ Moved(o) /\ ~Posting(o) THEN 1 ELSE 0

Saves(c) == Is(c, "save") /\ call[c].job # "chat" /\ call'[c].op = "idle" /\ order' # order

BookingsWithinCap == \A c \in Calls : Saves(c) /\ ~call[c].blind => WillHave' <= Cap

\* BR-04: a booking, an amendment or a confirmation is saved only if the
\* customer will then hold no more than the cap, counting what he holds and all
\* that is coming to him; bookings made at the same time included.  Unless,
\* since it began, the ledger was not up to date with the deliveries.
BookedWithinCap == [][BookingsWithinCap]_vars

DeliveriesWithinLimit ==
    \A c \in Calls : Is(c, "deliver") /\ call'[c].op = "ledger" /\ ~call[c].blind
                        => call[c].line.owed = 0 \/ Owed' <= CreditLimit

\* BR-19: a balance goes on account only if all that the customer then owes is
\* within his limit, as long as every earlier delivery had its invoice.
OnAccountWithinLimit == [][DeliveriesWithinLimit]_vars
=============================================================================
