------------------------------- MODULE Billing -------------------------------
(***************************************************************************)
(* What a customer owes and pays for one order.  Payment links are paid at *)
(* the gateway, before or after the delivery; the driver collects at the   *)
(* door; the invoice is made after the delivery by an event handler, or    *)
(* later by the office; and the office records payments on it.  These are  *)
(* calls of different processes: each reads rows, some FOR UPDATE, and     *)
(* writes them when it commits.                                            *)
(*                                                                         *)
(* A cylinder costs 1, taxes are left out, and the order asks for one      *)
(* cylinder type.  Changes of the order itself come one at a time (module  *)
(* ConcurrentCalls is about their races).                                  *)
(***************************************************************************)
EXTENDS Integers, FiniteSets, FiniteSetsExt

CONSTANTS
    Calls,       \* bound: the most calls at a time
    MaxLinks,    \* bound: the payment links made for the order
    MaxQty,      \* bound: the cylinders ordered
    Fee,         \* the tenant's cancellation_fee_amount
    Closings,    \* bound: how a link that is not paid ends at the gateway
    MaxCrashes   \* bound: the worker processes that die

ASSUME BoundsAssumption ==
    /\ MaxLinks \in Nat /\ MaxQty \in Nat \ {0}
    /\ Fee \in Nat /\ MaxCrashes \in Nat
    /\ Closings \subseteq {"expired", "cancelled"}

Links == 1 .. MaxLinks   \* in the order they are made

VARIABLES
    order,       \* its status, quantities and cancellation charge
    collected,   \* proof_of_delivery.amount_collected
    invoice,     \* at most one: uq_invoice_order_id
    rows,        \* the invoice's payment rows made of each link
    link,        \* accounting.online_payment
    gateway,     \* each link as the gateway has it
    gst,         \* whether GST rates are configured
    call,        \* what each call has read and is to write
    crashes,
    missed       \* links that were paid while the invoice was being made

docs == <<order, collected, gst>>
money == <<invoice, rows, link>>
vars == <<docs, money, gateway, call, crashes, missed>>

Prepayable == {"confirmed", "out_for_delivery"}
LinkStatuses == {"none", "created", "paid", "expired", "cancelled"}
GatewayStatuses == {"none", "open", "paid", "expired", "cancelled"}
InvoiceStatuses == {"none", "issued", "partially_paid", "paid"}
Ops == {"idle", "ask", "settle", "save", "office", "deliver", "generate", "issue"}

Lesser(a, b) == IF a <= b THEN a ELSE b

NoLink == [status |-> "none", amount |-> 0, applied |-> FALSE]
NoInvoice == [status |-> "none", total |-> 0, paid |-> 0]

(* A call in memory: the link it has locked and what it read there, what   *)
(* the gateway told it, two amounts, and the links it has still to apply,  *)
(* has applied, and has read as paid.                                      *)
Idle ==
    [op |-> "idle", link |-> 0, copy |-> NoLink, told |-> "none", amount |-> 0,
     sum |-> 0, todo |-> {}, done |-> {}, saw |-> {}]

Becomes(c, job) == call' = [call EXCEPT ![c] = job]
Is(c, op) == call[c].op = op

-----------------------------------------------------------------------------
(* Amounts *)

Worth(S) == MapThenSumSet(LAMBDA l : link[l].amount, S)
Paid == {l \in Links : link[l].status = "paid"}
Unapplied == {l \in Paid : ~link[l].applied}

\* What the invoice is for: what was delivered, or the cancellation charge.
Bill == IF order.status = "cancelled" THEN order.charge ELSE order.delivered

Outstanding(i) ==
    IF i.status \in {"issued", "partially_paid"} THEN i.total - i.paid ELSE 0

\* _amount_due of a payment link; 0 where the code refuses.
Due ==
    IF invoice.status # "none"
    THEN Outstanding(invoice) - Worth(Unapplied)
    ELSE IF order.status \in Prepayable /\ gst
         THEN order.ordered - Worth(Paid) ELSE 0

\* is_reusable
Reusable(l, amount) ==
    /\ link[l].status = "created" /\ link[l].amount = amount
    /\ gateway[l] # "expired"

\* mark_paid and mark_closed
Settled(copy, told) ==
    IF told = "paid" \/ (told \in {"expired", "cancelled"} /\ copy.status = "created")
    THEN told ELSE copy.status

\* record_payment
Received(i, amount) ==
    [i EXCEPT !.paid = @ + amount,
              !.status = IF i.paid + amount = i.total THEN "paid" ELSE "partially_paid"]

-----------------------------------------------------------------------------
(* Rows read FOR UPDATE, or written, by a transaction that has not ended *)

\* Mutants: the rows are read without FOR UPDATE.
NeverHeld(l, c) == FALSE
NotHeld == FALSE

Held(l, c) ==
    \E d \in Calls \ {c} :
        \/ call[d].op \in {"settle", "save"} /\ call[d].link = l
        \/ call[d].op = "issue" /\ l \in call[d].done

InvoiceHeld == \E c \in Calls : Is(c, "office")

-----------------------------------------------------------------------------
(* The order *)

ConfigureGst ==
    /\ ~gst /\ gst' = TRUE
    /\ UNCHANGED <<order, collected, money, gateway, call, crashes, missed>>

Amend(q) ==
    /\ order.status = "confirmed" /\ q # order.ordered
    /\ order' = [order EXCEPT !.ordered = q]
    /\ UNCHANGED <<collected, gst, money, gateway, call, crashes, missed>>

Depart ==
    /\ order.status = "confirmed"
    /\ order' = [order EXCEPT !.status = "out_for_delivery"]
    /\ UNCHANGED <<collected, gst, money, gateway, call, crashes, missed>>

Delivering == \E c \in Calls : Is(c, "deliver")

\* A cancellation is charged after the dispatch only; the handler of
\* BookingCancelled then makes the invoice.
ApproveCancellation(c, charge) ==
    /\ Is(c, "idle") /\ ~Delivering
    /\ \/ order.status = "confirmed" /\ charge = 0
       \/ order.status = "out_for_delivery"
    /\ order' = [order EXCEPT !.status = "cancelled", !.charge = charge]
    /\ Becomes(c, IF charge > 0 THEN [Idle EXCEPT !.op = "generate"] ELSE Idle)
    /\ UNCHANGED <<collected, gst, money, gateway, crashes, missed>>

\* The driver reports q cylinders and what was collected.  What is recorded
\* is never more than what is still due at that moment; the rest goes on
\* the customer's account.
Deliver(c, q, amount) ==
    /\ Is(c, "idle") /\ order.status = "out_for_delivery" /\ ~Delivering
    /\ q <= order.ordered
    /\ amount = 0 \/ amount <= q - Worth(Paid)
    /\ Becomes(c, [Idle EXCEPT !.op = "deliver", !.amount = q, !.sum = amount])
    /\ UNCHANGED <<docs, money, gateway, crashes, missed>>

\* The invoice handler comes after others, and is lost if one of them raises.
DeliverCommits(c) ==
    /\ Is(c, "deliver")
    /\ order' = [order EXCEPT !.status = "delivered", !.delivered = call[c].amount]
    /\ collected' = call[c].sum
    /\ \/ Becomes(c, [Idle EXCEPT !.op = "generate"])
       \/ Becomes(c, Idle)
    /\ UNCHANGED <<gst, money, gateway, crashes, missed>>

-----------------------------------------------------------------------------
(* The invoice *)

\* The orders "on hold": they should have an invoice and have none.
Uninvoiced ==
    /\ invoice.status = "none" /\ Bill > 0
    /\ order.status \in {"delivered", "cancelled"}

Reissue(c) ==
    /\ Is(c, "idle") /\ Uninvoiced
    /\ Becomes(c, [Idle EXCEPT !.op = "generate"])
    /\ UNCHANGED <<docs, money, gateway, crashes, missed>>

\* Mutant: advances are left to the next refresh.
NoAdvances == {}

\* The advances a new invoice takes: none for a cancellation charge.
Advances == IF order.status = "delivered" THEN Unapplied ELSE {}

Generate(c) ==
    /\ Is(c, "generate")
    /\ IF Uninvoiced /\ gst
       THEN Becomes(c, [Idle EXCEPT !.op = "issue", !.todo = Advances, !.saw = Unapplied])
       ELSE Becomes(c, Idle)
    /\ UNCHANGED <<docs, money, gateway, crashes, missed>>

\* One advance after the other, the newest first, as long as something is
\* due.  Writing one waits for the call that has it locked.
TakeAdvance(c, l) ==
    LET part == Lesser(link[l].amount, Bill - call[c].sum)
    IN  /\ Is(c, "issue") /\ call[c].sum < Bill
        /\ l \in call[c].todo /\ \A m \in call[c].todo : l >= m
        /\ ~Held(l, c)
        /\ Becomes(c, [call[c] EXCEPT !.todo = @ \ {l}, !.done = @ \cup {l}, !.sum = @ + part])
        /\ UNCHANGED <<docs, money, gateway, crashes, missed>>

NothingLeftDue(c) ==
    /\ Is(c, "issue") /\ call[c].sum >= Bill /\ call[c].todo # {}
    /\ Becomes(c, [call[c] EXCEPT !.todo = {}])
    /\ UNCHANGED <<docs, money, gateway, crashes, missed>>

\* What the driver collected is recorded as far as it is still due.
AtTheDoor(left) == IF order.status = "delivered" THEN Lesser(collected, left) ELSE 0

NewInvoice(total, paid) ==
    [total |-> total, paid |-> paid,
     status |-> IF paid = 0 THEN "issued" ELSE IF paid = total THEN "paid" ELSE "partially_paid"]

\* A second invoice for the order is refused by the unique constraint, and
\* its advances are rolled back with it.
Issue(c) ==
    /\ Is(c, "issue") /\ call[c].todo = {}
    /\ IF invoice.status # "none"
       THEN UNCHANGED <<money, missed>>
       ELSE LET sum == call[c].sum
                done == call[c].done
            IN  /\ invoice' = NewInvoice(Bill, sum + AtTheDoor(Bill - sum))
                /\ rows' = [l \in Links |-> IF l \in done THEN rows[l] + 1 ELSE rows[l]]
                /\ link' = [l \in Links |->
                               IF l \in done THEN [link[l] EXCEPT !.applied = TRUE] ELSE link[l]]
                /\ missed' = missed \cup (Unapplied \ call[c].saw)
    /\ Becomes(c, Idle)
    /\ UNCHANGED <<docs, gateway, crashes>>

\* A payment the office enters: at most the balance, read with the lock.
RecordPayment(c, amount) ==
    /\ Is(c, "idle") /\ ~InvoiceHeld
    /\ amount <= Outstanding(invoice)
    /\ Becomes(c, [Idle EXCEPT !.op = "office", !.amount = amount, !.sum = invoice.paid])
    /\ UNCHANGED <<docs, money, gateway, crashes, missed>>

\* Payment rows are added, the invoice's status is written over.
PaymentRecorded(c) ==
    /\ Is(c, "office")
    /\ invoice' = [invoice EXCEPT
                     !.paid = @ + call[c].amount,
                     !.status = Received([invoice EXCEPT !.paid = call[c].sum],
                                         call[c].amount).status]
    /\ Becomes(c, Idle)
    /\ UNCHANGED <<docs, rows, link, gateway, crashes, missed>>

-----------------------------------------------------------------------------
(* Payment links *)

Used == {l \in Links : link[l].status # "none"}
Asking == {c \in Calls : Is(c, "ask")}

AskForLink(c, amount) ==
    /\ Is(c, "idle")
    /\ Cardinality(Used) + Cardinality(Asking) < MaxLinks
    /\ amount = Due
    /\ ~\E l \in Links : Reusable(l, amount)
    /\ Becomes(c, [Idle EXCEPT !.op = "ask", !.amount = amount])
    /\ UNCHANGED <<docs, money, gateway, crashes, missed>>

\* The URL is known to nobody before the commit.
AddLink(c) ==
    /\ Is(c, "ask")
    /\ \E l \in Links :
         /\ l \notin Used /\ \A k \in Links : k < l => k \in Used
         /\ link' = [link EXCEPT ![l] =
                       [status |-> "created", amount |-> call[c].amount, applied |-> FALSE]]
         /\ gateway' = [gateway EXCEPT ![l] = "open"]
    /\ Becomes(c, Idle)
    /\ UNCHANGED <<docs, invoice, rows, crashes, missed>>

GatewayFails(c) ==
    /\ Is(c, "ask") /\ Becomes(c, Idle)
    /\ UNCHANGED <<docs, money, gateway, crashes, missed>>

\* The customer pays, the link runs out, or somebody closes it there.
AtGateway(l, to) ==
    /\ gateway[l] = "open"
    /\ gateway' = [gateway EXCEPT ![l] = to]
    /\ UNCHANGED <<docs, money, call, crashes, missed>>

\* A webhook, of which there may be many, or a refresh.
HearOf(c, l) ==
    /\ Is(c, "idle") /\ link[l].status # "none" /\ ~Held(l, c)
    /\ Becomes(c, [Idle EXCEPT !.op = "settle", !.link = l, !.copy = link[l],
                               !.told = gateway[l]])
    /\ UNCHANGED <<docs, money, gateway, crashes, missed>>

\* What the call is to write to its link.
Written(c) ==
    [call[c].copy EXCEPT !.status = Settled(call[c].copy, call[c].told)]
Applicable(c) == Written(c).status = "paid" /\ ~call[c].copy.applied

NothingToApply(c) ==
    /\ Is(c, "settle") /\ ~Applicable(c)
    /\ link' = [link EXCEPT ![call[c].link] = Written(c)]
    /\ Becomes(c, Idle)
    /\ UNCHANGED <<docs, invoice, rows, gateway, crashes, missed>>

\* The payment is applied if the invoice still has something due.
ApplyToInvoice(c) ==
    LET l == call[c].link
        left == Outstanding(invoice)
    IN  /\ Is(c, "settle") /\ Applicable(c)
        /\ invoice.status # "none" /\ ~InvoiceHeld
        /\ IF left > 0
           THEN /\ invoice' = Received(invoice, Lesser(Written(c).amount, left))
                /\ rows' = [rows EXCEPT ![l] = @ + 1]
                /\ link' = [link EXCEPT ![l] = [Written(c) EXCEPT !.applied = TRUE]]
           ELSE link' = [link EXCEPT ![l] = Written(c)] /\ UNCHANGED <<invoice, rows>>
        /\ Becomes(c, Idle)
        /\ UNCHANGED <<docs, gateway, crashes, missed>>

\* Mutant: a payment for which there is no invoice is not written down.
DropPayment(c) ==
    /\ Is(c, "settle") /\ Applicable(c) /\ invoice.status = "none"
    /\ Becomes(c, Idle)
    /\ UNCHANGED <<docs, money, gateway, crashes, missed>>

NoInvoiceYet(c) ==
    /\ Is(c, "settle") /\ Applicable(c) /\ invoice.status = "none"
    /\ Becomes(c, [call[c] EXCEPT !.op = "save"])
    /\ UNCHANGED <<docs, money, gateway, crashes, missed>>

SavePaid(c) ==
    /\ Is(c, "save")
    /\ link' = [link EXCEPT ![call[c].link] = Written(c)]
    /\ missed' = IF invoice.status = "none" THEN missed ELSE missed \cup {call[c].link}
    /\ Becomes(c, Idle)
    /\ UNCHANGED <<docs, invoice, rows, gateway, crashes>>

-----------------------------------------------------------------------------
\* The process dies: the transaction is rolled back, its locks are released
\* and the handlers that were to come do not run.
Crash(c) ==
    /\ ~Is(c, "idle") /\ crashes < MaxCrashes
    /\ crashes' = crashes + 1
    /\ Becomes(c, Idle)
    /\ UNCHANGED <<docs, money, gateway, missed>>

Init ==
    /\ order = [status |-> "confirmed", ordered |-> MaxQty, delivered |-> 0, charge |-> 0]
    /\ collected = 0 /\ gst = FALSE
    /\ invoice = NoInvoice
    /\ rows = [l \in Links |-> 0]
    /\ link = [l \in Links |-> NoLink]
    /\ gateway = [l \in Links |-> "none"]
    /\ call = [c \in Calls |-> Idle]
    /\ crashes = 0 /\ missed = {}

\* What a worker goes on with once a call has begun
Continue(c) ==
    \/ DeliverCommits(c) \/ Generate(c) \/ NothingLeftDue(c) \/ Issue(c)
    \/ \E l \in Links : TakeAdvance(c, l)
    \/ PaymentRecorded(c) \/ AddLink(c) \/ GatewayFails(c)
    \/ NothingToApply(c) \/ ApplyToInvoice(c) \/ NoInvoiceYet(c) \/ SavePaid(c)

Begin(c) ==
    \/ \E charge \in {0, Fee} : ApproveCancellation(c, charge)
    \/ \E q, amount \in 0 .. MaxQty : Deliver(c, q, amount)
    \/ Reissue(c)
    \/ \E amount \in 1 .. MaxQty + Fee : RecordPayment(c, amount) \/ AskForLink(c, amount)
    \/ \E l \in Links : HearOf(c, l)

Next ==
    \/ ConfigureGst \/ Depart \/ \E q \in 1 .. MaxQty : Amend(q)
    \/ \E l \in Links, to \in {"paid"} \cup Closings : AtGateway(l, to)
    \/ \E c \in Calls : Begin(c) \/ Continue(c) \/ Crash(c)

\* Workers go on with their calls, and the gateway repeats the webhook of a
\* payment until it is recorded.
Notify(l) ==
    /\ gateway[l] = "paid" /\ link[l].status # "paid"
    /\ \E c \in Calls : HearOf(c, l)

Fairness ==
    /\ \A c \in Calls : WF_vars(Continue(c))
    /\ \A l \in Links : SF_vars(Notify(l))

Spec == Init /\ [][Next]_vars /\ Fairness

-----------------------------------------------------------------------------
(* Properties *)

OrderTypes ==
    [status : {"confirmed", "out_for_delivery", "delivered", "cancelled"},
     ordered : 1 .. MaxQty, delivered : 0 .. MaxQty, charge : {0, Fee}]
InvoiceTypes == [status : InvoiceStatuses, total : Nat, paid : Nat]
LinkTypes == [status : LinkStatuses, amount : Nat, applied : BOOLEAN]
CallTypes ==
    [op : Ops, link : {0} \cup Links, copy : LinkTypes, told : GatewayStatuses,
     amount : Nat, sum : Nat, todo : SUBSET Links, done : SUBSET Links, saw : SUBSET Links]

\* Every variable has its type.
TypeOK ==
    /\ order \in OrderTypes /\ collected \in Nat /\ gst \in BOOLEAN
    /\ invoice \in InvoiceTypes
    /\ rows \in [Links -> Nat]
    /\ link \in [Links -> LinkTypes]
    /\ gateway \in [Links -> GatewayStatuses]
    /\ call \in [Calls -> CallTypes]
    /\ crashes \in 0 .. MaxCrashes /\ missed \subseteq Links

\* Whoever pays when (advances, the driver's cash, the office's payments and
\* links paid late, at the same time), an invoice never has more payments
\* than its total, and it says "paid" exactly if they add up to it.
NeverOverpaid ==
    invoice.status # "none" =>
        /\ invoice.paid <= invoice.total
        /\ invoice.status = "paid" <=> invoice.paid = invoice.total

\* However often a payment is reported and from wherever it is applied
\* (webhook, refresh, invoice generation by handler or office), a link is
\* marked as applied if and only if the invoice has one payment made of it.
AppliedIsRecorded ==
    \A l \in Links : rows[l] = IF link[l].applied THEN 1 ELSE 0

\* Once paid, a link is applied to the order's invoice, immediately or when
\* the invoice is made, as far as the invoice has something due: unless the
\* report of the payment and the making of the invoice overlapped, which
\* only another refresh repairs.
AdvanceLands ==
    (invoice.status # "none" /\ order.status = "delivered" /\ Outstanding(invoice) > 0)
        => Unapplied \subseteq missed

\* What is paid at the gateway is recorded in the end, although workers die
\* and calls wait for each other's rows.
PaidArrives ==
    \A l \in Links : (gateway[l] = "paid") ~> (link[l].status = "paid")

\* Repeated taps never produce two payable links: of two links that can be
\* paid, the amounts differ.
OneLinkToPay ==
    \A k, l \in Links :
        (gateway[k] = "open" /\ gateway[l] = "open" /\ link[k].amount = link[l].amount)
            => k = l
=============================================================================
