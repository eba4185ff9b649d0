---------------------------- MODULE BillingProofs ----------------------------
(***************************************************************************)
(* That an invoice is never overpaid, that a payment link is applied once, *)
(* and that what was paid in advance lands on the invoice, for any number  *)
(* of calls, links, cylinders and crashes.                                 *)
(*                                                                         *)
(* The rows that calls lock are what makes it work: what a call has read   *)
(* of a locked row is still there when it writes.  The invariant says so   *)
(* for the links (CopyIsRow), the invoice (OfficeFits) and, where there is *)
(* no row to lock, for the order (DeliverFits, IssueFits).                 *)
(***************************************************************************)
EXTENDS Billing, TLAPS

Settling(c) == call[c].op \in {"settle", "save"}

\* A call that has locked a link knows what is in its row.
CopyIsRow ==
    \A c \in Calls : Settling(c) =>
        /\ call[c].link \in Links
        /\ link[call[c].link].status # "none"
        /\ call[c].copy = link[call[c].link]

\* No two calls have one link locked.
HeldByOne ==
    \A c, d \in Calls : c # d =>
        /\ Settling(c) /\ Settling(d) => call[c].link # call[d].link
        /\ Settling(c) /\ Is(d, "issue") => call[c].link \notin call[d].done

\* The links an invoice is to take have been made, and an applied one too.
TakenAreMade ==
    \A c \in Calls : Is(c, "issue") =>
        \A l \in call[c].todo \cup call[c].done : link[l].status # "none"
AppliedIsMade == \A l \in Links : link[l].applied => link[l].status # "none"

AppliedNeedsInvoice == invoice.status = "none" => \A l \in Links : ~link[l].applied

\* An invoice is for something, and "paid" when its payments reach that.
InvoiceFits ==
    invoice.status # "none" =>
        /\ invoice.total > 0 /\ invoice.paid <= invoice.total
        /\ invoice.status = "paid" <=> invoice.paid = invoice.total

\* The office holds the invoice, and what it read of it is current.
OfficeFits ==
    \A c \in Calls : Is(c, "office") =>
        /\ invoice.status \in {"issued", "partially_paid"}
        /\ call[c].sum = invoice.paid
        /\ call[c].amount > 0 /\ call[c].amount <= invoice.total - invoice.paid
        /\ \A d \in Calls : Is(d, "office") => d = c

\* One delivery is under way, of an order that is out for it.
DeliverFits ==
    \A c \in Calls : Is(c, "deliver") =>
        /\ order.status = "out_for_delivery"
        /\ call[c].amount \in 0 .. MaxQty
        /\ \A d \in Calls : Is(d, "deliver") => d = c

Over == order.status \in {"delivered", "cancelled"}

\* Whoever makes the invoice does so of an order that is over, and has not
\* taken more advances than it costs; where it has taken less it has left none
\* out that it saw.
IssueFits ==
    \A c \in Calls : Is(c, "issue") =>
        /\ Over /\ Bill > 0 /\ call[c].sum <= Bill
        /\ order.status = "delivered" /\ call[c].sum < Bill =>
              call[c].saw \subseteq call[c].todo \cup call[c].done

InvoiceNeedsOrder == invoice.status # "none" => Over

RowsInv == CopyIsRow /\ HeldByOne /\ TakenAreMade
OrderInv == DeliverFits /\ IssueFits /\ InvoiceNeedsOrder
InvoiceInv == InvoiceFits /\ OfficeFits
LinksInv == AppliedNeedsInvoice /\ AppliedIsMade /\ AppliedIsRecorded

IInv == TypeOK /\ RowsInv /\ OrderInv /\ InvoiceInv /\ LinksInv /\ AdvanceLands

-----------------------------------------------------------------------------
\* A call at rest, and a link that is not made, have their types.
LEMMA RestTyped == NoLink \in LinkTypes /\ Idle \in CallTypes
BY DEF NoLink, Idle, LinkTypes, CallTypes, LinkStatuses, GatewayStatuses, Ops

\* The calls keep their type when one of them takes up another job.
LEMMA JobTyped ==
    ASSUME TypeOK, NEW c \in Calls, NEW job \in CallTypes, Becomes(c, job)
    PROVE  call' \in [Calls -> CallTypes]
BY DEF TypeOK, Becomes

\* A call at work has a record of its own, and so has each link.
LEMMA JobIsTyped == ASSUME TypeOK, NEW c \in Calls PROVE call[c] \in CallTypes
BY DEF TypeOK

\* What a settlement writes to its link is a link row.
LEMMA WrittenTyped == ASSUME TypeOK, NEW c \in Calls PROVE Written(c) \in LinkTypes
<1>1. call[c] \in CallTypes BY JobIsTyped
<1>2. call[c].copy \in LinkTypes BY <1>1 DEF CallTypes
<1>3. Settled(call[c].copy, call[c].told) \in LinkStatuses
      BY <1>2 DEF Settled, LinkTypes, LinkStatuses
<1> QED BY <1>2, <1>3 DEF Written, LinkTypes

\* A payment leaves the invoice an invoice.
LEMMA InvoiceChanged ==
    ASSUME NEW i \in InvoiceTypes, NEW n \in Nat, NEW s \in InvoiceStatuses
    PROVE  [i EXCEPT !.paid = @ + n, !.status = s] \in InvoiceTypes
<1>1. i.paid + n \in Nat BY DEF InvoiceTypes
<1> QED BY <1>1 DEF InvoiceTypes

LEMMA ReceivedTyped ==
    ASSUME NEW i \in InvoiceTypes, NEW n \in Nat PROVE Received(i, n) \in InvoiceTypes
<1>1. (IF i.paid + n = i.total THEN "paid" ELSE "partially_paid") \in InvoiceStatuses
      BY DEF InvoiceStatuses
<1> QED BY <1>1, InvoiceChanged DEF Received

\* A step leaves every variable with its type.
LEMMA TypeStep == ASSUME IInv, [Next]_vars PROVE TypeOK'
<1>a. TypeOK BY DEF IInv
<1>1. CASE UNCHANGED vars
      BY <1>1, <1>a DEF TypeOK, vars, docs, money
<1>2. CASE ConfigureGst
      BY <1>2, <1>a DEF ConfigureGst, TypeOK, money
<1>3. CASE Depart
      BY <1>3, <1>a DEF Depart, TypeOK, OrderTypes, money
<1>4. ASSUME NEW q \in 1 .. MaxQty, Amend(q) PROVE TypeOK'
      BY <1>4, <1>a DEF Amend, TypeOK, OrderTypes, money
<1>5. ASSUME NEW l \in Links, NEW to \in {"paid"} \cup Closings, AtGateway(l, to)
      PROVE TypeOK'
      BY <1>5, <1>a, BoundsAssumption DEF AtGateway, TypeOK, GatewayStatuses, docs, money
<1>6. ASSUME NEW c \in Calls, NEW charge \in {0, Fee}, ApproveCancellation(c, charge)
      PROVE TypeOK'
      <2>1. [Idle EXCEPT !.op = "generate"] \in CallTypes
            BY RestTyped DEF CallTypes, Ops
      <2> QED BY <1>a, <1>6, <2>1, RestTyped, JobTyped DEF ApproveCancellation, TypeOK, OrderTypes, money
<1>7. ASSUME NEW c \in Calls, NEW q \in 0 .. MaxQty, NEW amount \in 0 .. MaxQty, Deliver(c, q, amount)
      PROVE TypeOK'
      <2>0. q \in Nat /\ amount \in Nat BY BoundsAssumption
      <2>1. [Idle EXCEPT !.op = "deliver", !.amount = q, !.sum = amount] \in CallTypes
            BY RestTyped, JobIsTyped, <1>a, <2>0 DEF CallTypes, Ops
      <2> QED BY <1>a, <1>7, <2>1, JobTyped DEF Deliver, TypeOK, docs, money
<1>8. ASSUME NEW c \in Calls, Reissue(c) PROVE TypeOK'
      <2>1. [Idle EXCEPT !.op = "generate"] \in CallTypes
            BY RestTyped, JobIsTyped, <1>a DEF CallTypes, Ops
      <2> QED BY <1>a, <1>8, <2>1, JobTyped DEF Reissue, TypeOK, docs, money
<1>9. ASSUME NEW c \in Calls, NEW amount \in 1 .. MaxQty + Fee, RecordPayment(c, amount)
      PROVE TypeOK'
      <2>0. amount \in Nat BY BoundsAssumption
      <2>1. [Idle EXCEPT !.op = "office", !.amount = amount, !.sum = invoice.paid] \in CallTypes
            BY RestTyped, JobIsTyped, <1>a, <2>0 DEF CallTypes, Ops, TypeOK, InvoiceTypes
      <2> QED BY <1>a, <1>9, <2>1, JobTyped DEF RecordPayment, TypeOK, docs, money
<1>10. ASSUME NEW c \in Calls, NEW amount \in 1 .. MaxQty + Fee, AskForLink(c, amount)
      PROVE TypeOK'
      <2>0. amount \in Nat BY BoundsAssumption
      <2>1. [Idle EXCEPT !.op = "ask", !.amount = amount] \in CallTypes
            BY RestTyped, JobIsTyped, <1>a, <2>0 DEF CallTypes, Ops
      <2> QED BY <1>a, <1>10, <2>1, JobTyped DEF AskForLink, TypeOK, docs, money
<1>11. ASSUME NEW c \in Calls, NEW l \in Links, HearOf(c, l) PROVE TypeOK'
      <2>1. [Idle EXCEPT !.op = "settle", !.link = l, !.copy = link[l],
                         !.told = gateway[l]] \in CallTypes
            BY RestTyped, JobIsTyped, <1>a DEF CallTypes, Ops, TypeOK
      <2> QED BY <1>a, <1>11, <2>1, JobTyped DEF HearOf, TypeOK, docs, money
<1>12. ASSUME NEW c \in Calls, DeliverCommits(c) PROVE TypeOK'
      <2>1. [Idle EXCEPT !.op = "generate"] \in CallTypes
            BY RestTyped DEF CallTypes, Ops
      <2>2. call[c].amount \in 0 .. MaxQty /\ call[c].sum \in Nat
            BY <1>a, <1>12, JobIsTyped DEF IInv, OrderInv, DeliverFits, DeliverCommits, CallTypes
      <2> QED BY <1>a, <1>12, <2>1, <2>2, RestTyped, JobTyped DEF DeliverCommits, TypeOK, OrderTypes, money
<1>13. ASSUME NEW c \in Calls, Generate(c) PROVE TypeOK'
      <2>1. [Idle EXCEPT !.op = "issue", !.todo = Advances, !.saw = Unapplied] \in CallTypes
            BY RestTyped DEF CallTypes, Ops, Advances, Unapplied, Paid
      <2> QED BY <1>a, <1>13, <2>1, RestTyped, JobTyped DEF Generate, TypeOK, docs, money
<1>14. ASSUME NEW c \in Calls, NothingLeftDue(c) PROVE TypeOK'
      <2>1. [call[c] EXCEPT !.todo = {}] \in CallTypes
            BY RestTyped, JobIsTyped, <1>a DEF CallTypes
      <2> QED BY <1>a, <1>14, <2>1, JobTyped DEF NothingLeftDue, TypeOK, docs, money
<1>15. ASSUME NEW c \in Calls, Issue(c) PROVE TypeOK'
      <2>1. call[c].sum \in Nat /\ call[c].done \subseteq Links
            BY <1>a, JobIsTyped DEF CallTypes
      <2>2. CASE invoice.status # "none"
            BY <1>a, <1>15, <2>2, RestTyped, JobTyped DEF Issue, TypeOK, docs, money
      <2>3. CASE invoice.status = "none"
            <3>1. Bill \in Nat /\ call[c].sum <= Bill
                  BY <1>a, <1>15, BoundsAssumption
                  DEF IInv, OrderInv, IssueFits, Issue, Bill, TypeOK, OrderTypes
            <3>2. AtTheDoor(Bill - call[c].sum) \in Nat
                  BY <1>a, <2>1, <3>1 DEF AtTheDoor, Lesser, TypeOK
            <3>3. NewInvoice(Bill, call[c].sum + AtTheDoor(Bill - call[c].sum))
                     \in InvoiceTypes
                  BY <2>1, <3>1, <3>2 DEF NewInvoice, InvoiceTypes, InvoiceStatuses
            <3>6. rows' \in [Links -> Nat]
                  BY <1>a, <1>15, <2>3 DEF Issue, TypeOK
            <3>7. \A l \in Links : link[l] \in LinkTypes /\ [link[l] EXCEPT !.applied = TRUE] \in LinkTypes
                  BY <1>a DEF TypeOK, LinkTypes
            <3>4. link' \in [Links -> LinkTypes]
                  BY <1>15, <2>3, <3>7 DEF Issue
            <3>5. missed' \subseteq Links
                  BY <1>a, <1>15, <2>3 DEF Issue, TypeOK, Unapplied, Paid
            <3> QED BY <1>a, <1>15, <2>3, <3>3, <3>6, <3>4, <3>5, RestTyped, JobTyped
                    DEF Issue, TypeOK, docs
      <2> QED BY <2>2, <2>3
<1>16. ASSUME NEW c \in Calls, NEW l \in Links, TakeAdvance(c, l)
      PROVE TypeOK'
      <2>1. Bill \in Nat /\ link[l].amount \in Nat /\ call[c].sum \in Nat
            BY <1>a, JobIsTyped, BoundsAssumption DEF TypeOK, OrderTypes, LinkTypes, CallTypes, Bill
      <2>2. call[c].sum + Lesser(link[l].amount, Bill - call[c].sum) \in Nat
            BY <2>1, <1>16 DEF TakeAdvance, Lesser
      <2>3. [call[c] EXCEPT !.todo = @ \ {l}, !.done = @ \cup {l},
                            !.sum = @ + Lesser(link[l].amount, Bill - call[c].sum)] \in CallTypes
            BY <1>a, <2>2, JobIsTyped DEF CallTypes
      <2> QED BY <1>a, <1>16, <2>3, JobTyped DEF TakeAdvance, TypeOK, docs, money
<1>17. ASSUME NEW c \in Calls, PaymentRecorded(c) PROVE TypeOK'
      <2>1. call[c].sum \in Nat /\ call[c].amount \in Nat
            BY <1>a, JobIsTyped DEF CallTypes
      <2>3. Received([invoice EXCEPT !.paid = call[c].sum], call[c].amount) \in InvoiceTypes
            BY <1>a, <2>1, ReceivedTyped DEF TypeOK, InvoiceTypes
      <2>4. Received([invoice EXCEPT !.paid = call[c].sum], call[c].amount).status
               \in InvoiceStatuses
            BY <2>3 DEF InvoiceTypes
      <2>2. invoice' \in InvoiceTypes
            BY <1>a, <1>17, <2>1, <2>4, InvoiceChanged DEF PaymentRecorded, TypeOK
      <2> QED BY <1>a, <1>17, <2>2, RestTyped, JobTyped DEF PaymentRecorded, TypeOK, docs
<1>18. ASSUME NEW c \in Calls, AddLink(c) PROVE TypeOK'
      <2>1. call[c].amount \in Nat
            BY <1>a, JobIsTyped DEF CallTypes
      <2>2. [status |-> "created", amount |-> call[c].amount, applied |-> FALSE] \in LinkTypes
            BY <2>1 DEF LinkTypes, LinkStatuses
      <2> QED BY <1>a, <1>18, <2>2, RestTyped, JobTyped
              DEF AddLink, TypeOK, GatewayStatuses, docs
<1>19. ASSUME NEW c \in Calls, GatewayFails(c) PROVE TypeOK'
      BY <1>a, <1>19, RestTyped, JobTyped DEF GatewayFails, TypeOK, docs, money
<1>20. ASSUME NEW c \in Calls, NothingToApply(c) PROVE TypeOK'
      BY <1>a, <1>20, WrittenTyped, RestTyped, JobTyped DEF NothingToApply, TypeOK, docs
<1>21. ASSUME NEW c \in Calls, ApplyToInvoice(c) PROVE TypeOK'
      <2>1. Written(c) \in LinkTypes /\ [Written(c) EXCEPT !.applied = TRUE] \in LinkTypes
            BY <1>a, WrittenTyped DEF LinkTypes
      <2>2. link' \in [Links -> LinkTypes] /\ rows' \in [Links -> Nat]
            BY <1>a, <1>21, <2>1 DEF ApplyToInvoice, TypeOK
      <2>4. ASSUME Outstanding(invoice) > 0 PROVE invoice' \in InvoiceTypes
            <3>1. Lesser(Written(c).amount, Outstanding(invoice)) \in Nat
                  BY <1>a, <2>1, <2>4 DEF TypeOK, InvoiceTypes, LinkTypes, Lesser, Outstanding
            <3> QED BY <1>a, <1>21, <2>4, <3>1, ReceivedTyped DEF ApplyToInvoice, TypeOK
      <2>3. invoice' \in InvoiceTypes
            BY <1>a, <1>21, <2>4 DEF ApplyToInvoice, TypeOK
      <2> QED BY <1>a, <1>21, <2>2, <2>3, RestTyped, JobTyped DEF ApplyToInvoice, TypeOK, docs
<1>22. ASSUME NEW c \in Calls, NoInvoiceYet(c) PROVE TypeOK'
      <2>1. [call[c] EXCEPT !.op = "save"] \in CallTypes
            BY RestTyped, JobIsTyped, <1>a DEF CallTypes, Ops
      <2> QED BY <1>a, <1>22, <2>1, JobTyped DEF NoInvoiceYet, TypeOK, docs, money
<1>23. ASSUME NEW c \in Calls, SavePaid(c) PROVE TypeOK'
      <2>1. call[c].link \in Links
            BY <1>a, <1>23 DEF IInv, RowsInv, CopyIsRow, Settling, SavePaid, Is
      <2> QED BY <1>a, <1>23, <2>1, WrittenTyped, RestTyped, JobTyped DEF SavePaid, TypeOK, docs
<1>24. ASSUME NEW c \in Calls, Crash(c) PROVE TypeOK'
      BY <1>a, <1>24, BoundsAssumption, RestTyped, JobTyped DEF Crash, TypeOK, docs, money
<1>q. QED BY <1>1, <1>2, <1>3, <1>4, <1>5, <1>6, <1>7, <1>8, <1>9, <1>10, 
             <1>11, <1>12, <1>13, <1>14, <1>15, <1>16, <1>17, <1>18, <1>19, 
             <1>20, <1>21, <1>22, <1>23, <1>24 DEF Next, Begin, Continue

\* One call takes up its next job, and no other does.
Turn(c) == \A d \in Calls \ {c} : call'[d] = call[d]

LEMMA NewJob ==
    ASSUME TypeOK, NEW c \in Calls, NEW job, Becomes(c, job)
    PROVE  call'[c] = job /\ Turn(c)
BY DEF TypeOK, Becomes, Turn

\* What calls have locked and read stays so when one of them ends or goes on
\* without locking a link, and writes no link that another has locked.
LEMMA RowsKept ==
    ASSUME IInv, TypeOK', NEW c \in Calls, Turn(c),
           call'[c].op \notin {"settle", "save"},
           call'[c].op = "issue" =>
               /\ call'[c].done = {} \/ (Is(c, "issue") /\ call'[c].done = call[c].done)
               /\ \A l \in call'[c].todo \cup call'[c].done : link[l].status # "none",
           \A d \in Calls \ {c} : Settling(d) => link'[call[d].link] = link[call[d].link],
           \A l \in Links : link[l].status # "none" => link'[l].status # "none"
    PROVE  RowsInv'
<1>1. \A d \in Calls : d # c => call'[d] = call[d]
      BY DEF Turn
<1>2. \A d \in Calls : /\ call[d].todo \subseteq Links /\ call[d].done \subseteq Links
                        /\ call'[d].todo \subseteq Links /\ call'[d].done \subseteq Links
      BY DEF IInv, TypeOK, CallTypes
<1>4. CopyIsRow'
      BY <1>1 DEF IInv, RowsInv, CopyIsRow, Settling
<1>5. HeldByOne'
      BY <1>1 DEF IInv, RowsInv, HeldByOne, Settling, Is
<1>6. TakenAreMade'
      BY <1>1, <1>2 DEF IInv, RowsInv, TakenAreMade, Is
<1> QED BY <1>4, <1>5, <1>6 DEF RowsInv

\* A settlement writes a link that has been made.
LEMMA WrittenMade ==
    ASSUME IInv, NEW c \in Calls, Settling(c)
    PROVE  /\ call[c].link \in Links /\ Written(c).status # "none"
           /\ Written(c).amount = link[call[c].link].amount
           /\ Written(c).applied = link[call[c].link].applied
<1>1. call[c].link \in Links /\ call[c].copy = link[call[c].link] /\ call[c].copy.status # "none"
      BY DEF IInv, RowsInv, CopyIsRow
<1>2. call[c].copy \in LinkTypes
      BY JobIsTyped DEF IInv, CallTypes
<1> QED BY <1>1, <1>2 DEF Written, Settled, LinkTypes

\* A step leaves locked rows as they were read, and locked by one call.
LEMMA RowsStep == ASSUME IInv, [Next]_vars PROVE RowsInv'
<1>a. IInv /\ TypeOK /\ TypeOK' BY TypeStep DEF IInv
<1>1. CASE UNCHANGED vars
      BY <1>1 DEF IInv, RowsInv, CopyIsRow, HeldByOne, TakenAreMade, Settling, Is, vars, money
<1>2. CASE ConfigureGst
      BY <1>2 DEF ConfigureGst, IInv, RowsInv, CopyIsRow, HeldByOne, TakenAreMade, Settling, Is, docs, money
<1>3. CASE Depart
      BY <1>3 DEF Depart, IInv, RowsInv, CopyIsRow, HeldByOne, TakenAreMade, Settling, Is, docs, money
<1>4. ASSUME NEW q \in 1 .. MaxQty, Amend(q) PROVE RowsInv'
      BY <1>4 DEF Amend, IInv, RowsInv, CopyIsRow, HeldByOne, TakenAreMade, Settling, Is, docs, money
<1>5. ASSUME NEW l \in Links, NEW to \in {"paid"} \cup Closings, AtGateway(l, to)
      PROVE RowsInv'
      BY <1>5 DEF AtGateway, IInv, RowsInv, CopyIsRow, HeldByOne, TakenAreMade, Settling, Is, docs, money
<1>6. ASSUME NEW c \in Calls, NEW charge \in {0, Fee}, ApproveCancellation(c, charge)
      PROVE RowsInv'
      <2>1. call'[c] \in {Idle, [Idle EXCEPT !.op = "generate"]} /\ Turn(c)
            BY <1>a, <1>6, NewJob DEF ApproveCancellation
      <2> QED BY <1>a, <1>6, <2>1, RowsKept DEF ApproveCancellation, Idle, money
<1>7. ASSUME NEW c \in Calls, NEW q \in 0 .. MaxQty, NEW amount \in 0 .. MaxQty, Deliver(c, q, amount)
      PROVE RowsInv'
      <2>1. call'[c] = [Idle EXCEPT !.op = "deliver", !.amount = q, !.sum = amount] /\ Turn(c)
            BY <1>a, <1>7, NewJob DEF Deliver
      <2> QED BY <1>a, <1>7, <2>1, RowsKept DEF Deliver, Idle, money
<1>8. ASSUME NEW c \in Calls, Reissue(c) PROVE RowsInv'
      <2>1. call'[c] = [Idle EXCEPT !.op = "generate"] /\ Turn(c)
            BY <1>a, <1>8, NewJob DEF Reissue
      <2> QED BY <1>a, <1>8, <2>1, RowsKept DEF Reissue, Idle, money
<1>9. ASSUME NEW c \in Calls, NEW amount \in 1 .. MaxQty + Fee, RecordPayment(c, amount)
      PROVE RowsInv'
      <2>1. call'[c] = [Idle EXCEPT !.op = "office", !.amount = amount, !.sum = invoice.paid] /\ Turn(c)
            BY <1>a, <1>9, NewJob DEF RecordPayment
      <2> QED BY <1>a, <1>9, <2>1, RowsKept DEF RecordPayment, Idle, money
<1>10. ASSUME NEW c \in Calls, NEW amount \in 1 .. MaxQty + Fee, AskForLink(c, amount)
      PROVE RowsInv'
      <2>1. call'[c] = [Idle EXCEPT !.op = "ask", !.amount = amount] /\ Turn(c)
            BY <1>a, <1>10, NewJob DEF AskForLink
      <2> QED BY <1>a, <1>10, <2>1, RowsKept DEF AskForLink, Idle, money
<1>11. ASSUME NEW c \in Calls, NEW l \in Links, HearOf(c, l) PROVE RowsInv'
      <2>7. call'[c] = [Idle EXCEPT !.op = "settle", !.link = l, !.copy = link[l],
                                       !.told = gateway[l]]
            BY <1>a, <1>11, NewJob DEF HearOf
      <2>1. Turn(c)
            BY <1>a, <1>11, NewJob DEF HearOf
      <2>2. /\ link' = link /\ link[l].status # "none"
            /\ \A d \in Calls \ {c} : /\ Settling(d) => call[d].link # l
                                      /\ Is(d, "issue") => l \notin call[d].done
            BY <1>11 DEF HearOf, Held, Settling, Is, money
      <2>6. call'[c].op = "settle" /\ call'[c].link = l /\ call'[c].copy = link[l]
            BY <2>7 DEF Idle
      <2>3. CopyIsRow'
            BY <2>1, <2>2, <2>6 DEF IInv, RowsInv, CopyIsRow, Settling, Turn
      <2>4. HeldByOne'
            <3>1. \A d \in Calls : d # c => call'[d] = call[d] BY <2>1 DEF Turn
            <3> SUFFICES ASSUME NEW d \in Calls, NEW e \in Calls, d # e, Settling(d)'
                         PROVE  /\ Settling(e)' => call'[d].link # call'[e].link
                                /\ Is(e, "issue")' => call'[d].link \notin call'[e].done
                BY DEF HeldByOne
            <3>2. CASE d = c
                  BY <2>2, <2>6, <3>1, <3>2 DEF IInv, RowsInv, HeldByOne, Settling, Is
            <3>3. CASE d # c /\ e = c
                  BY <2>2, <2>6, <3>1, <3>3 DEF IInv, RowsInv, HeldByOne, Settling, Is
            <3>4. CASE d # c /\ e # c
                  BY <3>1, <3>4 DEF IInv, RowsInv, HeldByOne, Settling, Is
            <3> QED BY <3>2, <3>3, <3>4
      <2>5. TakenAreMade'
            BY <2>1, <2>2, <2>6 DEF IInv, RowsInv, TakenAreMade, Is, Turn
      <2> QED BY <2>3, <2>4, <2>5 DEF RowsInv
<1>12. ASSUME NEW c \in Calls, DeliverCommits(c) PROVE RowsInv'
      <2>1. call'[c] \in {Idle, [Idle EXCEPT !.op = "generate"]} /\ Turn(c)
            BY <1>a, <1>12, NewJob DEF DeliverCommits
      <2> QED BY <1>a, <1>12, <2>1, RowsKept DEF DeliverCommits, Idle, money
<1>13. ASSUME NEW c \in Calls, Generate(c) PROVE RowsInv'
      <2>1. Turn(c) /\ link' = link
            BY <1>a, <1>13, NewJob DEF Generate, money
      <2>2. \/ call'[c] = Idle
            \/ call'[c] = [Idle EXCEPT !.op = "issue", !.todo = Advances, !.saw = Unapplied]
            BY <1>a, <1>13, NewJob DEF Generate
      <2>3. /\ call'[c].op \notin {"settle", "save"} /\ call'[c].done = {}
            /\ call'[c].todo \subseteq Unapplied
            <3>1. Advances \subseteq Unapplied BY DEF Advances
            <3>2. CASE call'[c] = Idle BY <3>2 DEF Idle
            <3>3. CASE call'[c] = [Idle EXCEPT !.op = "issue", !.todo = Advances, !.saw = Unapplied]
                  <4>1. call'[c].op = "issue" /\ call'[c].done = {} /\ call'[c].todo = Advances
                        BY <3>3 DEF Idle
                  <4> QED BY <3>1, <4>1
            <3> QED BY <2>2, <3>2, <3>3
      <2>4. \A l \in call'[c].todo \cup call'[c].done : link[l].status # "none"
            BY <2>3 DEF Unapplied, Paid
      <2>5. call'[c].op = "issue" =>
               /\ call'[c].done = {} \/ (Is(c, "issue") /\ call'[c].done = call[c].done)
               /\ \A l \in call'[c].todo \cup call'[c].done : link[l].status # "none"
            BY <2>3, <2>4
      <2>6. \A d \in Calls \ {c} : Settling(d) => link'[call[d].link] = link[call[d].link]
            BY <2>1
      <2>7. \A l \in Links : link[l].status # "none" => link'[l].status # "none"
            BY <2>1
      <2> QED BY <1>a, <2>1, <2>3, <2>5, <2>6, <2>7, RowsKept
<1>14. ASSUME NEW c \in Calls, NothingLeftDue(c) PROVE RowsInv'
      <2>1. call'[c] = [call[c] EXCEPT !.todo = {}] /\ Turn(c)
            BY <1>a, <1>14, NewJob DEF NothingLeftDue
      <2>2. call'[c].op = "issue" /\ call'[c].todo = {} /\ call'[c].done = call[c].done
            BY <1>a, <1>14, <2>1, JobIsTyped DEF NothingLeftDue, Is, CallTypes
      <2> QED BY <1>a, <1>14, <2>1, <2>2, RowsKept
              DEF NothingLeftDue, money, IInv, RowsInv, TakenAreMade
<1>15. ASSUME NEW c \in Calls, Issue(c) PROVE RowsInv'
      <2>1. call'[c] = Idle /\ Turn(c)
            BY <1>a, <1>15, NewJob DEF Issue
      <2>2. \A l \in Links : l \notin call[c].done => link'[l] = link[l]
            BY <1>a, <1>15 DEF Issue, TypeOK, money
      <2>3. \A l \in Links : link'[l].status = link[l].status
            BY <1>a, <1>15 DEF Issue, TypeOK, LinkTypes, money
      <2>4. \A d \in Calls \ {c} : Settling(d) => link'[call[d].link] = link[call[d].link]
            BY <1>15, <2>2 DEF IInv, RowsInv, CopyIsRow, HeldByOne, Issue
      <2> QED BY <1>a, <2>1, <2>3, <2>4, RowsKept DEF Idle
<1>16. ASSUME NEW c \in Calls, NEW l \in Links, TakeAdvance(c, l)
      PROVE RowsInv'
      <2>1. Turn(c)
            BY <1>a, <1>16, NewJob DEF TakeAdvance
      <2>2. /\ link' = link
            /\ \A d \in Calls \ {c} : Settling(d) => call[d].link # l
            /\ call[c].op = "issue" /\ l \in call[c].todo
            BY <1>16 DEF TakeAdvance, Held, Settling, Is, money
      <2>7. call[c] \in CallTypes BY <1>a, JobIsTyped
      <2>8. call'[c] = [call[c] EXCEPT !.todo = @ \ {l}, !.done = @ \cup {l},
                            !.sum = @ + Lesser(link[l].amount, Bill - call[c].sum)]
            BY <1>a, <1>16, NewJob DEF TakeAdvance
      <2>6. /\ call'[c].op = call[c].op
            /\ call'[c].done = call[c].done \cup {l} /\ call'[c].todo = call[c].todo \ {l}
            BY <2>7, <2>8 DEF CallTypes
      <2>3. CopyIsRow'
            BY <2>1, <2>2, <2>6 DEF IInv, RowsInv, CopyIsRow, Settling, Turn
      <2>4. HeldByOne'
            <3>1. \A d \in Calls : d # c => call'[d] = call[d] BY <2>1 DEF Turn
            <3> SUFFICES ASSUME NEW d \in Calls, NEW e \in Calls, d # e, Settling(d)'
                         PROVE  /\ Settling(e)' => call'[d].link # call'[e].link
                                /\ Is(e, "issue")' => call'[d].link \notin call'[e].done
                BY DEF HeldByOne
            <3>2. CASE d = c
                  BY <2>2, <2>6, <3>1, <3>2 DEF IInv, RowsInv, HeldByOne, Settling, Is
            <3>3. CASE d # c /\ e = c
                  BY <2>2, <2>6, <3>1, <3>3 DEF IInv, RowsInv, HeldByOne, Settling, Is
            <3>4. CASE d # c /\ e # c
                  BY <3>1, <3>4 DEF IInv, RowsInv, HeldByOne, Settling, Is
            <3> QED BY <3>2, <3>3, <3>4
      <2>5. TakenAreMade'
            BY <2>1, <2>2, <2>6 DEF IInv, RowsInv, TakenAreMade, Is, Turn
      <2> QED BY <2>3, <2>4, <2>5 DEF RowsInv
<1>17. ASSUME NEW c \in Calls, PaymentRecorded(c) PROVE RowsInv'
      <2>1. call'[c] = Idle /\ Turn(c)
            BY <1>a, <1>17, NewJob DEF PaymentRecorded
      <2> QED BY <1>a, <1>17, <2>1, RowsKept DEF PaymentRecorded, Idle, money
<1>18. ASSUME NEW c \in Calls, AddLink(c) PROVE RowsInv'
      <2>1. call'[c] = Idle /\ Turn(c)
            BY <1>a, <1>18, NewJob DEF AddLink
      <2>2. \A k \in Links : link[k].status # "none" => link'[k] = link[k]
            BY <1>a, <1>18 DEF AddLink, TypeOK, Used
      <2>3. \A d \in Calls \ {c} : Settling(d) => link'[call[d].link] = link[call[d].link]
            BY <2>2 DEF IInv, RowsInv, CopyIsRow
      <2> QED BY <1>a, <2>1, <2>2, <2>3, RowsKept DEF Idle
<1>19. ASSUME NEW c \in Calls, GatewayFails(c) PROVE RowsInv'
      <2>1. call'[c] = Idle /\ Turn(c)
            BY <1>a, <1>19, NewJob DEF GatewayFails
      <2> QED BY <1>a, <1>19, <2>1, RowsKept DEF GatewayFails, Idle, money
<1>20. ASSUME NEW c \in Calls, NothingToApply(c) PROVE RowsInv'
      <2>1. call'[c] = Idle /\ Turn(c)
            BY <1>a, <1>20, NewJob DEF NothingToApply
      <2>2. \A k \in Links : k # call[c].link => link'[k] = link[k]
            BY <1>a, <1>20 DEF NothingToApply, TypeOK
      <2>3. link'[call[c].link].status # "none"
            BY <1>a, <1>20, WrittenMade, WrittenTyped DEF NothingToApply, TypeOK, LinkTypes, Settling, Is
      <2>4. \A d \in Calls \ {c} : Settling(d) => link'[call[d].link] = link[call[d].link]
            BY <1>20, <2>2 DEF IInv, RowsInv, CopyIsRow, HeldByOne, NothingToApply, Settling, Is
      <2> QED BY <1>a, <2>1, <2>2, <2>3, <2>4, RowsKept DEF Idle
<1>21. ASSUME NEW c \in Calls, ApplyToInvoice(c) PROVE RowsInv'
      <2>1. call'[c] = Idle /\ Turn(c)
            BY <1>a, <1>21, NewJob DEF ApplyToInvoice
      <2>2. \A k \in Links : k # call[c].link => link'[k] = link[k]
            BY <1>a, <1>21 DEF ApplyToInvoice, TypeOK
      <2>3. link'[call[c].link].status # "none"
            BY <1>a, <1>21, WrittenMade, WrittenTyped DEF ApplyToInvoice, TypeOK, LinkTypes, Settling, Is
      <2>4. \A d \in Calls \ {c} : Settling(d) => link'[call[d].link] = link[call[d].link]
            BY <1>21, <2>2 DEF IInv, RowsInv, CopyIsRow, HeldByOne, ApplyToInvoice, Settling, Is
      <2> QED BY <1>a, <2>1, <2>2, <2>3, <2>4, RowsKept DEF Idle
<1>22. ASSUME NEW c \in Calls, NoInvoiceYet(c) PROVE RowsInv'
      <2>1. Turn(c)
            BY <1>a, <1>22, NewJob DEF NoInvoiceYet
      <2>2. /\ link' = link
            /\ call'[c].op = "save" /\ call'[c].link = call[c].link
            /\ call'[c].copy = call[c].copy /\ call[c].op = "settle"
            BY <1>a, <1>22, JobIsTyped, NewJob DEF NoInvoiceYet, Is, money, CallTypes
      <2>3. CopyIsRow'
            BY <2>1, <2>2 DEF IInv, RowsInv, CopyIsRow, Settling, Turn
      <2>4. HeldByOne'
            <3>1. \A d \in Calls : d # c => call'[d] = call[d] BY <2>1 DEF Turn
            <3> SUFFICES ASSUME NEW d \in Calls, NEW e \in Calls, d # e, Settling(d)'
                         PROVE  /\ Settling(e)' => call'[d].link # call'[e].link
                                /\ Is(e, "issue")' => call'[d].link \notin call'[e].done
                BY DEF HeldByOne
            <3>2. CASE d = c
                  BY <2>2, <3>1, <3>2 DEF IInv, RowsInv, HeldByOne, Settling, Is
            <3>3. CASE d # c /\ e = c
                  BY <2>2, <3>1, <3>3 DEF IInv, RowsInv, HeldByOne, Settling, Is
            <3>4. CASE d # c /\ e # c
                  BY <3>1, <3>4 DEF IInv, RowsInv, HeldByOne, Settling, Is
            <3> QED BY <3>2, <3>3, <3>4
      <2>5. TakenAreMade'
            BY <2>1, <2>2 DEF IInv, RowsInv, TakenAreMade, Is, Turn
      <2> QED BY <2>3, <2>4, <2>5 DEF RowsInv
<1>23. ASSUME NEW c \in Calls, SavePaid(c) PROVE RowsInv'
      <2>1. call'[c] = Idle /\ Turn(c)
            BY <1>a, <1>23, NewJob DEF SavePaid
      <2>2. \A k \in Links : k # call[c].link => link'[k] = link[k]
            BY <1>a, <1>23 DEF SavePaid, TypeOK
      <2>3. link'[call[c].link].status # "none"
            BY <1>a, <1>23, WrittenMade, WrittenTyped DEF SavePaid, TypeOK, LinkTypes, Settling, Is
      <2>4. \A d \in Calls \ {c} : Settling(d) => link'[call[d].link] = link[call[d].link]
            BY <1>23, <2>2 DEF IInv, RowsInv, CopyIsRow, HeldByOne, SavePaid, Settling, Is
      <2> QED BY <1>a, <2>1, <2>2, <2>3, <2>4, RowsKept DEF Idle
<1>24. ASSUME NEW c \in Calls, Crash(c) PROVE RowsInv'
      <2>1. call'[c] = Idle /\ Turn(c)
            BY <1>a, <1>24, NewJob DEF Crash
      <2> QED BY <1>a, <1>24, <2>1, RowsKept DEF Crash, Idle, money
<1>q. QED BY <1>1, <1>2, <1>3, <1>4, <1>5, <1>6, <1>7, <1>8, <1>9, <1>10, 
             <1>11, <1>12, <1>13, <1>14, <1>15, <1>16, <1>17, <1>18, <1>19, 
             <1>20, <1>21, <1>22, <1>23, <1>24 DEF Next, Begin, Continue

\* The order is as every call takes it, when a call ends or takes up work that
\* does not depend on it.
LEMMA OrderKept ==
    ASSUME IInv, NEW c \in Calls, Turn(c), order' = order,
           call'[c].op \notin {"deliver", "issue"},
           invoice'.status # "none" => Over
    PROVE  OrderInv'
<1>1. \A d \in Calls : d # c => call'[d] = call[d] BY DEF Turn
<1>2. Bill' = Bill /\ (Over' <=> Over) BY DEF Bill, Over
<1>3. DeliverFits' BY <1>1 DEF IInv, OrderInv, DeliverFits, Is
<1>4. IssueFits' BY <1>1, <1>2 DEF IInv, OrderInv, IssueFits, Is
<1>5. InvoiceNeedsOrder' BY <1>2 DEF InvoiceNeedsOrder
<1> QED BY <1>3, <1>4, <1>5 DEF OrderInv

\* A step leaves the order as those take it who deliver it or make its invoice.
LEMMA OrderStep == ASSUME IInv, [Next]_vars PROVE OrderInv'
<1>a. IInv /\ TypeOK /\ TypeOK' BY TypeStep DEF IInv
<1>1. CASE UNCHANGED vars
      BY <1>1 DEF IInv, OrderInv, DeliverFits, IssueFits, InvoiceNeedsOrder, Over, Bill, Is, vars, docs, money
<1>2. CASE ConfigureGst
      BY <1>2 DEF ConfigureGst, IInv, OrderInv, DeliverFits, IssueFits, InvoiceNeedsOrder, Over, Bill, Is, docs, money
<1>3. CASE Depart
      <2>1. \A d \in Calls : ~Is(d, "deliver") /\ ~Is(d, "issue")
            BY <1>3 DEF Depart, IInv, OrderInv, DeliverFits, IssueFits, Over
      <2>2. invoice.status = "none"
            BY <1>3 DEF Depart, IInv, OrderInv, InvoiceNeedsOrder, Over
      <2> QED BY <1>3, <2>1, <2>2 DEF Depart, OrderInv, DeliverFits, IssueFits, InvoiceNeedsOrder, Is, money
<1>4. ASSUME NEW q \in 1 .. MaxQty, Amend(q) PROVE OrderInv'
      <2>1. \A d \in Calls : ~Is(d, "deliver") /\ ~Is(d, "issue")
            BY <1>4 DEF Amend, IInv, OrderInv, DeliverFits, IssueFits, Over
      <2>2. invoice.status = "none"
            BY <1>4 DEF Amend, IInv, OrderInv, InvoiceNeedsOrder, Over
      <2> QED BY <1>4, <2>1, <2>2 DEF Amend, OrderInv, DeliverFits, IssueFits, InvoiceNeedsOrder, Is, money
<1>5. ASSUME NEW l \in Links, NEW to \in {"paid"} \cup Closings, AtGateway(l, to)
      PROVE OrderInv'
      BY <1>5 DEF AtGateway, IInv, OrderInv, DeliverFits, IssueFits, InvoiceNeedsOrder, Over, Bill, Is, docs, money
<1>6. ASSUME NEW c \in Calls, NEW charge \in {0, Fee}, ApproveCancellation(c, charge)
      PROVE OrderInv'
      <2>1. Turn(c)
            BY <1>a, <1>6, NewJob DEF ApproveCancellation
      <2>2. call'[c].op \in {"idle", "generate"}
            BY <1>a, <1>6, NewJob DEF ApproveCancellation, Idle
      <2>3. \A d \in Calls \ {c} : ~Is(d, "deliver") /\ ~Is(d, "issue")
            BY <1>6 DEF ApproveCancellation, Delivering, IInv, OrderInv, DeliverFits, IssueFits, Over, Is
      <2>4. \A d \in Calls : ~Is(d, "deliver")' /\ ~Is(d, "issue")'
            BY <2>1, <2>2, <2>3 DEF Turn, Is
      <2>5. invoice'.status = "none"
            BY <1>6 DEF ApproveCancellation, IInv, OrderInv, InvoiceNeedsOrder, DeliverFits, Over, money
      <2> QED BY <2>4, <2>5 DEF OrderInv, DeliverFits, IssueFits, InvoiceNeedsOrder, Is
<1>7. ASSUME NEW c \in Calls, NEW q \in 0 .. MaxQty, NEW amount \in 0 .. MaxQty, Deliver(c, q, amount)
      PROVE OrderInv'
      <2>1. Turn(c)
            BY <1>a, <1>7, NewJob DEF Deliver
      <2>j. call'[c] = [Idle EXCEPT !.op = "deliver", !.amount = q, !.sum = amount]
            BY <1>a, <1>7, NewJob DEF Deliver
      <2>2. call'[c].op = "deliver" /\ call'[c].amount = q
            BY <2>j DEF Idle
      <2>3. order' = order /\ order.status = "out_for_delivery" /\ invoice.status = "none"
            BY <1>7 DEF Deliver, docs, IInv, OrderInv, InvoiceNeedsOrder, Over
      <2>4. \A d \in Calls \ {c} : ~Is(d, "deliver") /\ ~Is(d, "issue")
            BY <1>7 DEF Deliver, Delivering, IInv, OrderInv, IssueFits, Over
      <2>5. DeliverFits'
            BY <2>1, <2>2, <2>3, <2>4 DEF DeliverFits, Turn, Is
      <2>6. IssueFits'
            BY <2>1, <2>2, <2>4 DEF IssueFits, Turn, Is
      <2> QED BY <1>7, <2>3, <2>5, <2>6 DEF Deliver, OrderInv, InvoiceNeedsOrder, money
<1>8. ASSUME NEW c \in Calls, Reissue(c) PROVE OrderInv'
      <2>1. Turn(c)
            BY <1>a, <1>8, NewJob DEF Reissue
      <2>j. call'[c] = [Idle EXCEPT !.op = "generate"]
            BY <1>a, <1>8, NewJob DEF Reissue
      <2>2. call'[c].op \in {"generate"}
            BY <2>j DEF Idle
      <2>3. order' = order /\ (invoice'.status # "none" => invoice.status # "none")
            BY <1>a, <1>8 DEF Reissue, docs, money
      <2> QED BY <2>1, <2>2, <2>3, OrderKept DEF IInv, OrderInv, InvoiceNeedsOrder
<1>9. ASSUME NEW c \in Calls, NEW amount \in 1 .. MaxQty + Fee, RecordPayment(c, amount)
      PROVE OrderInv'
      <2>1. Turn(c)
            BY <1>a, <1>9, NewJob DEF RecordPayment
      <2>j. call'[c] = [Idle EXCEPT !.op = "office", !.amount = amount, !.sum = invoice.paid]
            BY <1>a, <1>9, NewJob DEF RecordPayment
      <2>2. call'[c].op \in {"office"}
            BY <2>j DEF Idle
      <2>3. order' = order /\ (invoice'.status # "none" => invoice.status # "none")
            BY <1>a, <1>9 DEF RecordPayment, docs, money
      <2> QED BY <2>1, <2>2, <2>3, OrderKept DEF IInv, OrderInv, InvoiceNeedsOrder
<1>10. ASSUME NEW c \in Calls, NEW amount \in 1 .. MaxQty + Fee, AskForLink(c, amount)
      PROVE OrderInv'
      <2>1. Turn(c)
            BY <1>a, <1>10, NewJob DEF AskForLink
      <2>j. call'[c] = [Idle EXCEPT !.op = "ask", !.amount = amount]
            BY <1>a, <1>10, NewJob DEF AskForLink
      <2>2. call'[c].op \in {"ask"}
            BY <2>j DEF Idle
      <2>3. order' = order /\ (invoice'.status # "none" => invoice.status # "none")
            BY <1>a, <1>10 DEF AskForLink, docs, money
      <2> QED BY <2>1, <2>2, <2>3, OrderKept DEF IInv, OrderInv, InvoiceNeedsOrder
<1>11. ASSUME NEW c \in Calls, NEW l \in Links, HearOf(c, l) PROVE OrderInv'
      <2>1. Turn(c)
            BY <1>a, <1>11, NewJob DEF HearOf
      <2>j. call'[c] = [Idle EXCEPT !.op = "settle", !.link = l, !.copy = link[l],
                                       !.told = gateway[l]]
            BY <1>a, <1>11, NewJob DEF HearOf
      <2>2. call'[c].op \in {"settle"}
            BY <2>j DEF Idle
      <2>3. order' = order /\ (invoice'.status # "none" => invoice.status # "none")
            BY <1>a, <1>11 DEF HearOf, docs, money
      <2> QED BY <2>1, <2>2, <2>3, OrderKept DEF IInv, OrderInv, InvoiceNeedsOrder
<1>12. ASSUME NEW c \in Calls, DeliverCommits(c) PROVE OrderInv'
      <2>1. Turn(c)
            BY <1>a, <1>12, NewJob DEF DeliverCommits
      <2>2. call'[c].op \in {"idle", "generate"}
            BY <1>a, <1>12, NewJob DEF DeliverCommits, Idle
      <2>3. \A d \in Calls \ {c} : ~Is(d, "deliver") /\ ~Is(d, "issue")
            BY <1>12 DEF DeliverCommits, Delivering, IInv, OrderInv, DeliverFits, IssueFits, Over, Is
      <2>4. \A d \in Calls : ~Is(d, "deliver")' /\ ~Is(d, "issue")'
            BY <2>1, <2>2, <2>3 DEF Turn, Is
      <2>5. invoice'.status = "none"
            BY <1>12 DEF DeliverCommits, IInv, OrderInv, InvoiceNeedsOrder, DeliverFits, Over, money
      <2> QED BY <2>4, <2>5 DEF OrderInv, DeliverFits, IssueFits, InvoiceNeedsOrder, Is
<1>13. ASSUME NEW c \in Calls, Generate(c) PROVE OrderInv'
      <2>1. CASE call'[c] = Idle /\ Turn(c)
            <3>1. call'[c].op = "idle" BY <2>1 DEF Idle
            <3>2. order' = order /\ invoice' = invoice
                  BY <1>13 DEF Generate, docs, money
            <3> QED BY <2>1, <3>1, <3>2, OrderKept DEF IInv, OrderInv, InvoiceNeedsOrder
      <2>2. CASE /\ Uninvoiced /\ Turn(c)
                 /\ call'[c] = [Idle EXCEPT !.op = "issue", !.todo = Advances, !.saw = Unapplied]
            <3>2. /\ call'[c].op = "issue" /\ call'[c].sum = 0
                  /\ call'[c].todo = Advances /\ call'[c].saw = Unapplied
                  BY <2>2 DEF Idle
            <3>3. order' = order /\ invoice' = invoice
                  BY <1>13 DEF Generate, docs, money
            <3>4. DeliverFits'
                  BY <2>2, <3>2, <3>3 DEF IInv, OrderInv, DeliverFits, Turn, Is
            <3>5. Bill' = Bill /\ (Over' <=> Over) BY <3>3 DEF Bill, Over
            <3>6. IssueFits'
                  <4>1. \A d \in Calls : d # c => call'[d] = call[d] BY <2>2 DEF Turn
                  <4>2. Over /\ Bill > 0 /\ (order.status = "delivered" => Advances = Unapplied)
                        BY <2>2 DEF Uninvoiced, Over, Advances
                  <4>3. Bill \in Nat BY <1>a, BoundsAssumption DEF TypeOK, OrderTypes, Bill
                  <4> QED BY <3>2, <3>3, <3>5, <4>1, <4>2, <4>3 DEF IInv, OrderInv, IssueFits, Is
            <3> QED BY <3>3, <3>4, <3>5, <3>6 DEF IInv, OrderInv, InvoiceNeedsOrder
      <2> QED BY <1>a, <1>13, <2>1, <2>2, NewJob DEF Generate
<1>14. ASSUME NEW c \in Calls, NothingLeftDue(c) PROVE OrderInv'
      <2>1. Turn(c)
            BY <1>a, <1>14, NewJob DEF NothingLeftDue
      <2>7. call[c] \in CallTypes BY <1>a, JobIsTyped
      <2>2. /\ call'[c].op = "issue" /\ call[c].op = "issue"
            /\ call[c].sum >= Bill /\ call'[c].sum = call[c].sum
            BY <1>a, <1>14, <2>7, NewJob DEF NothingLeftDue, Is, CallTypes
      <2>3. order' = order /\ invoice' = invoice
            BY <1>14 DEF NothingLeftDue, docs, money
      <2>4. DeliverFits'
            BY <2>1, <2>2, <2>3 DEF IInv, OrderInv, DeliverFits, Turn, Is
      <2>5. Bill' = Bill /\ (Over' <=> Over) BY <2>3 DEF Bill, Over
      <2>6. IssueFits'
            <3>1. \A d \in Calls : d # c => call'[d] = call[d] BY <2>1 DEF Turn
            <3>2. Bill \in Int BY <1>a, BoundsAssumption DEF TypeOK, OrderTypes, Bill
            <3> QED BY <2>2, <2>3, <2>7, <3>2, <2>5, <3>1 DEF IInv, OrderInv, IssueFits, Is, CallTypes
      <2> QED BY <2>3, <2>4, <2>5, <2>6 DEF IInv, OrderInv, InvoiceNeedsOrder
<1>15. ASSUME NEW c \in Calls, Issue(c) PROVE OrderInv'
      <2>1. Turn(c)
            BY <1>a, <1>15, NewJob DEF Issue
      <2>2. call'[c].op \in {"idle"}
            BY <1>a, <1>15, NewJob DEF Issue, Idle
      <2>3. order' = order /\ Over
            BY <1>15 DEF Issue, docs, IInv, OrderInv, IssueFits
      <2> QED BY <2>1, <2>2, <2>3, OrderKept
<1>16. ASSUME NEW c \in Calls, NEW l \in Links, TakeAdvance(c, l)
      PROVE OrderInv'
      <2>1. Turn(c)
            BY <1>a, <1>16, NewJob DEF TakeAdvance
      <2>7. call[c] \in CallTypes /\ link[l].amount \in Nat /\ Bill \in Nat
            BY <1>a, JobIsTyped, BoundsAssumption DEF TypeOK, OrderTypes, LinkTypes, Bill
      <2>8. call'[c] = [call[c] EXCEPT !.todo = @ \ {l}, !.done = @ \cup {l},
                            !.sum = @ + Lesser(link[l].amount, Bill - call[c].sum)]
            BY <1>a, <1>16, NewJob DEF TakeAdvance
      <2>9. call'[c].sum <= Bill
            BY <1>16, <2>7, <2>8 DEF TakeAdvance, CallTypes, Lesser
      <2>2. /\ call'[c].op = "issue" /\ call[c].op = "issue"
            /\ call[c].sum < Bill /\ call'[c].sum <= Bill
            /\ call'[c].todo \cup call'[c].done = call[c].todo \cup call[c].done
            /\ call'[c].saw = call[c].saw
            BY <1>16, <2>7, <2>8, <2>9 DEF TakeAdvance, Is, CallTypes
      <2>3. order' = order /\ invoice' = invoice
            BY <1>16 DEF TakeAdvance, docs, money
      <2>4. DeliverFits'
            BY <2>1, <2>2, <2>3 DEF IInv, OrderInv, DeliverFits, Turn, Is
      <2>5. Bill' = Bill /\ (Over' <=> Over) BY <2>3 DEF Bill, Over
      <2>6. IssueFits'
            <3>1. \A d \in Calls : d # c => call'[d] = call[d] BY <2>1 DEF Turn
            <3> QED BY <2>2, <2>3, <2>5, <3>1 DEF IInv, OrderInv, IssueFits, Is
      <2> QED BY <2>3, <2>4, <2>5, <2>6 DEF IInv, OrderInv, InvoiceNeedsOrder
<1>17. ASSUME NEW c \in Calls, PaymentRecorded(c) PROVE OrderInv'
      <2>1. Turn(c)
            BY <1>a, <1>17, NewJob DEF PaymentRecorded
      <2>2. call'[c].op \in {"idle"}
            BY <1>a, <1>17, NewJob DEF PaymentRecorded, Idle
      <2>3. order' = order /\ invoice.status # "none"
            BY <1>17 DEF PaymentRecorded, docs, IInv, InvoiceInv, OfficeFits
      <2> QED BY <2>1, <2>2, <2>3, OrderKept DEF IInv, OrderInv, InvoiceNeedsOrder
<1>18. ASSUME NEW c \in Calls, AddLink(c) PROVE OrderInv'
      <2>1. Turn(c)
            BY <1>a, <1>18, NewJob DEF AddLink
      <2>2. call'[c].op \in {"idle"}
            BY <1>a, <1>18, NewJob DEF AddLink, Idle
      <2>3. order' = order /\ (invoice'.status # "none" => invoice.status # "none")
            BY <1>a, <1>18 DEF AddLink, docs, money
      <2> QED BY <2>1, <2>2, <2>3, OrderKept DEF IInv, OrderInv, InvoiceNeedsOrder
<1>19. ASSUME NEW c \in Calls, GatewayFails(c) PROVE OrderInv'
      <2>1. Turn(c)
            BY <1>a, <1>19, NewJob DEF GatewayFails
      <2>2. call'[c].op \in {"idle"}
            BY <1>a, <1>19, NewJob DEF GatewayFails, Idle
      <2>3. order' = order /\ (invoice'.status # "none" => invoice.status # "none")
            BY <1>a, <1>19 DEF GatewayFails, docs, money
      <2> QED BY <2>1, <2>2, <2>3, OrderKept DEF IInv, OrderInv, InvoiceNeedsOrder
<1>20. ASSUME NEW c \in Calls, NothingToApply(c) PROVE OrderInv'
      <2>1. Turn(c)
            BY <1>a, <1>20, NewJob DEF NothingToApply
      <2>2. call'[c].op \in {"idle"}
            BY <1>a, <1>20, NewJob DEF NothingToApply, Idle
      <2>3. order' = order /\ (invoice'.status # "none" => invoice.status # "none")
            BY <1>a, <1>20 DEF NothingToApply, docs, money
      <2> QED BY <2>1, <2>2, <2>3, OrderKept DEF IInv, OrderInv, InvoiceNeedsOrder
<1>21. ASSUME NEW c \in Calls, ApplyToInvoice(c) PROVE OrderInv'
      <2>1. Turn(c)
            BY <1>a, <1>21, NewJob DEF ApplyToInvoice
      <2>2. call'[c].op \in {"idle"}
            BY <1>a, <1>21, NewJob DEF ApplyToInvoice, Idle
      <2>3. order' = order /\ (invoice'.status # "none" => invoice.status # "none")
            BY <1>a, <1>21 DEF ApplyToInvoice, docs, money
      <2> QED BY <2>1, <2>2, <2>3, OrderKept DEF IInv, OrderInv, InvoiceNeedsOrder
<1>22. ASSUME NEW c \in Calls, NoInvoiceYet(c) PROVE OrderInv'
      <2>1. Turn(c)
            BY <1>a, <1>22, NewJob DEF NoInvoiceYet
      <2>2. call'[c].op = "save"
            BY <1>a, <1>22, NewJob, JobIsTyped DEF NoInvoiceYet, CallTypes
      <2>3. order' = order /\ (invoice'.status # "none" => invoice.status # "none")
            BY <1>a, <1>22 DEF NoInvoiceYet, docs, money
      <2> QED BY <2>1, <2>2, <2>3, OrderKept DEF IInv, OrderInv, InvoiceNeedsOrder
<1>23. ASSUME NEW c \in Calls, SavePaid(c) PROVE OrderInv'
      <2>1. Turn(c)
            BY <1>a, <1>23, NewJob DEF SavePaid
      <2>2. call'[c].op \in {"idle"}
            BY <1>a, <1>23, NewJob DEF SavePaid, Idle
      <2>3. order' = order /\ (invoice'.status # "none" => invoice.status # "none")
            BY <1>a, <1>23 DEF SavePaid, docs, money
      <2> QED BY <2>1, <2>2, <2>3, OrderKept DEF IInv, OrderInv, InvoiceNeedsOrder
<1>24. ASSUME NEW c \in Calls, Crash(c) PROVE OrderInv'
      <2>1. Turn(c)
            BY <1>a, <1>24, NewJob DEF Crash
      <2>2. call'[c].op \in {"idle"}
            BY <1>a, <1>24, NewJob DEF Crash, Idle
      <2>3. order' = order /\ (invoice'.status # "none" => invoice.status # "none")
            BY <1>a, <1>24 DEF Crash, docs, money
      <2> QED BY <2>1, <2>2, <2>3, OrderKept DEF IInv, OrderInv, InvoiceNeedsOrder
<1>q. QED BY <1>1, <1>2, <1>3, <1>4, <1>5, <1>6, <1>7, <1>8, <1>9, <1>10, 
             <1>11, <1>12, <1>13, <1>14, <1>15, <1>16, <1>17, <1>18, <1>19, 
             <1>20, <1>21, <1>22, <1>23, <1>24 DEF Next, Begin, Continue

\* The invoice stays as it is and as the office has read it, when no payment is
\* recorded on it and the office does not begin with one.
LEMMA InvoiceKept ==
    ASSUME IInv, NEW c \in Calls, Turn(c), invoice' = invoice, call'[c].op # "office"
    PROVE  InvoiceInv'
<1>1. \A d \in Calls : d # c => call'[d] = call[d] BY DEF Turn
<1>2. InvoiceFits' BY DEF IInv, InvoiceInv, InvoiceFits
<1>3. OfficeFits' BY <1>1 DEF IInv, InvoiceInv, OfficeFits, Is
<1> QED BY <1>2, <1>3 DEF InvoiceInv

\* A step leaves no invoice overpaid, and the office with what it read.
LEMMA InvoiceStep == ASSUME IInv, [Next]_vars PROVE InvoiceInv'
<1>a. IInv /\ TypeOK /\ TypeOK' BY TypeStep DEF IInv
<1>1. CASE UNCHANGED vars
      BY <1>1 DEF IInv, InvoiceInv, InvoiceFits, OfficeFits, Is, vars, money
<1>2. CASE ConfigureGst
      BY <1>2 DEF ConfigureGst, IInv, InvoiceInv, InvoiceFits, OfficeFits, Is, money
<1>3. CASE Depart
      BY <1>3 DEF Depart, IInv, InvoiceInv, InvoiceFits, OfficeFits, Is, money
<1>4. ASSUME NEW q \in 1 .. MaxQty, Amend(q) PROVE InvoiceInv'
      BY <1>4 DEF Amend, IInv, InvoiceInv, InvoiceFits, OfficeFits, Is, money
<1>5. ASSUME NEW l \in Links, NEW to \in {"paid"} \cup Closings, AtGateway(l, to)
      PROVE InvoiceInv'
      BY <1>5 DEF AtGateway, IInv, InvoiceInv, InvoiceFits, OfficeFits, Is, docs, money
<1>6. ASSUME NEW c \in Calls, NEW charge \in {0, Fee}, ApproveCancellation(c, charge)
      PROVE InvoiceInv'
      <2>1. Turn(c)
            BY <1>a, <1>6, NewJob DEF ApproveCancellation
      <2>2. call'[c].op \in {"idle", "generate"}
            BY <1>a, <1>6, NewJob DEF ApproveCancellation, Idle
      <2>3. invoice' = invoice
            BY <1>a, <1>6 DEF ApproveCancellation, money
      <2> QED BY <2>1, <2>2, <2>3, InvoiceKept
<1>7. ASSUME NEW c \in Calls, NEW q \in 0 .. MaxQty, NEW amount \in 0 .. MaxQty, Deliver(c, q, amount)
      PROVE InvoiceInv'
      <2>1. Turn(c)
            BY <1>a, <1>7, NewJob DEF Deliver
      <2>j. call'[c] = [Idle EXCEPT !.op = "deliver", !.amount = q, !.sum = amount]
            BY <1>a, <1>7, NewJob DEF Deliver
      <2>2. call'[c].op \in {"deliver"}
            BY <2>j DEF Idle
      <2>3. invoice' = invoice
            BY <1>7 DEF Deliver, money
      <2> QED BY <2>1, <2>2, <2>3, InvoiceKept
<1>8. ASSUME NEW c \in Calls, Reissue(c) PROVE InvoiceInv'
      <2>1. Turn(c)
            BY <1>a, <1>8, NewJob DEF Reissue
      <2>j. call'[c] = [Idle EXCEPT !.op = "generate"]
            BY <1>a, <1>8, NewJob DEF Reissue
      <2>2. call'[c].op \in {"generate"}
            BY <2>j DEF Idle
      <2>3. invoice' = invoice
            BY <1>a, <1>8 DEF Reissue, money
      <2> QED BY <2>1, <2>2, <2>3, InvoiceKept
<1>9. ASSUME NEW c \in Calls, NEW amount \in 1 .. MaxQty + Fee, RecordPayment(c, amount)
      PROVE InvoiceInv'
      <2>1. Turn(c)
            BY <1>a, <1>9, NewJob DEF RecordPayment
      <2>j. call'[c] = [Idle EXCEPT !.op = "office", !.amount = amount, !.sum = invoice.paid]
            BY <1>a, <1>9, NewJob DEF RecordPayment
      <2>2. call'[c].op = "office" /\ call'[c].amount = amount /\ call'[c].sum = invoice.paid
            BY <2>j DEF Idle
      <2>3. invoice' = invoice /\ \A d \in Calls : ~Is(d, "office")
            BY <1>9 DEF RecordPayment, InvoiceHeld, money
      <2>4. amount \in Nat /\ amount > 0 BY BoundsAssumption
      <2>5. /\ invoice.status \in {"issued", "partially_paid"}
            /\ amount <= invoice.total - invoice.paid
            BY <1>9, <2>4 DEF RecordPayment, Outstanding
      <2>6. InvoiceFits'
            BY <2>3 DEF IInv, InvoiceInv, InvoiceFits
      <2>7. OfficeFits'
            <3>1. \A d \in Calls : d # c => call'[d] = call[d] BY <2>1 DEF Turn
            <3> QED BY <2>2, <2>3, <2>4, <2>5, <3>1 DEF OfficeFits, Is
      <2> QED BY <2>6, <2>7 DEF InvoiceInv
<1>10. ASSUME NEW c \in Calls, NEW amount \in 1 .. MaxQty + Fee, AskForLink(c, amount)
      PROVE InvoiceInv'
      <2>1. Turn(c)
            BY <1>a, <1>10, NewJob DEF AskForLink
      <2>j. call'[c] = [Idle EXCEPT !.op = "ask", !.amount = amount]
            BY <1>a, <1>10, NewJob DEF AskForLink
      <2>2. call'[c].op \in {"ask"}
            BY <2>j DEF Idle
      <2>3. invoice' = invoice
            BY <1>a, <1>10 DEF AskForLink, money
      <2> QED BY <2>1, <2>2, <2>3, InvoiceKept
<1>11. ASSUME NEW c \in Calls, NEW l \in Links, HearOf(c, l) PROVE InvoiceInv'
      <2>1. Turn(c)
            BY <1>a, <1>11, NewJob DEF HearOf
      <2>j. call'[c] = [Idle EXCEPT !.op = "settle", !.link = l, !.copy = link[l],
                                       !.told = gateway[l]]
            BY <1>a, <1>11, NewJob DEF HearOf
      <2>2. call'[c].op \in {"settle"}
            BY <2>j DEF Idle
      <2>3. invoice' = invoice
            BY <1>a, <1>11 DEF HearOf, money
      <2> QED BY <2>1, <2>2, <2>3, InvoiceKept
<1>12. ASSUME NEW c \in Calls, DeliverCommits(c) PROVE InvoiceInv'
      <2>1. Turn(c)
            BY <1>a, <1>12, NewJob DEF DeliverCommits
      <2>2. call'[c].op \in {"idle", "generate"}
            BY <1>a, <1>12, NewJob DEF DeliverCommits, Idle
      <2>3. invoice' = invoice
            BY <1>a, <1>12 DEF DeliverCommits, money
      <2> QED BY <2>1, <2>2, <2>3, InvoiceKept
<1>13. ASSUME NEW c \in Calls, Generate(c) PROVE InvoiceInv'
      <2>1. Turn(c)
            BY <1>a, <1>13, NewJob DEF Generate
      <2>4. \/ call'[c] = Idle
            \/ call'[c] = [Idle EXCEPT !.op = "issue", !.todo = Advances, !.saw = Unapplied]
            BY <1>a, <1>13, NewJob DEF Generate
      <2>2. call'[c].op # "office"
            <3>1. CASE call'[c] = Idle BY <3>1 DEF Idle
            <3>2. CASE call'[c] = [Idle EXCEPT !.op = "issue", !.todo = Advances, !.saw = Unapplied]
                  BY <3>2 DEF Idle
            <3> QED BY <2>4, <3>1, <3>2
      <2>3. invoice' = invoice
            BY <1>13 DEF Generate, money
      <2> QED BY <2>1, <2>2, <2>3, InvoiceKept
<1>14. ASSUME NEW c \in Calls, NothingLeftDue(c) PROVE InvoiceInv'
      <2>1. Turn(c)
            BY <1>a, <1>14, NewJob DEF NothingLeftDue
      <2>4. call[c] \in CallTypes BY <1>a, JobIsTyped
      <2>2. call'[c].op = "issue"
            BY <1>a, <1>14, <2>4, NewJob DEF NothingLeftDue, CallTypes, Is
      <2>3. invoice' = invoice
            BY <1>14 DEF NothingLeftDue, money
      <2> QED BY <2>1, <2>2, <2>3, InvoiceKept
<1>15. ASSUME NEW c \in Calls, Issue(c) PROVE InvoiceInv'
      <2>a. CASE invoice.status # "none"
            <3>1. Turn(c) /\ invoice' = invoice
                  BY <1>a, <1>15, <2>a, NewJob DEF Issue, money
            <3>2. call'[c].op = "idle"
                  BY <1>a, <1>15, NewJob DEF Issue, Idle
            <3> QED BY <3>1, <3>2, InvoiceKept
      <2>b. CASE invoice.status = "none"
            <3>1. Turn(c)
                  BY <1>a, <1>15, NewJob DEF Issue
            <3>2. call'[c].op = "idle"
                  BY <1>a, <1>15, NewJob DEF Issue, Idle
            <3>3. \A d \in Calls : ~Is(d, "office")
                  BY <2>b DEF IInv, InvoiceInv, OfficeFits
            <3>4. OfficeFits'
                  BY <3>1, <3>2, <3>3 DEF OfficeFits, Turn, Is
            <3>5. /\ call[c].sum \in Nat /\ call[c].sum <= Bill
                  /\ Bill \in Nat /\ Bill > 0 /\ collected \in Nat
                  BY <1>a, <1>15, JobIsTyped, BoundsAssumption
                  DEF Issue, IInv, OrderInv, IssueFits, CallTypes, TypeOK, OrderTypes, Bill
            <3> DEFINE paid == call[c].sum + AtTheDoor(Bill - call[c].sum)
            <3>6. paid \in Nat /\ paid <= Bill
                  BY <3>5 DEF AtTheDoor, Lesser
            <3>7. invoice' = NewInvoice(Bill, paid)
                  BY <1>15, <2>b DEF Issue
            <3> HIDE DEF paid
            <3>8. InvoiceFits'
                  BY <3>5, <3>6, <3>7 DEF InvoiceFits, NewInvoice
            <3> QED BY <3>4, <3>8 DEF InvoiceInv
      <2> QED BY <2>a, <2>b
<1>16. ASSUME NEW c \in Calls, NEW l \in Links, TakeAdvance(c, l)
      PROVE InvoiceInv'
      <2>1. Turn(c)
            BY <1>a, <1>16, NewJob DEF TakeAdvance
      <2>4. call[c] \in CallTypes BY <1>a, JobIsTyped
      <2>5. call'[c] = [call[c] EXCEPT !.todo = @ \ {l}, !.done = @ \cup {l},
                            !.sum = @ + Lesser(link[l].amount, Bill - call[c].sum)]
            BY <1>a, <1>16, NewJob DEF TakeAdvance
      <2>2. call'[c].op = "issue"
            BY <1>16, <2>4, <2>5 DEF TakeAdvance, CallTypes, Is
      <2>3. invoice' = invoice
            BY <1>16 DEF TakeAdvance, money
      <2> QED BY <2>1, <2>2, <2>3, InvoiceKept
<1>17. ASSUME NEW c \in Calls, PaymentRecorded(c) PROVE InvoiceInv'
      <2>1. Turn(c)
            BY <1>a, <1>17, NewJob DEF PaymentRecorded
      <2>2. call'[c].op = "idle"
            BY <1>a, <1>17, NewJob DEF PaymentRecorded, Idle
      <2>6. /\ Is(c, "office") /\ call[c].sum = invoice.paid
            /\ call[c].amount > 0 /\ call[c].amount <= invoice.total - invoice.paid
            /\ \A d \in Calls : Is(d, "office") => d = c
            BY <1>17 DEF PaymentRecorded, IInv, InvoiceInv, OfficeFits
      <2>3. \A d \in Calls \ {c} : ~Is(d, "office")
            BY <2>6
      <2>4. OfficeFits'
            BY <2>1, <2>2, <2>3 DEF OfficeFits, Turn, Is
      <2>7. call[c].amount \in Nat /\ invoice \in InvoiceTypes
            BY <1>a, JobIsTyped DEF TypeOK, CallTypes
      <2>8. /\ invoice'.total = invoice.total
            /\ invoice'.paid = invoice.paid + call[c].amount
            /\ invoice'.status = IF invoice'.paid = invoice.total THEN "paid" ELSE "partially_paid"
            BY <1>17, <2>6, <2>7 DEF PaymentRecorded, Received, InvoiceTypes
      <2>5. InvoiceFits'
            BY <2>6, <2>7, <2>8 DEF InvoiceFits, InvoiceTypes
      <2> QED BY <2>4, <2>5 DEF InvoiceInv
<1>18. ASSUME NEW c \in Calls, AddLink(c) PROVE InvoiceInv'
      <2>1. Turn(c)
            BY <1>a, <1>18, NewJob DEF AddLink
      <2>2. call'[c].op \in {"idle"}
            BY <1>a, <1>18, NewJob DEF AddLink, Idle
      <2>3. invoice' = invoice
            BY <1>a, <1>18 DEF AddLink, money
      <2> QED BY <2>1, <2>2, <2>3, InvoiceKept
<1>19. ASSUME NEW c \in Calls, GatewayFails(c) PROVE InvoiceInv'
      <2>1. Turn(c)
            BY <1>a, <1>19, NewJob DEF GatewayFails
      <2>2. call'[c].op \in {"idle"}
            BY <1>a, <1>19, NewJob DEF GatewayFails, Idle
      <2>3. invoice' = invoice
            BY <1>a, <1>19 DEF GatewayFails, money
      <2> QED BY <2>1, <2>2, <2>3, InvoiceKept
<1>20. ASSUME NEW c \in Calls, NothingToApply(c) PROVE InvoiceInv'
      <2>1. Turn(c)
            BY <1>a, <1>20, NewJob DEF NothingToApply
      <2>2. call'[c].op \in {"idle"}
            BY <1>a, <1>20, NewJob DEF NothingToApply, Idle
      <2>3. invoice' = invoice
            BY <1>a, <1>20 DEF NothingToApply, money
      <2> QED BY <2>1, <2>2, <2>3, InvoiceKept
<1>21. ASSUME NEW c \in Calls, ApplyToInvoice(c) PROVE InvoiceInv'
      <2>1. Turn(c)
            BY <1>a, <1>21, NewJob DEF ApplyToInvoice
      <2>2. call'[c].op = "idle"
            BY <1>a, <1>21, NewJob DEF ApplyToInvoice, Idle
      <2>3. \A d \in Calls \ {c} : ~Is(d, "office")
            BY <1>21 DEF ApplyToInvoice, InvoiceHeld
      <2>4. OfficeFits'
            BY <2>1, <2>2, <2>3 DEF OfficeFits, Turn, Is
      <2>7. Written(c).amount \in Nat /\ invoice \in InvoiceTypes
            BY <1>a, WrittenTyped DEF TypeOK, LinkTypes
      <2>5. InvoiceFits'
            <3>1. CASE ~(Outstanding(invoice) > 0)
                  BY <1>21, <3>1 DEF ApplyToInvoice, IInv, InvoiceInv, InvoiceFits
            <3>2. CASE Outstanding(invoice) > 0
                  <4>1. Outstanding(invoice) = invoice.total - invoice.paid
                        BY <3>2 DEF Outstanding
                  <4> DEFINE n == Lesser(Written(c).amount, Outstanding(invoice))
                  <4>2. n \in Nat /\ n <= invoice.total - invoice.paid
                        BY <2>7, <3>2, <4>1 DEF Lesser, InvoiceTypes
                  <4>3. /\ invoice'.total = invoice.total /\ invoice'.paid = invoice.paid + n
                        /\ invoice'.status =
                              IF invoice'.paid = invoice.total THEN "paid" ELSE "partially_paid"
                        BY <1>21, <2>7, <3>2 DEF ApplyToInvoice, Received, InvoiceTypes
                  <4> HIDE DEF n
                  <4> QED BY <2>7, <3>2, <4>1, <4>2, <4>3 DEF InvoiceFits, InvoiceTypes
            <3> QED BY <3>1, <3>2
      <2> QED BY <2>4, <2>5 DEF InvoiceInv
<1>22. ASSUME NEW c \in Calls, NoInvoiceYet(c) PROVE InvoiceInv'
      <2>1. Turn(c)
            BY <1>a, <1>22, NewJob DEF NoInvoiceYet
      <2>2. call'[c].op = "save"
            BY <1>a, <1>22, NewJob, JobIsTyped DEF NoInvoiceYet, CallTypes
      <2>3. invoice' = invoice
            BY <1>a, <1>22 DEF NoInvoiceYet, money
      <2> QED BY <2>1, <2>2, <2>3, InvoiceKept
<1>23. ASSUME NEW c \in Calls, SavePaid(c) PROVE InvoiceInv'
      <2>1. Turn(c)
            BY <1>a, <1>23, NewJob DEF SavePaid
      <2>2. call'[c].op \in {"idle"}
            BY <1>a, <1>23, NewJob DEF SavePaid, Idle
      <2>3. invoice' = invoice
            BY <1>a, <1>23 DEF SavePaid, money
      <2> QED BY <2>1, <2>2, <2>3, InvoiceKept
<1>24. ASSUME NEW c \in Calls, Crash(c) PROVE InvoiceInv'
      <2>1. Turn(c)
            BY <1>a, <1>24, NewJob DEF Crash
      <2>2. call'[c].op \in {"idle"}
            BY <1>a, <1>24, NewJob DEF Crash, Idle
      <2>3. invoice' = invoice
            BY <1>a, <1>24 DEF Crash, money
      <2> QED BY <2>1, <2>2, <2>3, InvoiceKept
<1>q. QED BY <1>1, <1>2, <1>3, <1>4, <1>5, <1>6, <1>7, <1>8, <1>9, <1>10, 
             <1>11, <1>12, <1>13, <1>14, <1>15, <1>16, <1>17, <1>18, <1>19, 
             <1>20, <1>21, <1>22, <1>23, <1>24 DEF Next, Begin, Continue

\* Links stay applied and recorded as they are, when none is applied.
LEMMA LinksKept ==
    ASSUME IInv, rows' = rows, invoice.status # "none" => invoice'.status # "none",
           \A l \in Links : /\ link'[l].applied <=> link[l].applied
                            /\ link[l].status # "none" => link'[l].status # "none"
    PROVE  LinksInv'
<1>1. AppliedNeedsInvoice' BY DEF IInv, LinksInv, AppliedNeedsInvoice
<1>2. AppliedIsMade' BY DEF IInv, LinksInv, AppliedIsMade
<1>3. AppliedIsRecorded' BY DEF IInv, LinksInv, AppliedIsRecorded
<1> QED BY <1>1, <1>2, <1>3 DEF LinksInv

\* A step applies a link at most once, and only to an invoice.
LEMMA LinksStep == ASSUME IInv, [Next]_vars PROVE LinksInv'
<1>a. IInv /\ TypeOK BY DEF IInv
<1>1. CASE UNCHANGED vars
      BY <1>1, LinksKept DEF vars, money
<1>2. CASE ConfigureGst
      BY <1>2, LinksKept DEF ConfigureGst, money
<1>3. CASE Depart
      BY <1>3, LinksKept DEF Depart, money
<1>4. ASSUME NEW q \in 1 .. MaxQty, Amend(q) PROVE LinksInv'
      BY <1>4, LinksKept DEF Amend, money
<1>5. ASSUME NEW l \in Links, NEW to \in {"paid"} \cup Closings, AtGateway(l, to)
      PROVE LinksInv'
      BY <1>5, LinksKept DEF AtGateway, money, docs
<1>6. ASSUME NEW c \in Calls, NEW charge \in {0, Fee}, ApproveCancellation(c, charge)
      PROVE LinksInv'
      BY <1>6, LinksKept DEF ApproveCancellation, money
<1>7. ASSUME NEW c \in Calls, NEW q \in 0 .. MaxQty, NEW amount \in 0 .. MaxQty, Deliver(c, q, amount)
      PROVE LinksInv'
      BY <1>7, LinksKept DEF Deliver, money
<1>8. ASSUME NEW c \in Calls, Reissue(c) PROVE LinksInv'
      BY <1>8, LinksKept DEF Reissue, money
<1>9. ASSUME NEW c \in Calls, NEW amount \in 1 .. MaxQty + Fee, RecordPayment(c, amount)
      PROVE LinksInv'
      BY <1>9, LinksKept DEF RecordPayment, money
<1>10. ASSUME NEW c \in Calls, NEW amount \in 1 .. MaxQty + Fee, AskForLink(c, amount)
      PROVE LinksInv'
      BY <1>10, LinksKept DEF AskForLink, money
<1>11. ASSUME NEW c \in Calls, NEW l \in Links, HearOf(c, l) PROVE LinksInv'
      BY <1>11, LinksKept DEF HearOf, money
<1>12. ASSUME NEW c \in Calls, DeliverCommits(c) PROVE LinksInv'
      BY <1>12, LinksKept DEF DeliverCommits, money
<1>13. ASSUME NEW c \in Calls, Generate(c) PROVE LinksInv'
      BY <1>13, LinksKept DEF Generate, money
<1>14. ASSUME NEW c \in Calls, NothingLeftDue(c) PROVE LinksInv'
      BY <1>14, LinksKept DEF NothingLeftDue, money
<1>15. ASSUME NEW c \in Calls, Issue(c) PROVE LinksInv'
      <2>1. CASE invoice.status # "none"
            BY <1>15, <2>1, LinksKept DEF Issue, money
      <2>2. CASE invoice.status = "none"
            <3>1. invoice'.status # "none"
                  BY <1>15, <2>2 DEF Issue, NewInvoice
            <3>2. \A l \in Links : ~link[l].applied /\ rows[l] = 0
                  BY <2>2 DEF IInv, LinksInv, AppliedNeedsInvoice, AppliedIsRecorded
            <3>3. \A l \in Links : /\ link'[l].applied <=> l \in call[c].done
                                   /\ link'[l].status = link[l].status
                                   /\ rows'[l] = IF l \in call[c].done THEN 1 ELSE 0
                  BY <1>a, <1>15, <2>2, <3>2 DEF Issue, TypeOK, LinkTypes
            <3>4. \A l \in Links : l \in call[c].done => link[l].status # "none"
                  BY <1>15 DEF Issue, IInv, RowsInv, TakenAreMade
            <3>5. AppliedIsMade' BY <3>3, <3>4 DEF AppliedIsMade
            <3>6. AppliedIsRecorded' BY <3>3 DEF AppliedIsRecorded
            <3> QED BY <3>1, <3>5, <3>6 DEF LinksInv, AppliedNeedsInvoice
      <2> QED BY <2>1, <2>2
<1>16. ASSUME NEW c \in Calls, NEW l \in Links, TakeAdvance(c, l)
      PROVE LinksInv'
      BY <1>16, LinksKept DEF TakeAdvance, money
<1>17. ASSUME NEW c \in Calls, PaymentRecorded(c) PROVE LinksInv'
      <2>1. invoice'.status # "none"
            BY <1>a, <1>17 DEF PaymentRecorded, TypeOK, InvoiceTypes, Received
      <2> QED BY <1>17, <2>1, LinksKept DEF PaymentRecorded
<1>18. ASSUME NEW c \in Calls, AddLink(c) PROVE LinksInv'
      <2>1. \A l \in Links : /\ link'[l].applied <=> link[l].applied
                             /\ link[l].status # "none" => link'[l].status # "none"
            BY <1>a, <1>18 DEF AddLink, Used, TypeOK, LinkTypes, IInv, LinksInv, AppliedIsMade
      <2> QED BY <1>18, <2>1, LinksKept DEF AddLink
<1>19. ASSUME NEW c \in Calls, GatewayFails(c) PROVE LinksInv'
      BY <1>19, LinksKept DEF GatewayFails, money
<1>20. ASSUME NEW c \in Calls, NothingToApply(c) PROVE LinksInv'
      <2>1. /\ call[c].link \in Links /\ Written(c).status # "none"
            /\ Written(c).applied = link[call[c].link].applied
            BY <1>a, <1>20, WrittenMade DEF NothingToApply, Settling, Is
      <2>2. \A l \in Links : link'[l] = IF l = call[c].link THEN Written(c) ELSE link[l]
            BY <1>a, <1>20 DEF NothingToApply, TypeOK
      <2> QED BY <1>20, <2>1, <2>2, LinksKept DEF NothingToApply
<1>21. ASSUME NEW c \in Calls, ApplyToInvoice(c) PROVE LinksInv'
      <2>1. /\ call[c].link \in Links /\ Written(c).status # "none"
            /\ Written(c).applied = link[call[c].link].applied
            BY <1>a, <1>21, WrittenMade DEF ApplyToInvoice, Settling, Is
      <2>2. ~Written(c).applied
            BY <1>a, <1>21, JobIsTyped DEF ApplyToInvoice, Applicable, Written, CallTypes, LinkTypes
      <2>3. CASE ~(Outstanding(invoice) > 0)
            <3>1. \A l \in Links : link'[l] = IF l = call[c].link THEN Written(c) ELSE link[l]
                  BY <1>a, <1>21, <2>3 DEF ApplyToInvoice, TypeOK
            <3> QED BY <1>21, <2>1, <2>3, <3>1, LinksKept DEF ApplyToInvoice
      <2>4. CASE Outstanding(invoice) > 0
            <3>1. invoice'.status # "none"
                  BY <1>a, <1>21, <2>4 DEF ApplyToInvoice, TypeOK, InvoiceTypes, Received
            <3>2. Written(c) \in LinkTypes BY <1>a, WrittenTyped
            <3>3. \A l \in Links : l # call[c].link => link'[l] = link[l] /\ rows'[l] = rows[l]
                  BY <1>a, <1>21, <2>4 DEF ApplyToInvoice, TypeOK
            <3>4. /\ link'[call[c].link].applied /\ link'[call[c].link].status # "none"
                  /\ rows'[call[c].link] = 1
                  BY <1>a, <1>21, <2>1, <2>2, <2>4, <3>2
                  DEF ApplyToInvoice, TypeOK, LinkTypes, IInv, LinksInv, AppliedIsRecorded
            <3>5. AppliedIsMade'
                  BY <3>3, <3>4 DEF IInv, LinksInv, AppliedIsMade
            <3>6. AppliedIsRecorded'
                  BY <3>3, <3>4 DEF IInv, LinksInv, AppliedIsRecorded
            <3> QED BY <3>1, <3>5, <3>6 DEF LinksInv, AppliedNeedsInvoice
      <2> QED BY <2>3, <2>4
<1>22. ASSUME NEW c \in Calls, NoInvoiceYet(c) PROVE LinksInv'
      BY <1>22, LinksKept DEF NoInvoiceYet, money
<1>23. ASSUME NEW c \in Calls, SavePaid(c) PROVE LinksInv'
      <2>1. /\ call[c].link \in Links /\ Written(c).status # "none"
            /\ Written(c).applied = link[call[c].link].applied
            BY <1>a, <1>23, WrittenMade DEF SavePaid, Settling, Is
      <2>2. \A l \in Links : link'[l] = IF l = call[c].link THEN Written(c) ELSE link[l]
            BY <1>a, <1>23 DEF SavePaid, TypeOK
      <2> QED BY <1>23, <2>1, <2>2, LinksKept DEF SavePaid
<1>24. ASSUME NEW c \in Calls, Crash(c) PROVE LinksInv'
      BY <1>24, LinksKept DEF Crash, money
<1>q. QED BY <1>1, <1>2, <1>3, <1>4, <1>5, <1>6, <1>7, <1>8, <1>9, <1>10, 
             <1>11, <1>12, <1>13, <1>14, <1>15, <1>16, <1>17, <1>18, <1>19, 
             <1>20, <1>21, <1>22, <1>23, <1>24 DEF Next, Begin, Continue

\* No advance is left out that was not, when no invoice becomes one with
\* something due and no paid link is left unapplied that was not.
LEMMA LandsKept ==
    ASSUME IInv, missed \subseteq missed', Unapplied' \subseteq Unapplied \cup missed',
           (invoice'.status # "none" /\ order'.status = "delivered" /\ Outstanding(invoice') > 0)
               => invoice.status # "none" /\ order.status = "delivered" /\ Outstanding(invoice) > 0
    PROVE  AdvanceLands'
BY DEF IInv, AdvanceLands

\* A step leaves out no advance but those it takes note of.
LEMMA LandsStep == ASSUME IInv, [Next]_vars PROVE AdvanceLands'
<1>a. IInv /\ TypeOK BY DEF IInv
<1>1. CASE UNCHANGED vars
      BY <1>1, LandsKept DEF vars, docs, money, Unapplied, Paid
<1>2. CASE ConfigureGst
      BY <1>2, LandsKept DEF ConfigureGst, docs, money, Unapplied, Paid
<1>3. CASE Depart
      BY <1>a, <1>3, LandsKept DEF Depart, TypeOK, OrderTypes, money, Unapplied, Paid
<1>4. ASSUME NEW q \in 1 .. MaxQty, Amend(q) PROVE AdvanceLands'
      BY <1>a, <1>4, LandsKept DEF Amend, TypeOK, OrderTypes, money, Unapplied, Paid
<1>5. ASSUME NEW l \in Links, NEW to \in {"paid"} \cup Closings, AtGateway(l, to)
      PROVE AdvanceLands'
      BY <1>5, LandsKept DEF AtGateway, docs, money, Unapplied, Paid
<1>6. ASSUME NEW c \in Calls, NEW charge \in {0, Fee}, ApproveCancellation(c, charge)
      PROVE AdvanceLands'
      BY <1>a, <1>6, LandsKept DEF ApproveCancellation, TypeOK, OrderTypes, money, Unapplied, Paid
<1>7. ASSUME NEW c \in Calls, NEW q \in 0 .. MaxQty, NEW amount \in 0 .. MaxQty, Deliver(c, q, amount)
      PROVE AdvanceLands'
      BY <1>7, LandsKept DEF Deliver, docs, money, Unapplied, Paid
<1>8. ASSUME NEW c \in Calls, Reissue(c) PROVE AdvanceLands'
      BY <1>8, LandsKept DEF Reissue, docs, money, Unapplied, Paid
<1>9. ASSUME NEW c \in Calls, NEW amount \in 1 .. MaxQty + Fee, RecordPayment(c, amount)
      PROVE AdvanceLands'
      BY <1>9, LandsKept DEF RecordPayment, docs, money, Unapplied, Paid
<1>10. ASSUME NEW c \in Calls, NEW amount \in 1 .. MaxQty + Fee, AskForLink(c, amount)
      PROVE AdvanceLands'
      BY <1>10, LandsKept DEF AskForLink, docs, money, Unapplied, Paid
<1>11. ASSUME NEW c \in Calls, NEW l \in Links, HearOf(c, l)
      PROVE AdvanceLands'
      BY <1>11, LandsKept DEF HearOf, docs, money, Unapplied, Paid
<1>12. ASSUME NEW c \in Calls, DeliverCommits(c) PROVE AdvanceLands'
      <2>1. invoice'.status = "none"
            BY <1>12 DEF DeliverCommits, IInv, OrderInv, InvoiceNeedsOrder, DeliverFits, Over, money
      <2> QED BY <2>1 DEF AdvanceLands
<1>13. ASSUME NEW c \in Calls, Generate(c) PROVE AdvanceLands'
      BY <1>13, LandsKept DEF Generate, docs, money, Unapplied, Paid
<1>14. ASSUME NEW c \in Calls, NothingLeftDue(c) PROVE AdvanceLands'
      BY <1>14, LandsKept DEF NothingLeftDue, docs, money, Unapplied, Paid
<1>15. ASSUME NEW c \in Calls, Issue(c) PROVE AdvanceLands'
      <2>1. CASE invoice.status # "none"
            BY <1>15, <2>1, LandsKept DEF Issue, money, docs, Unapplied, Paid
      <2>2. CASE invoice.status = "none"
            <3>1. SUFFICES ASSUME order.status = "delivered", Outstanding(invoice') > 0
                           PROVE  Unapplied' \subseteq missed'
                  BY <1>15 DEF AdvanceLands, Issue, docs
            <3>2. /\ call[c].sum \in Nat /\ call[c].sum <= Bill
                  /\ Bill \in Nat /\ collected \in Nat
                  BY <1>a, <1>15, JobIsTyped, BoundsAssumption
                  DEF Issue, IInv, OrderInv, IssueFits, CallTypes, TypeOK, OrderTypes, Bill
            <3>3. call[c].sum < Bill
                  <4>1. CASE call[c].sum = Bill
                        <5>1. AtTheDoor(Bill - call[c].sum) = 0
                              BY <3>2, <4>1 DEF AtTheDoor, Lesser
                        <5>2. invoice'.paid = invoice'.total
                              BY <1>15, <2>2, <3>2, <4>1, <5>1 DEF Issue, NewInvoice
                        <5>3. Outstanding(invoice') = 0
                              BY <1>15, <2>2, <3>2, <5>2 DEF Outstanding, Issue, NewInvoice
                        <5> QED BY <3>1, <5>3
                  <4> QED BY <3>2, <4>1
            <3>4. call[c].saw \subseteq call[c].done
                  BY <1>15, <3>1, <3>3 DEF Issue, IInv, OrderInv, IssueFits
            <3>5. Unapplied' \subseteq Unapplied \ call[c].done
                  BY <1>a, <1>15, <2>2 DEF Issue, TypeOK, LinkTypes, Unapplied, Paid
            <3> QED BY <1>15, <2>2, <3>4, <3>5 DEF Issue
      <2> QED BY <2>1, <2>2
<1>16. ASSUME NEW c \in Calls, NEW l \in Links, TakeAdvance(c, l)
      PROVE AdvanceLands'
      BY <1>16, LandsKept DEF TakeAdvance, docs, money, Unapplied, Paid
<1>17. ASSUME NEW c \in Calls, PaymentRecorded(c) PROVE AdvanceLands'
      <2>1. Outstanding(invoice) > 0 /\ invoice.status # "none"
            BY <1>a, <1>17, JobIsTyped
            DEF PaymentRecorded, IInv, InvoiceInv, OfficeFits, Outstanding, TypeOK, InvoiceTypes, CallTypes
      <2> QED BY <1>17, <2>1, LandsKept DEF PaymentRecorded, docs, Unapplied, Paid
<1>18. ASSUME NEW c \in Calls, AddLink(c) PROVE AdvanceLands'
      <2>1. Unapplied' \subseteq Unapplied
            BY <1>a, <1>18 DEF AddLink, TypeOK, Unapplied, Paid
      <2> QED BY <1>18, <2>1, LandsKept DEF AddLink, docs
<1>19. ASSUME NEW c \in Calls, GatewayFails(c) PROVE AdvanceLands'
      BY <1>19, LandsKept DEF GatewayFails, docs, money, Unapplied, Paid
<1>20. ASSUME NEW c \in Calls, NothingToApply(c) PROVE AdvanceLands'
      <2>1. /\ call[c].link \in Links
            /\ Written(c).applied = link[call[c].link].applied
            /\ call[c].copy = link[call[c].link]
            BY <1>a, <1>20, WrittenMade DEF NothingToApply, Settling, Is, IInv, RowsInv, CopyIsRow
      <2>2. \A l \in Links : link'[l] = IF l = call[c].link THEN Written(c) ELSE link[l]
            BY <1>a, <1>20 DEF NothingToApply, TypeOK
      <2>3. Unapplied' \subseteq Unapplied
            BY <1>20, <2>1, <2>2 DEF NothingToApply, Applicable, Unapplied, Paid
      <2> QED BY <1>20, <2>3, LandsKept DEF NothingToApply, docs
<1>21. ASSUME NEW c \in Calls, ApplyToInvoice(c) PROVE AdvanceLands'
      <2>1. CASE ~(Outstanding(invoice) > 0)
            BY <1>21, <2>1 DEF ApplyToInvoice, AdvanceLands
      <2>2. CASE Outstanding(invoice) > 0
            <3>1. Written(c) \in LinkTypes BY <1>a, WrittenTyped
            <3>2. Unapplied' \subseteq Unapplied
                  BY <1>a, <1>21, <2>2, <3>1 DEF ApplyToInvoice, TypeOK, LinkTypes, Unapplied, Paid
            <3> QED BY <1>21, <2>2, <3>2, LandsKept DEF ApplyToInvoice, docs
      <2> QED BY <2>1, <2>2
<1>22. ASSUME NEW c \in Calls, NoInvoiceYet(c) PROVE AdvanceLands'
      BY <1>22, LandsKept DEF NoInvoiceYet, docs, money, Unapplied, Paid
<1>23. ASSUME NEW c \in Calls, SavePaid(c) PROVE AdvanceLands'
      <2>1. /\ call[c].link \in Links
            /\ Written(c).applied = link[call[c].link].applied
            /\ call[c].copy = link[call[c].link]
            BY <1>a, <1>23, WrittenMade DEF SavePaid, Settling, Is, IInv, RowsInv, CopyIsRow
      <2>2. \A l \in Links : link'[l] = IF l = call[c].link THEN Written(c) ELSE link[l]
            BY <1>a, <1>23 DEF SavePaid, TypeOK
      <2>3. CASE invoice.status = "none"
            BY <1>23, <2>3 DEF SavePaid, AdvanceLands
      <2>4. CASE invoice.status # "none"
            <3>1. missed' = missed \cup {call[c].link}
                  BY <1>23, <2>4 DEF SavePaid
            <3>2. Unapplied' \subseteq Unapplied \cup missed'
                  BY <2>1, <2>2, <3>1 DEF Unapplied, Paid
            <3> QED BY <1>23, <3>1, <3>2, LandsKept DEF SavePaid, docs
      <2> QED BY <2>3, <2>4
<1>24. ASSUME NEW c \in Calls, Crash(c) PROVE AdvanceLands'
      BY <1>24, LandsKept DEF Crash, docs, money, Unapplied, Paid
<1>q. QED BY <1>1, <1>2, <1>3, <1>4, <1>5, <1>6, <1>7, <1>8, <1>9, <1>10, 
             <1>11, <1>12, <1>13, <1>14, <1>15, <1>16, <1>17, <1>18, <1>19, 
             <1>20, <1>21, <1>22, <1>23, <1>24 DEF Next, Begin, Continue

-----------------------------------------------------------------------------
\* A state in which no call runs, no link is made and no invoice is there.
LEMMA Start == Init => IInv
<1> SUFFICES ASSUME Init PROVE IInv OBVIOUS
<1>1. \A c \in Calls : call[c].op = "idle" BY DEF Init, Idle
<1>2. \A l \in Links : link[l].status = "none" /\ ~link[l].applied /\ rows[l] = 0
      BY DEF Init, NoLink
<1>3. TypeOK
  <2>1. order \in OrderTypes
        BY BoundsAssumption DEF Init, OrderTypes
  <2>2. invoice \in InvoiceTypes
        BY DEF Init, InvoiceTypes, InvoiceStatuses, NoInvoice
  <2>3. link \in [Links -> LinkTypes] /\ rows \in [Links -> Nat]
        BY RestTyped DEF Init
  <2>4. call \in [Calls -> CallTypes]
        BY RestTyped DEF Init
  <2>5. gateway \in [Links -> GatewayStatuses] /\ crashes \in 0 .. MaxCrashes
        BY BoundsAssumption DEF Init, GatewayStatuses
  <2> QED BY <2>1, <2>2, <2>3, <2>4, <2>5 DEF Init, TypeOK
<1>4. RowsInv
      BY <1>1 DEF RowsInv, CopyIsRow, HeldByOne, TakenAreMade, Settling, Is
<1>5. OrderInv
      BY <1>1 DEF Init, NoInvoice, OrderInv, DeliverFits, IssueFits, InvoiceNeedsOrder, Is
<1>6. InvoiceInv
      BY <1>1 DEF Init, NoInvoice, InvoiceInv, InvoiceFits, OfficeFits, Is
<1>7. LinksInv
      BY <1>2 DEF LinksInv, AppliedNeedsInvoice, AppliedIsMade, AppliedIsRecorded
<1>8. AdvanceLands
      BY DEF Init, NoInvoice, AdvanceLands
<1> QED BY <1>3, <1>4, <1>5, <1>6, <1>7, <1>8 DEF IInv

\* The invariant: in every state that can be reached, locked rows are as they
\* were read, and orders, invoices and links agree.
THEOREM Invariance == Spec => []IInv
<1>1. IInv /\ [Next]_vars => IInv'
      BY TypeStep, RowsStep, OrderStep, InvoiceStep, LinksStep, LandsStep DEF IInv
<1> QED BY Start, <1>1, PTL DEF Spec

\* Every variable keeps its type, whatever calls, payments and crashes there are.
THEOREM TypeCorrect == Spec => []TypeOK
<1>1. IInv => TypeOK BY DEF IInv
<1> QED BY Invariance, <1>1, PTL

\* However many pay at once, by link, at the door or at the office: an invoice
\* never has more payments than its total, and is "paid" exactly if they reach it.
THEOREM InvoiceNeverOverpaid == Spec => []NeverOverpaid
<1>1. IInv => NeverOverpaid BY DEF IInv, InvoiceInv, InvoiceFits, NeverOverpaid
<1> QED BY Invariance, <1>1, PTL

\* However often and by whomever a payment is reported, there is one payment row
\* for an applied link and none for another.
THEOREM LinkAppliedOnce == Spec => []AppliedIsRecorded
<1>1. IInv => AppliedIsRecorded BY DEF IInv, LinksInv
<1> QED BY Invariance, <1>1, PTL

\* A paid link is on the invoice of the delivery as long as something is due
\* there, unless it was reported while that invoice was made.
THEOREM AdvancesLand == Spec => []AdvanceLands
<1>1. IInv => AdvanceLands BY DEF IInv
<1> QED BY Invariance, <1>1, PTL
=============================================================================
