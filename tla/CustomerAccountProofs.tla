------------------------- MODULE CustomerAccountProofs -------------------------
(***************************************************************************)
(* For any customer: his ledger stays in lockstep with its rows, each      *)
(* delivery reaches it once, and neither limit is passed unseen.           *)
(***************************************************************************)
EXTENDS CustomerAccount, SumTheorems, TLAPS

\* A call on an order has it to itself.
OwnOrder ==
    \A c, d \in Calls : c # d /\ call[c].order = call[d].order => call[c].order = NoOrder

\* What the stage of a call says of it and of its order
Stage(c) ==
    /\ call[c].op = "idle" => call[c].order = NoOrder
    /\ call[c].op \in {"check", "save"} =>
         /\ call[c].order \in Orders
         /\ order[call[c].order].status # "delivered"
         /\ call[c].line \in Bookings
    /\ call[c].op = "deliver" =>
         /\ call[c].order \in Orders /\ call[c].job = "deliver"
         /\ order[call[c].order].status = "out_for_delivery"
         /\ call[c].line \in Handovers
    /\ call[c].op = "invoice" => call[c].order \in Orders /\ call[c].job = "deliver"
    /\ call[c].op \in {"rows", "post"} => call[c].ledger \in Ledgers
    /\ call[c].op \in {"ledger", "rows", "post"} => call[c].job \in {"deliver", "adjust"}

\* ... of one that is at the ledger
AtLedger(c) ==
    call[c].op \in {"ledger", "rows", "post"} =>
      /\ call[c].job = "adjust" =>
           call[c].order = NoOrder /\ call[c].line \in Corrections
      /\ call[c].job = "deliver" =>
           /\ call[c].order \in Orders \ lost
           /\ order[call[c].order].status = "delivered"
           /\ call[c].line \in Handovers
           /\ call[c].op # "ledger" => Moved(call[c].order)

LostAreDelivered == \A o \in lost : order[o].status = "delivered"

\* What a call is about to write is the balance with its change.
WritesTheSum ==
    \A c \in Calls :
        call[c].op = "post"
          => call[c].delta = ledger[call[c].ledger].balance[TypeOf(c)] + Delta(c)

\* The lock on the ledger row: one call at a time is about to write.
OneWriter ==
    \A c, d \in Calls :
        c # d /\ call[c].op = "post" /\ call[d].op = "post" => call[c].ledger # call[d].ledger

-----------------------------------------------------------------------------
(* Types *)

LEMMA IdleType == Idle \in CallStates
  BY DEF Idle, CallStates, Lines

\* The calls other than c go on with what they had.
OthersStay(c) ==
    \A d \in Calls \ {c} :
        /\ call'[d].op = call[d].op /\ call'[d].job = call[d].job
        /\ call'[d].order = call[d].order /\ call'[d].line = call[d].line
        /\ call'[d].ledger = call[d].ledger /\ call'[d].delta = call[d].delta

LEMMA Calling ==
  ASSUME TypeOK, NEW c \in Calls, NEW state \in CallStates, Becomes(c, state)
  PROVE  /\ call' \in [Calls -> CallStates] /\ call'[c] = state
         /\ OthersStay(c)
  BY DEF TypeOK, Becomes, OthersStay

LEMMA Seeing ==
  ASSUME TypeOK, NEW c \in Calls, NEW state \in CallStates, NEW ops, BecomesSeen(c, state, ops)
  PROVE  /\ call' \in [Calls -> CallStates] /\ call'[c] = state
         /\ OthersStay(c)
  <1>1. \A d \in Calls : call[d] \in CallStates
    BY DEF TypeOK
  <1>2. call' = [d \in Calls |-> IF d = c THEN state
                                 ELSE [call[d] EXCEPT !.blind = @ \/ call[d].op \in ops]]
    BY DEF BecomesSeen
  <1>3. ASSUME NEW d \in Calls \ {c}
        PROVE  /\ call'[d] \in CallStates
               /\ call'[d].op = call[d].op /\ call'[d].job = call[d].job
               /\ call'[d].order = call[d].order /\ call'[d].line = call[d].line
               /\ call'[d].ledger = call[d].ledger /\ call'[d].delta = call[d].delta
    <2>1. call'[d] = [call[d] EXCEPT !.blind = call[d].blind \/ call[d].op \in ops]
      BY <1>2
    <2> QED
      BY <1>1, <2>1 DEF CallStates
  <1> QED
    BY <1>2, <1>3 DEF OthersStay

\* The steps of a call that leave every order, ledger and counter alone
CallOnly == UNCHANGED <<order, ledger, ghosts, counters>>

LEMMA CallOnlyType ==
  ASSUME TypeOK, NEW c \in Calls, NEW state \in CallStates, Becomes(c, state), CallOnly
  PROVE  TypeOK'
  BY Calling DEF TypeOK, CallOnly, ghosts, counters

\* One order has a new status; the others stay.
StatusWritten(o, status) ==
    order'[o].status = status /\ \A p \in Orders \ {o} : order'[p] = order[p]

LEMMA OrderSaved ==
  ASSUME order \in [Orders -> OrderRows], NEW o \in Orders, NEW status \in Statuses,
         NEW type \in Types, NEW asked \in Nat,
         order' = [order EXCEPT ![o].status = status, ![o].type = type, ![o].asked = asked]
  PROVE  order' \in [Orders -> OrderRows] /\ StatusWritten(o, status)
  <1>1. order'[o] = [order[o] EXCEPT !.status = status, !.type = type, !.asked = asked]
    OBVIOUS
  <1>2. order[o] \in OrderRows
    OBVIOUS
  <1>3. order'[o] \in OrderRows
    BY <1>1, <1>2 DEF OrderRows
  <1>4. \A p \in Orders \ {o} : order'[p] = order[p]
    OBVIOUS
  <1>5. order'[o].status = status
    BY <1>1, <1>2 DEF OrderRows
  <1>6. order' \in [Orders -> OrderRows]
    BY <1>3, <1>4
  <1> QED
    BY <1>4, <1>5, <1>6 DEF StatusWritten

\* One order is delivered; the others stay.
HandedOver(o, got, back) ==
    /\ order'[o].status = "delivered" /\ order'[o].got = got /\ order'[o].back = back
    /\ \A p \in Orders \ {o} : order'[p] = order[p]

LEMMA DeliverySaved ==
  ASSUME order \in [Orders -> OrderRows], NEW o \in Orders,
         NEW got \in Nat, NEW back \in Nat, NEW owed \in Nat,
         order' = [order EXCEPT ![o].status = "delivered", ![o].got = got,
                                ![o].back = back, ![o].owed = owed]
  PROVE  order' \in [Orders -> OrderRows] /\ HandedOver(o, got, back)
  <1>1. order'[o] = [order[o] EXCEPT !.status = "delivered", !.got = got, !.back = back, !.owed = owed]
    OBVIOUS
  <1>2. order[o] \in OrderRows /\ "delivered" \in Statuses
    BY DEF Statuses
  <1>3. order'[o] \in OrderRows
    BY <1>1, <1>2 DEF OrderRows
  <1>4. \A p \in Orders \ {o} : order'[p] = order[p]
    OBVIOUS
  <1>5. order'[o].status = "delivered" /\ order'[o].got = got /\ order'[o].back = back
    BY <1>1, <1>2 DEF OrderRows
  <1>6. order' \in [Orders -> OrderRows]
    BY <1>3, <1>4
  <1> QED
    BY <1>4, <1>5, <1>6 DEF HandedOver

\* What the ledger, and the calls, know of an order
SameToLedger ==
    \A o \in Orders : /\ order'[o].status = order[o].status /\ order'[o].type = order[o].type
                     /\ order'[o].got = order[o].got /\ order'[o].back = order[o].back

LEMMA OrderBilled ==
  ASSUME order \in [Orders -> OrderRows], NEW o \in Orders, Billed(o)
  PROVE  order' \in [Orders -> OrderRows] /\ SameToLedger
  BY DEF Billed, OrderRows, SameToLedger

\* One balance row and what was added to it; the others stay.
RowPosted(k, t, balance, delta) ==
    /\ ledger'[k].balance[t] = balance /\ ledger'[k].net[t] = ledger[k].net[t] + delta
    /\ \A s \in Types \ {t} : /\ ledger'[k].balance[s] = ledger[k].balance[s]
                            /\ ledger'[k].net[s] = ledger[k].net[s]
    /\ \A j \in Ledgers \ {k} : ledger'[j] = ledger[j]

LEMMA LedgerPosted ==
  ASSUME ledger \in [Ledgers -> LedgerRows], NEW k \in Ledgers, NEW t \in Types,
         NEW balance \in Int, NEW delta \in Int,
         ledger' = [ledger EXCEPT ![k].made = TRUE, ![k].balance[t] = balance,
                                  ![k].net[t] = @ + delta]
  PROVE  ledger' \in [Ledgers -> LedgerRows] /\ RowPosted(k, t, balance, delta)
  <1>1. ledger[k] \in LedgerRows /\ ledger[k].net[t] + delta \in Int
    BY DEF LedgerRows
  <1> DEFINE sum == ledger[k].net[t] + delta
  <1>2. ledger'[k] = [ledger[k] EXCEPT !.made = TRUE, !.balance[t] = balance, !.net[t] = sum]
    BY <1>1 DEF LedgerRows
  <1> HIDE DEF sum
  <1>3. ledger'[k].made = TRUE /\ ledger'[k].balance = [ledger[k].balance EXCEPT ![t] = balance]
        /\ ledger'[k].net = [ledger[k].net EXCEPT ![t] = sum]
    BY <1>1, <1>2 DEF LedgerRows
  <1>4. ledger'[k] \in LedgerRows
    BY <1>1, <1>2, <1>3 DEF LedgerRows, sum
  <1>5. \A j \in Ledgers \ {k} : ledger'[j] = ledger[j]
    OBVIOUS
  <1>6. ledger' \in [Ledgers -> LedgerRows]
    BY <1>4, <1>5
  <1> QED
    BY <1>1, <1>3, <1>5, <1>6 DEF LedgerRows, RowPosted, sum

LEMMA HeldType ==
  ASSUME TypeOK, NEW k \in Ledgers
  PROVE  BalancesOf(k) \in [Types -> Int]
  BY DEF TypeOK, BalancesOf, LedgerRows

LEMMA LedgerForType ==
  ASSUME NEW c \in Calls
  PROVE  LedgerFor(c) \subseteq Ledgers
  BY DEF LedgerFor, Made

LEMMA CheckedType ==
  ASSUME NEW o \in Orders, NEW line \in Bookings, NEW held \in [Types -> Int],
         NEW blind \in BOOLEAN, NEW job \in {"book", "chat", "amend", "confirm"}
  PROVE  [Idle EXCEPT !.op = "check", !.job = job, !.order = o, !.line = line,
                      !.held = held, !.blind = blind] \in CallStates
  <1> line \in Lines
    BY DEF Lines
  <1> QED
    BY IdleType DEF CallStates

LEMMA StartCheckType ==
  ASSUME TypeOK, NEW c \in Calls, NEW o \in Orders, NEW line \in Bookings,
         NEW job \in {"book", "chat", "amend", "confirm"}, StartCheck(c, job, o, line)
  PROVE  TypeOK'
  <1>1. PICK k \in LedgerFor(c) :
          Becomes(c, [Idle EXCEPT !.op = "check", !.job = job, !.order = o, !.line = line,
                                  !.held = BalancesOf(k), !.blind = Incomplete])
    BY DEF StartCheck
  <1>2. BalancesOf(k) \in [Types -> Int]
    BY LedgerForType, HeldType
  <1>3. Incomplete \in BOOLEAN
    BY DEF Incomplete
  <1>4. CallOnly
    BY DEF StartCheck, CallOnly
  <1> HIDE DEF Incomplete, BalancesOf
  <1> QED
    BY <1>1, <1>2, <1>3, <1>4, CheckedType, CallOnlyType

LEMMA OrderStays ==
  ASSUME TypeOK, NEW o \in Orders, NEW to \in Statuses, NEW from, Moves(o, from, to)
  PROVE  TypeOK'
  BY DEF TypeOK, OrderRows, Moves, ghosts, counters

LEMMA RowType ==
  ASSUME TypeOK, NEW c \in Calls, Stage(c), AtLedger(c), call[c].op \in {"ledger", "rows", "post"}
  PROVE  TypeOf(c) \in Types /\ Delta(c) \in Int
  BY DEF TypeOK, OrderRows, Stage, AtLedger, TypeOf, Delta, Corrections, Handovers

LEMMA TypeStep ==
  ASSUME TypeOK, Next, \A c \in Calls : Stage(c) /\ AtLedger(c)
  PROVE  TypeOK'
  <1> USE BoundsAssumption
  <1>1. \A c \in Calls : call[c] \in CallStates
    BY DEF TypeOK
  <1>2. ASSUME NEW c \in Calls, AtTheOffice(c)
        PROVE  TypeOK'
    <2>1. ASSUME NEW o \in Orders, NEW t \in Types, NEW q \in Positive,
                 CreateOrder(c, o, t, q) \/ PlaceOrder(c, o, t, q) \/ AmendOrder(c, o, t, q)
          PROVE  TypeOK'
      <3>1. [type |-> t, asked |-> q] \in Bookings
        BY DEF Bookings, Positive
      <3> QED
        BY <2>1, <3>1, StartCheckType DEF CreateOrder, PlaceOrder, AmendOrder
    <2>2. ASSUME NEW o \in Orders, ConfirmOrder(c, o)
          PROVE  TypeOK'
      <3>1. [type |-> order[o].type, asked |-> order[o].asked] \in Bookings
        BY DEF TypeOK, OrderRows, Bookings
      <3> QED
        BY <2>2, <3>1, StartCheckType DEF ConfirmOrder
    <2>3. ASSUME NEW t \in Types, NEW delta \in Deltas, AdjustLedgerBalance(c, t, delta)
          PROVE  TypeOK'
      <3>1. [type |-> t, delta |-> delta] \in Lines
        BY DEF Lines, Corrections
      <3>2. [Idle EXCEPT !.op = "ledger", !.job = "adjust",
                         !.line = [type |-> t, delta |-> delta]] \in CallStates
        BY <3>1, IdleType DEF CallStates
      <3> QED
        BY <2>3, <3>2, Calling DEF AdjustLedgerBalance, TypeOK, ghosts
    <2> QED
      BY <1>2, <2>1, <2>2, <2>3 DEF AtTheOffice
  <1>3. ASSUME NEW c \in Calls, Goes(c)
        PROVE  TypeOK'
    <2>1. CASE CheckLimits(c)
      <3>1. [call[c] EXCEPT !.op = "save"] \in CallStates
        BY <1>1 DEF CallStates
      <3> QED
        BY <2>1, <3>1, IdleType, CallOnlyType DEF CheckLimits, CallOnly
    <2>2. CASE SaveOrder(c)
      <3>1. /\ call[c].order \in Orders /\ call[c].line.type \in Types
            /\ call[c].line.asked \in Nat
        BY <2>2 DEF SaveOrder, Is, Stage, Bookings
      <3>2. StatusSaved(c) \in Statuses
        BY <3>1 DEF StatusSaved, TypeOK, OrderRows, Statuses, Open
      <3>3. order' \in [Orders -> OrderRows]
        BY <2>2, <3>1, <3>2, OrderSaved DEF SaveOrder, TypeOK
      <3> QED
        BY <2>2, <3>3, IdleType, Calling DEF SaveOrder, TypeOK, ghosts, counters
    <2>3. CASE SaveDelivery(c)
      <3>1. /\ call[c].order \in Orders /\ call[c].line.got \in Nat
            /\ call[c].line.back \in Nat /\ call[c].line.owed \in Nat
        BY <2>3 DEF SaveDelivery, Is, Stage, Handovers
      <3>2. order' \in [Orders -> OrderRows]
        BY <2>3, <3>1, DeliverySaved DEF SaveDelivery, TypeOK
      <3>3. [call[c] EXCEPT !.op = "ledger"] \in CallStates
        BY <1>1 DEF CallStates
      <3> QED
        BY <2>3, <3>2, <3>3, Seeing DEF SaveDelivery, TypeOK, ghosts, counters
    <2>4. CASE NothingToPost(c)
      <3>1. [call[c] EXCEPT !.op = "invoice"] \in CallStates
        BY <1>1 DEF CallStates
      <3> QED
        BY <2>4, <3>1, CallOnlyType DEF NothingToPost, CallOnly
    <2>5. ASSUME NEW k \in Ledgers, ReadLedger(c, k)
          PROVE  TypeOK'
      <3>1. [call[c] EXCEPT !.op = "rows", !.ledger = k, !.held = BalancesOf(k)] \in CallStates
        BY <1>1, HeldType DEF CallStates
      <3> QED
        BY <2>5, <3>1, CallOnlyType DEF ReadLedger, CallOnly
    <2>6. ASSUME NEW k \in Ledgers, Raise(c, k)
          PROVE  TypeOK'
      BY <2>6, <1>1, IdleType, Calling DEF Raise, Is, Stage, AtLedger, TypeOK, counters
    <2>7. CASE AddRows(c)
      <3>1. call[c].ledger \in Ledgers /\ TypeOf(c) \in Types /\ Delta(c) \in Int
        BY <2>7, RowType DEF AddRows, Is, Stage
      <3>2. Base(c) \in Int
        BY <3>1, HeldType DEF Base
      <3> DEFINE sum == Base(c) + Delta(c)
      <3>3. sum \in Int
        BY <3>1, <3>2
      <3> HIDE DEF sum
      <3>4. [call[c] EXCEPT !.op = "post", !.delta = sum] \in CallStates
        BY <1>1, <3>3 DEF CallStates
      <3> QED
        BY <2>7, <3>1, <3>4, Calling DEF AddRows, TypeOK, ghosts, counters, sum
    <2>8. CASE Post(c)
      <3>1. call[c].ledger \in Ledgers /\ TypeOf(c) \in Types /\ Delta(c) \in Int
            /\ call[c].delta \in Int
        BY <2>8, <1>1, RowType DEF Post, Is, Stage, CallStates
      <3>2. Afterwards(c) \in CallStates
        BY <1>1, IdleType DEF Afterwards, CallStates
      <3>3. ledger' \in [Ledgers -> LedgerRows]
        BY <2>8, <3>1, LedgerPosted DEF Post, TypeOK
      <3>4. posted' \in [Orders -> Nat]
        <4>1. posted \in [Orders -> Nat]
          BY DEF TypeOK
        <4>2. CASE call[c].job = "deliver"
          <5>1. call[c].order \in Orders
            BY <2>8, <4>2 DEF Post, Is, AtLedger
          <5>2. posted' = [posted EXCEPT ![call[c].order] = @ + 1]
            BY <2>8, <4>2 DEF Post
          <5> QED
            BY <4>1, <5>1, <5>2
        <4>3. CASE call[c].job # "deliver"
          BY <2>8, <4>1, <4>3 DEF Post
        <4> QED
          BY <4>2, <4>3
      <3> QED
        BY <2>8, <3>2, <3>3, <3>4, Seeing DEF Post, TypeOK, counters
    <2>9. CASE GenerateInvoice(c)
      <3>1. order' \in [Orders -> OrderRows]
        BY <2>9, OrderBilled DEF GenerateInvoice, Is, Stage, TypeOK
      <3> QED
        BY <2>9, <3>1, IdleType, Calling DEF GenerateInvoice, TypeOK, ghosts, counters
    <2>10. CASE Crash(c)
      BY <2>10, IdleType, Calling DEF Crash, Stage, AtLedger, TypeOK
    <2> QED
      BY <1>3, <2>1, <2>2, <2>3, <2>4, <2>5, <2>6, <2>7, <2>8, <2>9, <2>10 DEF Goes
  <1>4. ASSUME NEW c \in Calls, NEW o \in Orders, NEW got \in Quantities,
               NEW back \in Quantities, NEW paid \in Quantities,
               DeliverOrder(c, o, got, back, paid)
        PROVE  TypeOK'
    <2>1. [got |-> got, back |-> back, owed |-> got - paid] \in Lines
      BY <1>4 DEF DeliverOrder, Lines, Handovers
    <2>2. (Unbilled # {}) \in BOOLEAN
      OBVIOUS
    <2>3. [Idle EXCEPT !.op = "deliver", !.job = "deliver", !.order = o,
                       !.line = [got |-> got, back |-> back, owed |-> got - paid],
                       !.blind = Unbilled # {}] \in CallStates
      BY <2>1, <2>2, IdleType DEF CallStates
    <2> QED
      BY <1>4, <2>3, CallOnlyType DEF DeliverOrder, CallOnly
  <1>5. ASSUME NEW o \in Orders,
               Depart(o) \/ FailDelivery(o) \/ RescheduleOrder(o) \/ CancelOrder(o)
        PROVE  TypeOK'
    BY <1>5, OrderStays DEF Depart, FailDelivery, RescheduleOrder, CancelOrder, Statuses, Open
  <1>6. ASSUME NEW o \in Orders, Reissue(o)
        PROVE  TypeOK'
    BY <1>6 DEF Reissue, Billed, TypeOK, OrderRows, ghosts, counters
  <1>7. ASSUME NEW o \in Orders, NEW q \in Positive, RecordPayment(o, q)
        PROVE  TypeOK'
    BY <1>7 DEF RecordPayment, Positive, TypeOK, OrderRows, ghosts, counters
  <1> QED
    BY <1>2, <1>3, <1>4, <1>5, <1>6, <1>7 DEF Next

-----------------------------------------------------------------------------
(* The calls and their rows *)

\* IInv but for its type and for OnLedgerOnce
CallInv ==
    /\ OwnOrder /\ \A c \in Calls : Stage(c) /\ AtLedger(c)
    /\ LostAreDelivered /\ WritesTheSum /\ OneWriter /\ LedgerInLockstep

\* A call that holds no order, or takes one that is free
TakesFreeOrder(c) ==
    \/ call'[c].order \in {NoOrder, call[c].order}
    \/ \A d \in Calls : call[d].order # call'[c].order

LEMMA OwnOrderKept ==
  ASSUME OwnOrder, NEW c \in Calls, OthersStay(c), TakesFreeOrder(c)
  PROVE  OwnOrder'
  BY DEF OwnOrder, OthersStay, TakesFreeOrder

\* A step of c that writes no ledger row leaves what the others are about.
LEMMA Elsewhere ==
  ASSUME TypeOK, CallInv, NEW c \in Calls, OthersStay(c), TakesFreeOrder(c), SameToLedger,
         UNCHANGED ledger, call'[c].op # "post", Stage(c)', AtLedger(c)',
         \/ UNCHANGED lost
         \/ /\ lost' = lost \cup {call[c].order} /\ call[c].job = "deliver"
            /\ call[c].op \in {"ledger", "rows", "post"}
  PROVE  CallInv'
  <1>1. OwnOrder'
    BY OwnOrderKept DEF CallInv
  <1>2. ASSUME NEW d \in Calls \ {c}
        PROVE  Stage(d)' /\ AtLedger(d)'
    <2>1. Stage(d) /\ AtLedger(d) /\ Stage(c) /\ AtLedger(c) /\ OwnOrder
      BY DEF CallInv
    <2>2. Stage(d)'
      BY <2>1 DEF Stage, OthersStay, SameToLedger
    <2>3. AtLedger(d)'
      BY <2>1, NamesAssumption DEF AtLedger, OwnOrder, OthersStay, SameToLedger, Moved
    <2> QED
      BY <2>2, <2>3
  <1>3. LostAreDelivered'
    BY DEF CallInv, LostAreDelivered, SameToLedger, AtLedger, TypeOK
  <1>4. ASSUME NEW d \in Calls \ {c}, call[d].op = "post"
        PROVE  TypeOf(d)' = TypeOf(d) /\ Delta(d)' = Delta(d)
    BY <1>4 DEF TypeOf, Delta, OthersStay, SameToLedger, CallInv, AtLedger
  <1>5. WritesTheSum'
    BY <1>4 DEF CallInv, WritesTheSum, OthersStay
  <1>6. OneWriter'
    BY DEF CallInv, OneWriter, OthersStay
  <1>7. LedgerInLockstep'
    BY DEF CallInv, LedgerInLockstep
  <1> QED
    BY <1>1, <1>2, <1>3, <1>5, <1>6, <1>7 DEF CallInv

\* A step of the office or on the road that no call takes
LEMMA NoCall ==
  ASSUME TypeOK, CallInv, UNCHANGED <<call, ledger, lost>>,
         \/ SameToLedger
         \/ \E o \in Orders, from \in SUBSET (Statuses \ {"delivered"}),
              to \in Statuses \ {"delivered"} : Moves(o, from, to)
  PROVE  CallInv'
  <1>1. CASE SameToLedger
    <2>1. \A c \in Calls : Stage(c)' /\ AtLedger(c)'
      BY <1>1 DEF CallInv, Stage, AtLedger, SameToLedger, Moved
    <2>2. \A c \in Calls : call[c].op = "post" => TypeOf(c)' = TypeOf(c) /\ Delta(c)' = Delta(c)
      BY <1>1 DEF TypeOf, Delta, SameToLedger, CallInv, AtLedger
    <2> QED
      BY <1>1, <2>1, <2>2 DEF CallInv, OwnOrder, LostAreDelivered, WritesTheSum, SameToLedger,
         OneWriter, LedgerInLockstep, TypeOK
  <1>2. CASE ~SameToLedger
    <2>1. PICK o \in Orders, from \in SUBSET (Statuses \ {"delivered"}),
               to \in Statuses \ {"delivered"} : Moves(o, from, to)
      BY <1>2
    <2>2. /\ order[o].status # "delivered" /\ order'[o].status # "delivered"
          /\ \A c \in Calls : call[c].order # o
          /\ \A p \in Orders \ {o} : order'[p] = order[p]
      BY <2>1 DEF Moves, Free, TypeOK, OrderRows
    <2>3. \A c \in Calls : Stage(c)' /\ AtLedger(c)'
      BY <2>2 DEF CallInv, Stage, AtLedger, Moved
    <2>4. \A c \in Calls : call[c].op = "post" => TypeOf(c)' = TypeOf(c) /\ Delta(c)' = Delta(c)
      BY <2>2 DEF TypeOf, Delta, CallInv, AtLedger
    <2> QED
      BY <2>2, <2>3, <2>4 DEF CallInv, OwnOrder, LostAreDelivered, WritesTheSum,
         OneWriter, LedgerInLockstep, TypeOK
  <1> QED
    BY <1>1, <1>2

LEMMA IdleFields ==
  /\ Idle.op = "idle" /\ Idle.job = "none" /\ Idle.order = NoOrder /\ Idle.ledger = NoLedger
  BY DEF Idle

\* c is done.
LEMMA Ends ==
  ASSUME TypeOK, CallInv, NEW c \in Calls, Becomes(c, Idle), SameToLedger,
         UNCHANGED ledger,
         \/ UNCHANGED lost
         \/ /\ lost' = lost \cup {call[c].order} /\ call[c].job = "deliver"
            /\ call[c].op \in {"ledger", "rows", "post"}
  PROVE  CallInv'
  <1>1. call'[c] = Idle /\ OthersStay(c)
    BY IdleType, Calling
  <1>2. Stage(c)' /\ AtLedger(c)' /\ TakesFreeOrder(c) /\ call'[c].op # "post"
    BY <1>1, IdleFields DEF Stage, AtLedger, TakesFreeOrder
  <1> QED
    BY <1>1, <1>2, Elsewhere

LEMMA StartCheckCalls ==
  ASSUME TypeOK, CallInv, NEW c \in Calls, NEW o \in Orders, NEW line \in Bookings,
         NEW job \in {"book", "chat", "amend", "confirm"}, StartCheck(c, job, o, line),
         order[o].status # "delivered"
  PROVE  CallInv'
  <1>1. PICK k \in LedgerFor(c) :
          Becomes(c, [Idle EXCEPT !.op = "check", !.job = job, !.order = o, !.line = line,
                                  !.held = BalancesOf(k), !.blind = Incomplete])
    BY DEF StartCheck
  <1>2. BalancesOf(k) \in [Types -> Int]
    BY LedgerForType, HeldType
  <1>3. Incomplete \in BOOLEAN
    BY DEF Incomplete
  <1> HIDE DEF Incomplete, BalancesOf
  <1> DEFINE state == [Idle EXCEPT !.op = "check", !.job = job, !.order = o, !.line = line,
                                   !.held = BalancesOf(k), !.blind = Incomplete]
  <1>4. state \in CallStates
    BY <1>2, <1>3, CheckedType
  <1>5. state.op = "check" /\ state.job = job /\ state.order = o /\ state.line = line
    BY IdleType DEF CallStates
  <1> HIDE DEF state
  <1>6. call'[c] = state /\ OthersStay(c)
    BY <1>1, <1>4, Calling DEF state
  <1>7. UNCHANGED <<order, ledger, lost>> /\ Free(o)
    BY DEF StartCheck, ghosts
  <1>8. Stage(c)' /\ AtLedger(c)' /\ TakesFreeOrder(c) /\ call'[c].op # "post"
    BY <1>5, <1>6, <1>7 DEF Stage, AtLedger, TakesFreeOrder, Free
  <1> QED
    BY <1>6, <1>7, <1>8, Elsewhere DEF SameToLedger

\* A step that rewrites the order c has, and nothing else of the ledger
LEMMA OwnOrderWritten ==
  ASSUME TypeOK, CallInv, NEW c \in Calls, OthersStay(c), UNCHANGED <<ledger, lost>>,
         call[c].order \in Orders, order[call[c].order].status # "delivered",
         \A p \in Orders \ {call[c].order} : order'[p] = order[p],
         call'[c].order \in {NoOrder, call[c].order}, call'[c].op # "post",
         Stage(c)', AtLedger(c)'
  PROVE  CallInv'
  <1> DEFINE o == call[c].order
  <1>1. OwnOrder'
    BY OwnOrderKept DEF CallInv, TakesFreeOrder
  <1>2. \A d \in Calls \ {c} : call[d].order # o
    BY NamesAssumption DEF CallInv, OwnOrder
  <1>3. ASSUME NEW d \in Calls \ {c}
        PROVE  Stage(d)' /\ AtLedger(d)'
    <2>1. Stage(d) /\ AtLedger(d)
      BY DEF CallInv
    <2>2. Stage(d)'
      BY <1>2, <2>1 DEF Stage, OthersStay
    <2>3. AtLedger(d)'
      BY <1>2, <2>1 DEF AtLedger, OthersStay, Moved
    <2> QED
      BY <2>2, <2>3
  <1>4. LostAreDelivered'
    BY DEF CallInv, LostAreDelivered, TypeOK
  <1>5. ASSUME NEW d \in Calls \ {c}, call[d].op = "post"
        PROVE  TypeOf(d)' = TypeOf(d) /\ Delta(d)' = Delta(d)
    BY <1>2, <1>5 DEF TypeOf, Delta, OthersStay, CallInv, AtLedger
  <1>6. WritesTheSum'
    BY <1>5 DEF CallInv, WritesTheSum, OthersStay
  <1>7. OneWriter'
    BY DEF CallInv, OneWriter, OthersStay
  <1>8. LedgerInLockstep'
    BY DEF CallInv, LedgerInLockstep
  <1> QED
    BY <1>1, <1>3, <1>4, <1>6, <1>7, <1>8 DEF CallInv

LEMMA AddRowsCalls ==
  ASSUME TypeOK, CallInv, NEW c \in Calls, AddRows(c)
  PROVE  CallInv'
  <1> DEFINE k == call[c].ledger
             t == TypeOf(c)
             sum == Base(c) + Delta(c)
  <1>1. /\ call[c] \in CallStates /\ call[c].op = "rows" /\ Stage(c) /\ AtLedger(c)
        /\ k \in Ledgers /\ t \in Types /\ Delta(c) \in Int
    BY RowType DEF AddRows, Is, Stage, TypeOK, CallInv
  <1>2. Base(c) = ledger[k].balance[t] /\ sum \in Int
    BY <1>1, HeldType DEF Base, BalancesOf
  <1>3. Becomes(c, [call[c] EXCEPT !.op = "post", !.delta = sum])
    BY DEF AddRows
  <1> DEFINE state == [call[c] EXCEPT !.op = "post", !.delta = sum]
  <1> HIDE DEF sum
  <1>4. /\ state \in CallStates /\ state.op = "post" /\ state.delta = sum
        /\ state.job = call[c].job /\ state.order = call[c].order
        /\ state.line = call[c].line /\ state.ledger = k
    BY <1>1, <1>2 DEF CallStates
  <1> HIDE DEF state
  <1>5. call'[c] = state /\ OthersStay(c)
    BY <1>3, <1>4, Calling DEF state
  <1>6. UNCHANGED <<order, ledger, lost>>
    BY DEF AddRows, ghosts
  <1>7. \A d \in Calls : Stage(d)' /\ AtLedger(d)'
    BY <1>1, <1>4, <1>5, <1>6 DEF CallInv, Stage, AtLedger, OthersStay, Moved
  <1>8. \A d \in Calls : TypeOf(d)' = TypeOf(d)
    BY <1>4, <1>5, <1>6 DEF TypeOf, OthersStay
  <1>9. \A d \in Calls : Delta(d)' = Delta(d)
    BY <1>4, <1>5, <1>6 DEF Delta, OthersStay
  <1>10. OwnOrder' /\ LostAreDelivered'
    BY <1>4, <1>5, <1>6 DEF CallInv, OwnOrder, OthersStay, LostAreDelivered
  <1>11. WritesTheSum'
    BY <1>1, <1>2, <1>4, <1>5, <1>6, <1>8, <1>9 DEF CallInv, WritesTheSum, OthersStay, sum
  <1>12. \A d \in Calls \ {c} : call[d].op = "post" => call[d].ledger # k
    BY DEF AddRows, LedgerIsFree, Is
  <1>13. OneWriter'
    BY <1>4, <1>5, <1>12 DEF CallInv, OneWriter, OthersStay
  <1>14. LedgerInLockstep'
    BY <1>6 DEF CallInv, LedgerInLockstep
  <1> QED
    BY <1>7, <1>10, <1>11, <1>13, <1>14 DEF CallInv

LEMMA PostCalls ==
  ASSUME TypeOK, CallInv, NEW c \in Calls, Post(c)
  PROVE  CallInv'
  <1> DEFINE k == call[c].ledger
             t == TypeOf(c)
             state == Afterwards(c)
  <1>1. /\ call[c] \in CallStates /\ call[c].op = "post" /\ Stage(c) /\ AtLedger(c)
        /\ k \in Ledgers /\ t \in Types /\ Delta(c) \in Int /\ call[c].delta \in Int
    BY RowType DEF Post, Is, Stage, TypeOK, CallInv, CallStates
  <1>2. /\ state \in CallStates
        /\ \/ state.op = "invoice" /\ state.job = "deliver" /\ state.order = call[c].order
              /\ call[c].job = "deliver"
           \/ state.op = "idle" /\ state.order = NoOrder
    BY <1>1, IdleType, IdleFields DEF Afterwards, CallStates
  <1> HIDE DEF state
  <1>3. call'[c] = state /\ OthersStay(c)
    BY <1>2, Seeing DEF Post, state
  <1>4. UNCHANGED <<order, lost>>
    BY DEF Post
  <1>5. /\ ledger'[k].balance[t] = call[c].delta
        /\ ledger'[k].net[t] = ledger[k].net[t] + Delta(c)
        /\ \A s \in Types \ {t} : /\ ledger'[k].balance[s] = ledger[k].balance[s]
                                /\ ledger'[k].net[s] = ledger[k].net[s]
        /\ \A j \in Ledgers \ {k} : ledger'[j] = ledger[j]
    <2>1. ledger \in [Ledgers -> LedgerRows]
      BY DEF TypeOK
    <2> DEFINE delta == Delta(c)
               balance == call[c].delta
    <2>2. ledger' = [ledger EXCEPT ![k].made = TRUE, ![k].balance[t] = balance,
                                   ![k].net[t] = @ + delta]
      BY DEF Post
    <2>3. k \in Ledgers /\ t \in Types /\ delta \in Int /\ balance \in Int
      BY <1>1
    <2> HIDE DEF k, t, delta, balance
    <2>4. RowPosted(k, t, balance, delta)
      BY <2>1, <2>2, <2>3, LedgerPosted
    <2> QED
      BY <2>4 DEF RowPosted, delta, balance
  <1>6. \A d \in Calls : Stage(d)' /\ AtLedger(d)'
    BY <1>1, <1>2, <1>3, <1>4 DEF CallInv, Stage, AtLedger, OthersStay, Moved
  <1>7. \A d \in Calls \ {c} : TypeOf(d)' = TypeOf(d)
    BY <1>3, <1>4 DEF TypeOf, OthersStay
  <1>8. \A d \in Calls \ {c} : Delta(d)' = Delta(d)
    BY <1>3, <1>4 DEF Delta, OthersStay
  <1>9. OwnOrder' /\ LostAreDelivered'
    BY <1>2, <1>3, <1>4 DEF CallInv, OwnOrder, OthersStay, LostAreDelivered
  <1>10. ASSUME NEW d \in Calls \ {c}, call[d].op = "post"
         PROVE  /\ ledger'[call[d].ledger].balance[TypeOf(d)]
                     = ledger[call[d].ledger].balance[TypeOf(d)]
    <2>1. call[d].ledger # k
      BY <1>1, <1>10 DEF CallInv, OneWriter
    <2>2. call[d].ledger \in Ledgers /\ TypeOf(d) \in Types
      BY <1>10, RowType DEF CallInv, Stage
    <2> QED
      BY <1>5, <2>1, <2>2
  <1>11. WritesTheSum'
    BY <1>2, <1>3, <1>4, <1>7, <1>8, <1>10 DEF CallInv, WritesTheSum, OthersStay
  <1>12. OneWriter'
    BY <1>2, <1>3 DEF CallInv, OneWriter, OthersStay
  <1>13. LedgerInLockstep'
    <2>1. ASSUME NEW j \in Ledgers, NEW s \in Types
          PROVE  ledger'[j].balance[s] = ledger'[j].net[s]
      <3>1. ledger[j].balance[s] = ledger[j].net[s]
        BY <2>1 DEF CallInv, LedgerInLockstep
      <3>2. CASE j = k /\ s = t
        <4>1. call[c].delta = ledger[k].balance[t] + Delta(c)
          BY <1>1, <2>1, <3>2 DEF CallInv, WritesTheSum
        <4> QED
          BY <1>5, <3>1, <3>2, <4>1
      <3>3. CASE j # k \/ s # t
        BY <1>5, <3>1, <3>3
      <3> QED
        BY <3>2, <3>3
    <2> QED
      BY <1>4, <2>1 DEF LedgerInLockstep
  <1> QED
    BY <1>6, <1>9, <1>11, <1>12, <1>13 DEF CallInv

LEMMA CallStep ==
  ASSUME TypeOK, CallInv, Next
  PROVE  CallInv'
  <1>1. \A c \in Calls : call[c] \in CallStates /\ Stage(c) /\ AtLedger(c)
    BY DEF TypeOK, CallInv
  <1>2. ASSUME NEW c \in Calls, AtTheOffice(c)
        PROVE  CallInv'
    <2>1. ASSUME NEW o \in Orders, NEW t \in Types, NEW q \in Positive,
                 CreateOrder(c, o, t, q) \/ PlaceOrder(c, o, t, q) \/ AmendOrder(c, o, t, q)
          PROVE  CallInv'
      <3>1. [type |-> t, asked |-> q] \in Bookings
        BY BoundsAssumption DEF Bookings, Positive
      <3> QED
        BY <2>1, <3>1, StartCheckCalls DEF CreateOrder, PlaceOrder, AmendOrder
    <2>2. ASSUME NEW o \in Orders, ConfirmOrder(c, o)
          PROVE  CallInv'
      <3>1. [type |-> order[o].type, asked |-> order[o].asked] \in Bookings
        BY DEF TypeOK, OrderRows, Bookings
      <3> QED
        BY <2>2, <3>1, StartCheckCalls DEF ConfirmOrder
    <2>3. ASSUME NEW t \in Types, NEW delta \in Deltas, AdjustLedgerBalance(c, t, delta)
          PROVE  CallInv'
      <3>1. [type |-> t, delta |-> delta] \in Corrections
        BY BoundsAssumption DEF Corrections
      <3> DEFINE state == [Idle EXCEPT !.op = "ledger", !.job = "adjust",
                                       !.line = [type |-> t, delta |-> delta]]
      <3>2. /\ state \in CallStates /\ state.op = "ledger" /\ state.job = "adjust"
            /\ state.order = NoOrder /\ state.line \in Corrections
        BY <3>1, IdleType, IdleFields DEF CallStates, Lines
      <3> HIDE DEF state
      <3>3. call'[c] = state /\ OthersStay(c)
        BY <2>3, <3>2, Calling DEF AdjustLedgerBalance, state
      <3>4. Stage(c)' /\ AtLedger(c)' /\ TakesFreeOrder(c)
        BY <3>2, <3>3 DEF Stage, AtLedger, TakesFreeOrder
      <3> QED
        BY <2>3, <3>2, <3>3, <3>4, Elsewhere DEF AdjustLedgerBalance, SameToLedger, ghosts
    <2> QED
      BY <1>2, <2>1, <2>2, <2>3 DEF AtTheOffice
  <1>3. ASSUME NEW c \in Calls, Goes(c)
        PROVE  CallInv'
    <2>1. CASE CheckLimits(c)
      <3>1. CASE ~Passes(c)
        BY <2>1, <3>1, Ends DEF CheckLimits, SameToLedger, ghosts
      <3>2. CASE Passes(c)
        <4> DEFINE state == [call[c] EXCEPT !.op = "save"]
        <4>1. /\ state \in CallStates /\ state.op = "save" /\ state.order = call[c].order
              /\ state.line = call[c].line /\ call[c].op = "check"
          BY <1>1, <2>1 DEF CallStates, CheckLimits, Is
        <4> HIDE DEF state
        <4>2. call'[c] = state /\ OthersStay(c) /\ UNCHANGED <<order, ledger, lost>>
          BY <2>1, <3>2, <4>1, Calling DEF CheckLimits, ghosts, state
        <4>3. Stage(c)' /\ AtLedger(c)' /\ TakesFreeOrder(c)
          BY <1>1, <4>1, <4>2 DEF Stage, AtLedger, TakesFreeOrder
        <4> QED
          BY <4>1, <4>2, <4>3, Elsewhere DEF SameToLedger
      <3> QED
        BY <3>1, <3>2
    <2>2. CASE SaveOrder(c)
      <3>1. /\ call[c].order \in Orders /\ call[c].line.type \in Types
            /\ call[c].line.asked \in Nat /\ order[call[c].order].status # "delivered"
        BY <1>1, <2>2 DEF SaveOrder, Is, Stage, Bookings
      <3>2. StatusSaved(c) \in Statuses
        BY <3>1 DEF StatusSaved, TypeOK, OrderRows, Statuses, Open
      <3>3. StatusWritten(call[c].order, StatusSaved(c))
        BY <2>2, <3>1, <3>2, OrderSaved DEF SaveOrder, TypeOK
      <3>4. call'[c] = Idle /\ OthersStay(c) /\ UNCHANGED <<ledger, lost>>
        BY <2>2, IdleType, Calling DEF SaveOrder, ghosts
      <3>5. Stage(c)' /\ AtLedger(c)' /\ call'[c].order = NoOrder /\ call'[c].op # "post"
        BY <3>4, IdleFields DEF Stage, AtLedger
      <3> QED
        BY <3>1, <3>3, <3>4, <3>5, OwnOrderWritten DEF StatusWritten
    <2>3. CASE SaveDelivery(c)
      <3>1. /\ call[c].order \in Orders /\ call[c].line.got \in Nat /\ call[c].job = "deliver"
            /\ call[c].line.back \in Nat /\ call[c].line.owed \in Nat
            /\ order[call[c].order].status = "out_for_delivery" /\ call[c].line \in Handovers
        BY <1>1, <2>3 DEF SaveDelivery, Is, Stage, Handovers
      <3>2. HandedOver(call[c].order, call[c].line.got, call[c].line.back)
        BY <2>3, <3>1, DeliverySaved DEF SaveDelivery, TypeOK
      <3> DEFINE state == [call[c] EXCEPT !.op = "ledger"]
      <3>3. /\ state \in CallStates /\ state.op = "ledger" /\ state.order = call[c].order
            /\ state.line = call[c].line /\ state.job = call[c].job
        BY <1>1 DEF CallStates
      <3> HIDE DEF state
      <3>4. call'[c] = state /\ OthersStay(c) /\ UNCHANGED <<ledger, lost>>
        BY <2>3, <3>3, Seeing DEF SaveDelivery, ghosts, state
      <3>5. call[c].order \notin lost
        BY <3>1 DEF CallInv, LostAreDelivered
      <3>6. Stage(c)' /\ AtLedger(c)'
        BY <3>1, <3>2, <3>3, <3>4, <3>5 DEF Stage, AtLedger, HandedOver
      <3> QED
        BY <3>1, <3>2, <3>3, <3>4, <3>6, OwnOrderWritten DEF HandedOver
    <2>4. CASE NothingToPost(c)
      <3> DEFINE state == [call[c] EXCEPT !.op = "invoice"]
      <3>1. /\ state \in CallStates /\ state.op = "invoice" /\ state.order = call[c].order
            /\ state.job = call[c].job /\ call[c].op = "ledger" /\ call[c].job = "deliver"
        BY <1>1, <2>4 DEF CallStates, NothingToPost, Is
      <3> HIDE DEF state
      <3>2. call'[c] = state /\ OthersStay(c) /\ UNCHANGED <<order, ledger, lost>>
        BY <2>4, <3>1, Calling DEF NothingToPost, ghosts, state
      <3>3. Stage(c)' /\ AtLedger(c)' /\ TakesFreeOrder(c)
        BY <1>1, <3>1, <3>2 DEF Stage, AtLedger, TakesFreeOrder
      <3> QED
        BY <3>1, <3>2, <3>3, Elsewhere DEF SameToLedger
    <2>5. ASSUME NEW k \in Ledgers, ReadLedger(c, k)
          PROVE  CallInv'
      <3> DEFINE state == [call[c] EXCEPT !.op = "rows", !.ledger = k, !.held = BalancesOf(k)]
      <3>1. /\ state \in CallStates /\ state.op = "rows" /\ state.order = call[c].order
            /\ state.job = call[c].job /\ state.line = call[c].line /\ state.ledger = k
            /\ call[c].op = "ledger"
        BY <1>1, <2>5, HeldType DEF CallStates, ReadLedger, Is
      <3> HIDE DEF state
      <3>2. call'[c] = state /\ OthersStay(c) /\ UNCHANGED <<order, ledger, lost>>
        BY <2>5, <3>1, Calling DEF ReadLedger, ghosts, state
      <3>3. call[c].job = "deliver" => Moved(call[c].order)
        BY <2>5 DEF ReadLedger
      <3>4. Stage(c)' /\ AtLedger(c)' /\ TakesFreeOrder(c)
        BY <1>1, <3>1, <3>2, <3>3 DEF Stage, AtLedger, TakesFreeOrder, Moved
      <3> QED
        BY <3>1, <3>2, <3>4, Elsewhere DEF SameToLedger
    <2>6. ASSUME NEW k \in Ledgers, Raise(c, k)
          PROVE  CallInv'
      BY <2>6, Ends DEF Raise, Is, SameToLedger
    <2>7. CASE GenerateInvoice(c)
      <3>1. call[c].order \in Orders
        BY <1>1, <2>7 DEF GenerateInvoice, Is, Stage
      <3>2. SameToLedger
        BY <2>7, <3>1, OrderBilled DEF GenerateInvoice, TypeOK, SameToLedger
      <3> QED
        BY <2>7, <3>2, Ends DEF GenerateInvoice, ghosts
    <2>8. CASE Crash(c)
      BY <2>8, Ends DEF Crash, SameToLedger
    <2> QED
      BY <1>3, <2>1, <2>2, <2>3, <2>4, <2>5, <2>6, <2>7, <2>8, AddRowsCalls, PostCalls DEF Goes
  <1>4. ASSUME NEW c \in Calls, NEW o \in Orders, NEW got \in Quantities,
               NEW back \in Quantities, NEW paid \in Quantities,
               DeliverOrder(c, o, got, back, paid)
        PROVE  CallInv'
    <2> DEFINE line == [got |-> got, back |-> back, owed |-> got - paid]
    <2>1. line \in Handovers
      BY <1>4, BoundsAssumption DEF DeliverOrder, Handovers
    <2>2. (Unbilled # {}) \in BOOLEAN
      OBVIOUS
    <2>3. Becomes(c, [Idle EXCEPT !.op = "deliver", !.job = "deliver", !.order = o,
                                  !.line = line, !.blind = Unbilled # {}])
      BY <1>4 DEF DeliverOrder
    <2> HIDE DEF line
    <2> DEFINE state == [Idle EXCEPT !.op = "deliver", !.job = "deliver", !.order = o,
                                     !.line = line, !.blind = Unbilled # {}]
    <2>4. /\ state \in CallStates /\ state.op = "deliver" /\ state.job = "deliver"
          /\ state.order = o /\ state.line = line
      BY <2>1, <2>2, IdleType DEF CallStates, Lines
    <2> HIDE DEF state
    <2>5. call'[c] = state /\ OthersStay(c)
      BY <2>3, <2>4, Calling DEF state
    <2>6. /\ UNCHANGED <<order, ledger, lost>> /\ Free(o)
          /\ order[o].status = "out_for_delivery"
      BY <1>4 DEF DeliverOrder, ghosts
    <2>7. Stage(c)' /\ AtLedger(c)' /\ TakesFreeOrder(c)
      BY <2>1, <2>4, <2>5, <2>6 DEF Stage, AtLedger, TakesFreeOrder, Free
    <2> QED
      BY <2>4, <2>5, <2>6, <2>7, Elsewhere DEF SameToLedger
  <1>5. ASSUME NEW o \in Orders,
               Depart(o) \/ FailDelivery(o) \/ RescheduleOrder(o) \/ CancelOrder(o)
        PROVE  CallInv'
    <2>1. \E from \in SUBSET (Statuses \ {"delivered"}), to \in Statuses \ {"delivered"} :
            Moves(o, from, to)
      BY <1>5 DEF Depart, FailDelivery, RescheduleOrder, CancelOrder, Statuses, Open
    <2>2. UNCHANGED <<call, ledger, lost>>
      BY <2>1 DEF Moves, ghosts
    <2> QED
      BY <2>1, <2>2, NoCall
  <1>6. ASSUME NEW o \in Orders, Reissue(o)
        PROVE  CallInv'
    BY <1>6, OrderBilled, NoCall DEF Reissue, TypeOK, ghosts
  <1>7. ASSUME NEW o \in Orders, NEW q \in Positive, RecordPayment(o, q)
        PROVE  CallInv'
    <2>1. SameToLedger
      BY <1>7 DEF RecordPayment, SameToLedger, TypeOK, OrderRows
    <2> QED
      BY <1>7, <2>1, NoCall DEF RecordPayment, ghosts
  <1> QED
    BY <1>2, <1>3, <1>4, <1>5, <1>6, <1>7 DEF Next

-----------------------------------------------------------------------------
(* Each delivery once *)

\* c is writing o to the ledger.
Writing(c, o) == call[c].order = o /\ call[c].op \in {"ledger", "rows", "post"}

\* A step that posts nothing, after which the same deliveries are on the ledger
LEMMA OnceKept ==
  ASSUME OnLedgerOnce, SameToLedger, UNCHANGED <<posted, lost>>, NEW c \in Calls, OthersStay(c),
         \A o \in Orders : (Writing(c, o)' <=> Writing(c, o)) \/ ~Moved(o)
  PROVE  OnLedgerOnce'
  <1>1. ASSUME NEW o \in Orders
        PROVE  Moved(o)' <=> Moved(o)
    BY DEF Moved, SameToLedger
  <1>2. ASSUME NEW o \in Orders, Moved(o)
        PROVE  Posting(o)' <=> Posting(o)
    BY <1>2 DEF Posting, Writing, OthersStay
  <1>3. Delivered' = Delivered
    BY DEF Delivered, SameToLedger
  <1> QED
    BY <1>1, <1>2, <1>3 DEF OnLedgerOnce

\* c is cut short over a delivery, or ends a stage that is not the ledger's.
LEMMA OnceEnded ==
  ASSUME TypeOK, CallInv, OnLedgerOnce, NEW c \in Calls, Becomes(c, Idle), SameToLedger,
         UNCHANGED posted,
         lost' = IF call[c].job = "deliver" /\ call[c].op \in {"ledger", "rows", "post"}
                 THEN lost \cup {call[c].order} ELSE lost
  PROVE  OnLedgerOnce'
  <1>1. call'[c] = Idle /\ OthersStay(c)
    BY IdleType, Calling
  <1>2. \A o \in Orders : ~Writing(c, o)'
    BY <1>1, IdleFields DEF Writing
  <1>3. CASE call[c].job = "deliver" /\ call[c].op \in {"ledger", "rows", "post"}
    <2>1. call[c].order \in Orders /\ Posting(call[c].order) /\ lost' = lost \cup {call[c].order}
      BY <1>3 DEF CallInv, AtLedger, Posting
    <2>2. ASSUME NEW o \in Orders \ {call[c].order}
          PROVE  Posting(o)' <=> Posting(o)
      BY <1>1, <1>2 DEF Posting, Writing, OthersStay
    <2>3. \A o \in Orders : Moved(o)' <=> Moved(o)
      BY DEF Moved, SameToLedger
    <2>4. Delivered' = Delivered
      BY DEF Delivered, SameToLedger
    <2> QED
      BY <2>1, <2>2, <2>3, <2>4 DEF OnLedgerOnce
  <1>4. CASE ~(call[c].job = "deliver" /\ call[c].op \in {"ledger", "rows", "post"})
    <2>1. \A o \in Orders : ~Writing(c, o)
      BY <1>4, NamesAssumption DEF Writing, CallInv, Stage, AtLedger
    <2>2. UNCHANGED lost
      BY <1>4
    <2> QED
      BY <1>1, <1>2, <2>1, <2>2, OnceKept
  <1> QED
    BY <1>3, <1>4

\* An order that is delivered neither before nor after
LEMMA NotYetDelivered ==
  ASSUME OnLedgerOnce, UNCHANGED <<posted, lost>>, NEW o \in Orders,
         order[o].status # "delivered", order'[o].status # "delivered" \/ Posting(o)',
         \A p \in Orders \ {o} : order'[p] = order[p] /\ (Posting(p)' <=> Posting(p))
  PROVE  OnLedgerOnce'
  <1>1. \A p \in Orders \ {o} : Moved(p)' <=> Moved(p)
    BY DEF Moved
  <1>2. \A p \in Orders \ {o} : p \in Delivered' <=> p \in Delivered
    BY DEF Delivered
  <1>3. o \notin Delivered /\ (o \notin Delivered' \/ Posting(o)')
    BY DEF Delivered
  <1> QED
    BY <1>1, <1>2, <1>3 DEF OnLedgerOnce

LEMMA PostOnce ==
  ASSUME TypeOK, CallInv, OnLedgerOnce, NEW c \in Calls, Post(c)
  PROVE  OnLedgerOnce'
  <1>1. /\ call[c] \in CallStates /\ call[c].op = "post" /\ Stage(c) /\ AtLedger(c)
        /\ UNCHANGED <<order, lost>> /\ SameToLedger
    BY DEF Post, Is, TypeOK, CallInv, SameToLedger
  <1> DEFINE state == Afterwards(c)
  <1>2. state \in CallStates /\ state.op \in {"invoice", "idle"}
    BY <1>1, IdleType, IdleFields DEF Afterwards, CallStates
  <1> HIDE DEF state
  <1>3. call'[c] = state /\ OthersStay(c)
    BY <1>2, Seeing DEF Post, state
  <1>4. \A o \in Orders : ~Writing(c, o)'
    BY <1>2, <1>3 DEF Writing
  <1>5. CASE call[c].job = "deliver"
    <2>0. PICK o \in Orders : o = call[c].order
      BY <1>1, <1>5 DEF AtLedger
    <2>1. /\ o \in Orders \ lost /\ order[o].status = "delivered" /\ Moved(o) /\ Posting(o)
          /\ posted' = [posted EXCEPT ![o] = @ + 1]
      BY <1>1, <1>5, <2>0 DEF AtLedger, Posting, Post
    <2>2. ~Posting(o)'
      <3>1. \A d \in Calls \ {c} : call[d].order # o
        BY <2>0, NamesAssumption DEF CallInv, OwnOrder
      <3> QED
        BY <1>3, <1>4, <2>1, <3>1 DEF Posting, Writing, OthersStay
    <2>3. \A p \in Orders \ {o} : Posting(p)' <=> Posting(p)
      BY <1>3, <1>4, <2>0 DEF Posting, Writing, OthersStay
    <2>4. Delivered' = Delivered /\ (\A p \in Orders : Moved(p)' <=> Moved(p)) /\ o \in Delivered
      BY <1>1, <2>1 DEF Delivered, Moved
    <2>5. posted[o] = 0 /\ posted \in [Orders -> Nat]
      BY <2>1 DEF OnLedgerOnce, TypeOK
    <2>6. posted'[o] = 1 /\ \A p \in Orders \ {o} : posted'[p] = posted[p]
      BY <2>1, <2>5
    <2>7. ASSUME NEW p \in Orders
          PROVE  posted'[p] = IF p \in Delivered' \ lost' /\ Moved(p)' /\ ~Posting(p)'
                              THEN 1 ELSE 0
      <3>1. CASE p = o
        BY <1>1, <2>1, <2>2, <2>4, <2>6, <3>1
      <3>2. CASE p # o
        BY <1>1, <2>3, <2>4, <2>6, <3>2 DEF OnLedgerOnce
      <3> QED
        BY <3>1, <3>2
    <2> QED
      BY <2>7 DEF OnLedgerOnce
  <1>6. CASE call[c].job # "deliver"
    <2>1. UNCHANGED posted /\ \A o \in Orders : ~Writing(c, o)
      BY <1>1, <1>6, NamesAssumption DEF Post, Writing, Stage, AtLedger
    <2> QED
      BY <1>1, <1>3, <1>4, <2>1, OnceKept
  <1> QED
    BY <1>5, <1>6

\* A step of c, to state, that writes to the ledger neither before nor after it,
\* or the same order
WritesTheSame(c, state) ==
    \A o \in Orders :
        Moved(o) => (Writing(c, o) <=> state.order = o /\ state.op \in {"ledger", "rows", "post"})

LEMMA OnceCalling ==
  ASSUME TypeOK, OnLedgerOnce, NEW c \in Calls, NEW state \in CallStates, Becomes(c, state),
         UNCHANGED <<order, posted, lost>>, WritesTheSame(c, state)
  PROVE  OnLedgerOnce'
  <1>1. call'[c] = state /\ OthersStay(c)
    BY Calling
  <1>2. \A o \in Orders : (Writing(c, o)' <=> Writing(c, o)) \/ ~Moved(o)
    BY <1>1 DEF Writing, WritesTheSame
  <1>3. SameToLedger
    BY DEF SameToLedger
  <1> QED
    BY <1>1, <1>2, <1>3, OnceKept

LEMMA OnceStep ==
  ASSUME TypeOK, CallInv, OnLedgerOnce, Next
  PROVE  OnLedgerOnce'
  <1>1. \A c \in Calls : call[c] \in CallStates /\ Stage(c) /\ AtLedger(c)
    BY DEF TypeOK, CallInv
  <1>3. ASSUME NEW c \in Calls, AtTheOffice(c)
        PROVE  OnLedgerOnce'
    <2>1. ASSUME NEW o \in Orders, NEW line \in Bookings,
                 NEW job \in {"book", "chat", "amend", "confirm"}, StartCheck(c, job, o, line)
          PROVE  OnLedgerOnce'
      <3>1. PICK k \in LedgerFor(c) :
              Becomes(c, [Idle EXCEPT !.op = "check", !.job = job, !.order = o, !.line = line,
                                      !.held = BalancesOf(k), !.blind = Incomplete])
        BY <2>1 DEF StartCheck
      <3>2. BalancesOf(k) \in [Types -> Int]
        BY LedgerForType, HeldType
      <3>3. Incomplete \in BOOLEAN
        BY DEF Incomplete
      <3> HIDE DEF Incomplete, BalancesOf
      <3> DEFINE state == [Idle EXCEPT !.op = "check", !.job = job, !.order = o, !.line = line,
                                       !.held = BalancesOf(k), !.blind = Incomplete]
      <3>4. state \in CallStates
        BY <3>2, <3>3, CheckedType
      <3>5. state.op = "check"
        BY IdleType DEF CallStates
      <3> HIDE DEF state
      <3>6. Is(c, "idle") /\ UNCHANGED <<order, posted, lost>> /\ Becomes(c, state)
        BY <2>1, <3>1 DEF StartCheck, ghosts, state
      <3>7. WritesTheSame(c, state)
        BY <3>5, <3>6 DEF WritesTheSame, Writing, Is
      <3> QED
        BY <3>4, <3>6, <3>7, OnceCalling
    <2>2. ASSUME NEW o \in Orders, NEW t \in Types, NEW q \in Positive,
                 CreateOrder(c, o, t, q) \/ PlaceOrder(c, o, t, q) \/ AmendOrder(c, o, t, q)
          PROVE  OnLedgerOnce'
      <3>1. [type |-> t, asked |-> q] \in Bookings
        BY BoundsAssumption DEF Bookings, Positive
      <3> QED
        BY <2>1, <2>2, <3>1 DEF CreateOrder, PlaceOrder, AmendOrder
    <2>3. ASSUME NEW o \in Orders, ConfirmOrder(c, o)
          PROVE  OnLedgerOnce'
      <3>1. [type |-> order[o].type, asked |-> order[o].asked] \in Bookings
        BY DEF TypeOK, OrderRows, Bookings
      <3> QED
        BY <2>1, <2>3, <3>1 DEF ConfirmOrder
    <2>4. ASSUME NEW t \in Types, NEW delta \in Deltas, AdjustLedgerBalance(c, t, delta)
          PROVE  OnLedgerOnce'
      <3>1. [type |-> t, delta |-> delta] \in Lines
        BY BoundsAssumption DEF Lines, Corrections
      <3> DEFINE state == [Idle EXCEPT !.op = "ledger", !.job = "adjust",
                                       !.line = [type |-> t, delta |-> delta]]
      <3>2. state \in CallStates /\ state.order = NoOrder
        BY <3>1, IdleType, IdleFields DEF CallStates
      <3> HIDE DEF state
      <3>3. Is(c, "idle") /\ UNCHANGED <<order, posted, lost>> /\ Becomes(c, state)
        BY <2>4 DEF AdjustLedgerBalance, ghosts, state
      <3>4. WritesTheSame(c, state)
        BY <3>2, <3>3, NamesAssumption DEF WritesTheSame, Writing, Is
      <3> QED
        BY <3>2, <3>3, <3>4, OnceCalling
    <2> QED
      BY <1>3, <2>2, <2>3, <2>4 DEF AtTheOffice
  <1>4. ASSUME NEW c \in Calls, Goes(c)
        PROVE  OnLedgerOnce'
    <2>1. CASE CheckLimits(c)
      <3>1. [call[c] EXCEPT !.op = "save"] \in CallStates
            /\ [call[c] EXCEPT !.op = "save"].op = "save" /\ call[c].op = "check"
        BY <1>1, <2>1 DEF CallStates, CheckLimits, Is
      <3>2. WritesTheSame(c, Idle) /\ WritesTheSame(c, [call[c] EXCEPT !.op = "save"])
        BY <3>1, IdleFields DEF WritesTheSame, Writing
      <3>3. /\ UNCHANGED <<order, posted, lost>>
            /\ Becomes(c, Idle) \/ Becomes(c, [call[c] EXCEPT !.op = "save"])
        BY <2>1 DEF CheckLimits, ghosts
      <3> QED
        BY <3>1, <3>2, <3>3, IdleType, OnceCalling
    <2>2. CASE SaveOrder(c)
      <3>1. PICK o \in Orders : o = call[c].order
        BY <1>1, <2>2 DEF SaveOrder, Is, Stage
      <3>2. /\ call[c].line.type \in Types /\ call[c].line.asked \in Nat
            /\ order[o].status # "delivered"
        BY <1>1, <2>2, <3>1 DEF SaveOrder, Is, Stage, Bookings
      <3>3. StatusSaved(c) \in Statuses \ {"delivered"}
        BY <3>1, <3>2 DEF StatusSaved, TypeOK, OrderRows, Statuses, Open
      <3>4. StatusWritten(o, StatusSaved(c))
        BY <2>2, <3>1, <3>2, <3>3, OrderSaved DEF SaveOrder, TypeOK
      <3>5. \A p \in Orders \ {o} : order'[p] = order[p]
        BY <3>4 DEF StatusWritten
      <3>6. call'[c] = Idle /\ OthersStay(c) /\ UNCHANGED <<posted, lost>> /\ call[c].op = "save"
        BY <2>2, IdleType, Calling DEF SaveOrder, Is, ghosts
      <3>7. \A p \in Orders \ {o} : Posting(p)' <=> Posting(p)
        BY <3>6, IdleFields DEF Posting, OthersStay
      <3> QED
        BY <3>2, <3>3, <3>4, <3>5, <3>6, <3>7, NotYetDelivered DEF StatusWritten
    <2>3. CASE SaveDelivery(c)
      <3>1. PICK o \in Orders : o = call[c].order
        BY <1>1, <2>3 DEF SaveDelivery, Is, Stage
      <3>2. /\ call[c].line.got \in Nat /\ call[c].line.back \in Nat /\ call[c].line.owed \in Nat
            /\ order[o].status # "delivered"
        BY <1>1, <2>3, <3>1 DEF SaveDelivery, Is, Stage, Handovers
      <3>3. \A p \in Orders \ {o} : order'[p] = order[p]
        BY <2>3, <3>1, <3>2, DeliverySaved DEF SaveDelivery, TypeOK, HandedOver
      <3> DEFINE state == [call[c] EXCEPT !.op = "ledger"]
      <3>4. state \in CallStates /\ state.op = "ledger" /\ state.order = o
        BY <1>1, <3>1 DEF CallStates
      <3> HIDE DEF state
      <3>5. call'[c] = state /\ OthersStay(c) /\ UNCHANGED <<posted, lost>>
        BY <2>3, <3>4, Seeing DEF SaveDelivery, ghosts, state
      <3>6. Posting(o)' /\ \A p \in Orders \ {o} : Posting(p)' <=> Posting(p)
        BY <3>1, <3>4, <3>5 DEF Posting, OthersStay
      <3> QED
        BY <3>2, <3>3, <3>5, <3>6, NotYetDelivered
    <2>4. CASE NothingToPost(c)
      <3> DEFINE state == [call[c] EXCEPT !.op = "invoice"]
      <3>1. state \in CallStates /\ state.op = "invoice"
        BY <1>1 DEF CallStates
      <3> HIDE DEF state
      <3>2. /\ Becomes(c, state) /\ UNCHANGED <<order, posted, lost>>
            /\ \A o \in Orders : Writing(c, o) => ~Moved(o)
        BY <2>4 DEF NothingToPost, Writing, ghosts, state
      <3>3. WritesTheSame(c, state)
        BY <3>1, <3>2 DEF WritesTheSame
      <3> QED
        BY <3>1, <3>2, <3>3, OnceCalling
    <2>5. ASSUME NEW k \in Ledgers, ReadLedger(c, k)
          PROVE  OnLedgerOnce'
      <3> DEFINE state == [call[c] EXCEPT !.op = "rows", !.ledger = k, !.held = BalancesOf(k)]
      <3>1. /\ state \in CallStates /\ state.op = "rows" /\ state.order = call[c].order
            /\ call[c].op = "ledger"
        BY <1>1, <2>5, HeldType DEF CallStates, ReadLedger, Is
      <3> HIDE DEF state
      <3>2. Becomes(c, state) /\ UNCHANGED <<order, posted, lost>>
        BY <2>5 DEF ReadLedger, ghosts, state
      <3>3. WritesTheSame(c, state)
        BY <3>1 DEF WritesTheSame, Writing
      <3> QED
        BY <3>1, <3>2, <3>3, OnceCalling
    <2>6. ASSUME NEW k \in Ledgers, Raise(c, k)
          PROVE  OnLedgerOnce'
      BY <2>6, OnceEnded DEF Raise, Is, SameToLedger
    <2>7. CASE AddRows(c)
      <3> DEFINE sum == Base(c) + Delta(c)
                 state == [call[c] EXCEPT !.op = "post", !.delta = sum]
      <3>1. /\ call[c].op = "rows" /\ call[c].ledger \in Ledgers
            /\ TypeOf(c) \in Types /\ Delta(c) \in Int
        BY <1>1, <2>7, RowType DEF AddRows, Is, Stage
      <3>2. sum \in Int
        BY <3>1, HeldType DEF Base
      <3> HIDE DEF sum
      <3>3. state \in CallStates /\ state.op = "post" /\ state.order = call[c].order
        BY <1>1, <3>2 DEF CallStates
      <3> HIDE DEF state
      <3>4. Becomes(c, state) /\ UNCHANGED <<order, posted, lost>>
        BY <2>7 DEF AddRows, ghosts, sum, state
      <3>5. WritesTheSame(c, state)
        BY <3>1, <3>3 DEF WritesTheSame, Writing
      <3> QED
        BY <3>3, <3>4, <3>5, OnceCalling
    <2>8. CASE GenerateInvoice(c)
      <3>1. call[c].order \in Orders /\ call[c].op = "invoice"
        BY <1>1, <2>8 DEF GenerateInvoice, Is, Stage
      <3>2. SameToLedger
        BY <2>8, <3>1, OrderBilled DEF GenerateInvoice, TypeOK, SameToLedger
      <3> QED
        BY <2>8, <3>1, <3>2, OnceEnded DEF GenerateInvoice, ghosts
    <2>9. CASE Crash(c)
      BY <2>9, OnceEnded DEF Crash, SameToLedger
    <2> QED
      BY <1>4, <2>1, <2>2, <2>3, <2>4, <2>5, <2>6, <2>7, <2>8, <2>9, PostOnce DEF Goes
  <1>5. ASSUME NEW c \in Calls, NEW o \in Orders, NEW got \in Quantities,
               NEW back \in Quantities, NEW paid \in Quantities,
               DeliverOrder(c, o, got, back, paid)
        PROVE  OnLedgerOnce'
    <2> DEFINE line == [got |-> got, back |-> back, owed |-> got - paid]
    <2>1. line \in Lines
      BY <1>5, BoundsAssumption DEF DeliverOrder, Handovers, Lines
    <2>2. (Unbilled # {}) \in BOOLEAN
      OBVIOUS
    <2>3. /\ Becomes(c, [Idle EXCEPT !.op = "deliver", !.job = "deliver", !.order = o,
                                     !.line = line, !.blind = Unbilled # {}])
          /\ Is(c, "idle") /\ UNCHANGED <<order, posted, lost>>
      BY <1>5 DEF DeliverOrder, ghosts
    <2> HIDE DEF line
    <2> DEFINE state == [Idle EXCEPT !.op = "deliver", !.job = "deliver", !.order = o,
                                     !.line = line, !.blind = Unbilled # {}]
    <2>4. state \in CallStates /\ state.op = "deliver"
      BY <2>1, <2>2, IdleType DEF CallStates
    <2> HIDE DEF state
    <2>5. Becomes(c, state)
      BY <2>3 DEF state
    <2>6. WritesTheSame(c, state)
      BY <2>3, <2>4 DEF WritesTheSame, Writing, Is
    <2> QED
      BY <2>3, <2>4, <2>5, <2>6, OnceCalling
  <1>6. ASSUME NEW o \in Orders,
               Depart(o) \/ FailDelivery(o) \/ RescheduleOrder(o) \/ CancelOrder(o)
        PROVE  OnLedgerOnce'
    <2>1. \E from \in SUBSET (Statuses \ {"delivered"}), to \in Statuses \ {"delivered"} :
            Moves(o, from, to)
      BY <1>6 DEF Depart, FailDelivery, RescheduleOrder, CancelOrder, Statuses, Open
    <2>2. /\ UNCHANGED <<call, posted, lost>> /\ order[o].status # "delivered"
          /\ order'[o].status # "delivered"
          /\ \A p \in Orders \ {o} : order'[p] = order[p]
      BY <2>1 DEF Moves, ghosts, TypeOK, OrderRows
    <2>3. \A p \in Orders : Posting(p)' <=> Posting(p)
      BY <2>2 DEF Posting
    <2> QED
      BY <2>2, <2>3, NotYetDelivered
  <1>7. ASSUME SameToLedger, UNCHANGED <<call, posted, lost>>
        PROVE  OnLedgerOnce'
    BY <1>7 DEF OnLedgerOnce, SameToLedger, Delivered, Moved, Posting
  <1>8. ASSUME NEW o \in Orders, Reissue(o)
        PROVE  OnLedgerOnce'
    BY <1>7, <1>8, OrderBilled DEF Reissue, TypeOK, ghosts
  <1>9. ASSUME NEW o \in Orders, NEW q \in Positive, RecordPayment(o, q)
        PROVE  OnLedgerOnce'
    <2>1. SameToLedger
      BY <1>9 DEF RecordPayment, SameToLedger, TypeOK, OrderRows
    <2> QED
      BY <1>7, <1>9, <2>1 DEF RecordPayment, ghosts
  <1> QED
    BY <1>3, <1>4, <1>5, <1>6, <1>8, <1>9 DEF Next

-----------------------------------------------------------------------------
(* The limits: what holds of the orders, the ledgers and the calls *)

Checks(c) == call[c].op \in {"check", "save"}

\* An order that was not delivered has nothing delivered, and nobody owes for it.
UndeliveredIsBlank ==
    \A o \in Orders : order[o].status # "delivered" => order[o].got = 0 /\ order[o].owed = 0

\* A ledger that was never written is empty.
UnmadeIsEmpty ==
    \A k \in Ledgers : ~ledger[k].made =>
        \A t \in Types : ledger[k].balance[t] = 0 /\ ledger[k].net[t] = 0

\* The branch's booking lock lets one check in at a time.
OneChecks == \A c, d \in Calls : Checks(c) /\ Checks(d) => c = d

\* What such a check has read of the ledger is what the customer holds.
HeldFits(c) ==
    Checks(c) /\ ~call[c].blind => \A t \in Types : call[c].held[t] = Holding[t]

\* What it compares with the cap, by type
WillHold(c) ==
    [t \in Types |-> Larger(Larger(call[c].held[t], 0),
                            Coming(t, call[c].order)
                              + (IF call[c].line.type = t THEN call[c].line.asked ELSE 0))]

\* What has passed the cap would still pass it.
CapFits(c) ==
    call[c].op = "save" /\ call[c].job # "chat" /\ ~call[c].blind =>
        SumFunctionOnSet(WillHold(c), Types) <= Cap

\* What was let on account is within the limit, with all that is owed besides.
CreditFits(c) ==
    call[c].op = "deliver" /\ ~call[c].blind /\ call[c].line.owed > 0 =>
        Owed + call[c].line.owed <= CreditLimit

Fits(c) == HeldFits(c) /\ CapFits(c) /\ CreditFits(c)

LimitInv ==
    UndeliveredIsBlank /\ UnmadeIsEmpty /\ OneChecks /\ \A c \in Calls : Fits(c)

-----------------------------------------------------------------------------
(* The sums *)

\* What is summed over is finite.
LEMMA FinitelyMany ==
  /\ \A o : IsFiniteSet(Orders \ {o})
  /\ IsFiniteSet(Orders) /\ IsFiniteSet(Types) /\ IsFiniteSet(Ledgers) /\ IsFiniteSet(Calls)
  BY FiniteAssumption, FS_Subset

\* What is awaited of an order is a number,
LEMMA AwaitedInt ==
  ASSUME TypeOK, NEW t
  PROVE  \A p \in Orders : Awaited(t)[p] \in Int
  BY DEF TypeOK, OrderRows, Awaited

\* ... and of all
LEMMA ComingInt ==
  ASSUME TypeOK, NEW t, NEW o
  PROVE  Coming(t, o) \in Int
  <1>1. \A p \in Orders \ {o} : Awaited(t)[p] \in Int
    BY AwaitedInt
  <1> QED
    BY <1>1, FinitelyMany, SumInt DEF Coming

\* What is coming falls or stays where that is so of each order.
LEMMA ComingFalls ==
  ASSUME TypeOK, TypeOK', NEW t, NEW o,
         \A p \in Orders \ {o} : Awaited(t)'[p] <= Awaited(t)[p]
  PROVE  Coming(t, o)' <= Coming(t, o)
  <1>1. \A p \in Orders \ {o} : Awaited(t)[p] \in Int /\ Awaited(t)'[p] \in Int
    <2>1. \A p \in Orders : Awaited(t)[p] \in Int
      BY AwaitedInt
    <2>2. \A p \in Orders : Awaited(t)'[p] \in Int
      BY DEF TypeOK, OrderRows, Awaited
    <2> QED
      BY <2>1, <2>2
  <1> DEFINE f == Awaited(t)'
             g == Awaited(t)
             S == Orders \ {o}
  <1>2. /\ IsFiniteSet(S)
        /\ \A p \in S : f[p] \in Int /\ g[p] \in Int /\ f[p] <= g[p]
    BY <1>1, FinitelyMany
  <1>3. Coming(t, o)' = SumFunctionOnSet(f, S) /\ Coming(t, o) = SumFunctionOnSet(g, S)
    BY DEF Coming
  <1> HIDE DEF f, g, S
  <1> QED
    BY <1>2, <1>3, SumAtMost

LEMMA LargerFacts ==
  ASSUME NEW a \in Int, NEW b \in Int
  PROVE  /\ Larger(a, b) \in Int /\ Larger(a, b) >= a /\ Larger(a, b) >= b
         /\ \A d \in Int : d >= a /\ d >= b => d >= Larger(a, b)
  BY DEF Larger

\* What a check compares with the cap, and that it falls with what is coming
LEMMA WillHoldAt ==
  ASSUME TypeOK, NEW c \in Calls, call[c].line \in Bookings, NEW t \in Types
  PROVE  /\ WillHold(c)[t] =
              Larger(Larger(call[c].held[t], 0),
                     Coming(t, call[c].order)
                       + (IF call[c].line.type = t THEN call[c].line.asked ELSE 0))
         /\ call[c].held[t] \in Int /\ call[c].line.asked \in Nat
         /\ WillHold(c)[t] \in Int
  <1>1. WillHold(c)[t] =
          Larger(Larger(call[c].held[t], 0),
                 Coming(t, call[c].order)
                   + (IF call[c].line.type = t THEN call[c].line.asked ELSE 0))
    BY DEF WillHold
  <1>2. call[c].held[t] \in Int /\ call[c].line.asked \in Nat
    BY DEF TypeOK, CallStates, Bookings
  <1>3. Coming(t, call[c].order) \in Int
    BY ComingInt
  <1> QED
    BY <1>1, <1>2, <1>3 DEF Larger

\* A call goes on as it was, perhaps blind by now.
SameJob(d) ==
    /\ call'[d].op = call[d].op /\ call'[d].job = call[d].job
    /\ call'[d].order = call[d].order /\ call'[d].line = call[d].line
    /\ call'[d].held = call[d].held
    /\ call[d].blind => call'[d].blind

NoMoreComing == \A t \in Types, o \in Orders : Coming(t, o)' <= Coming(t, o)

LEMMA ComingIntPrimed ==
  ASSUME TypeOK', NEW t, NEW o
  PROVE  Coming(t, o)' \in Int
  <1> DEFINE f == Awaited(t)'
  <1>1. \A p \in Orders \ {o} : f[p] \in Int
    BY DEF TypeOK, OrderRows, Awaited
  <1>2. Coming(t, o)' = SumFunctionOnSet(f, Orders \ {o})
    BY DEF Coming
  <1> HIDE DEF f
  <1> QED
    BY <1>1, <1>2, FinitelyMany, SumInt

\* ... after a step of others, too, and no more than before if nothing is added
LEMMA WillHoldPrimed ==
  ASSUME TypeOK, TypeOK', NEW d \in Calls, SameJob(d), NEW t \in Types,
         call[d].line \in Bookings, call[d].order \in Orders
  PROVE  /\ WillHold(d)'[t] \in Int
         /\ NoMoreComing => WillHold(d)'[t] <= WillHold(d)[t]
  <1>1. PICK o \in Orders : o = call[d].order
    OBVIOUS
  <1>2. NoMoreComing => Coming(t, o)' <= Coming(t, o)
    BY DEF NoMoreComing
  <1>3. Coming(t, o) \in Int /\ Coming(t, o)' \in Int
    BY ComingInt, ComingIntPrimed
  <1>4. WillHold(d)[t] =
          Larger(Larger(call[d].held[t], 0),
                 Coming(t, o) + (IF call[d].line.type = t THEN call[d].line.asked ELSE 0))
        /\ call[d].held[t] \in Int /\ call[d].line.asked \in Nat
    BY <1>1, WillHoldAt
  <1>5. WillHold(d)'[t] =
          Larger(Larger(call'[d].held[t], 0),
                 Coming(t, o)' + (IF call'[d].line.type = t THEN call'[d].line.asked ELSE 0))
    <2>1. o = call'[d].order
      BY <1>1 DEF SameJob
    <2> QED
      BY <2>1 DEF WillHold
  <1>6. call'[d].held = call[d].held /\ call'[d].line = call[d].line
    BY DEF SameJob
  <1> QED
    BY <1>2, <1>3, <1>4, <1>5, <1>6 DEF Larger

\* So is their sum.
LEMMA WillHoldFalls ==
  ASSUME TypeOK, TypeOK', NEW d \in Calls, SameJob(d), NoMoreComing,
         call[d].line \in Bookings, call[d].order \in Orders
  PROVE  SumFunctionOnSet(WillHold(d)', Types) <= SumFunctionOnSet(WillHold(d), Types)
  <1> DEFINE f == WillHold(d)'
             g == WillHold(d)
  <1>1. \A t \in Types : f[t] \in Int /\ g[t] \in Int /\ f[t] <= g[t]
    BY WillHoldAt, WillHoldPrimed
  <1> HIDE DEF f, g
  <1>2. SumFunctionOnSet(f, Types) <= SumFunctionOnSet(g, Types)
    BY <1>1, FinitelyMany, SumAtMost
  <1> QED
    BY <1>2 DEF f, g

\* What is owed falls or stays where that is so of each order.
LEMMA OwedFalls ==
  ASSUME TypeOK, TypeOK', \A o \in Orders : order'[o].owed <= order[o].owed
  PROVE  Owed' <= Owed
  <1> DEFINE f == [o \in Orders |-> order'[o].owed]
             g == [o \in Orders |-> order[o].owed]
  <1>1. \A o \in Orders : f[o] \in Int /\ g[o] \in Int /\ f[o] <= g[o]
    BY DEF TypeOK, OrderRows
  <1>2. Owed' = SumFunctionOnSet(f, Orders) /\ Owed = SumFunctionOnSet(g, Orders)
    BY DEF Owed
  <1> HIDE DEF f, g
  <1> QED
    BY <1>1, <1>2, FinitelyMany, SumAtMost

LEMMA OwedIntPrimed ==
  ASSUME TypeOK'
  PROVE  Owed' \in Int
  <1> DEFINE g == [o \in Orders |-> order'[o].owed]
  <1>1. \A o \in Orders : g[o] \in Int
    BY DEF TypeOK, OrderRows
  <1>2. Owed' = SumFunctionOnSet(g, Orders)
    BY DEF Owed
  <1> HIDE DEF g
  <1> QED
    BY <1>1, <1>2, FinitelyMany, SumInt

\* What is owed is a number.
LEMMA OwedInt ==
  ASSUME TypeOK
  PROVE  Owed \in Int
  <1> DEFINE g == [o \in Orders |-> order[o].owed]
  <1>1. \A o \in Orders : g[o] \in Int
    BY DEF TypeOK, OrderRows
  <1>2. Owed = SumFunctionOnSet(g, Orders)
    BY DEF Owed
  <1> HIDE DEF g
  <1> QED
    BY <1>1, <1>2, FinitelyMany, SumInt

-----------------------------------------------------------------------------
(* The limits: the steps *)

\* What the others have checked stays so where nothing is added to it.
LEMMA StillFits ==
  ASSUME TypeOK, TypeOK', CallInv, NEW d \in Calls, SameJob(d), Fits(d),
         Checks(d) /\ ~call'[d].blind => NoMoreComing /\ UNCHANGED ledger,
         call[d].op = "deliver" /\ ~call'[d].blind => Owed' <= Owed
  PROVE  Fits(d)'
  <1>1. HeldFits(d)'
    <2> SUFFICES ASSUME Checks(d)', ~call'[d].blind, NEW t \in Types
                 PROVE  call'[d].held[t] = Holding'[t]
      BY DEF HeldFits
    <2>1. Checks(d) /\ ~call[d].blind
      BY DEF Checks, SameJob
    <2>2. Holding' = Holding
      BY <2>1 DEF Holding
    <2> QED
      BY <2>1, <2>2 DEF Fits, HeldFits, SameJob
  <1>2. CapFits(d)'
    <2> SUFFICES ASSUME call'[d].op = "save", call'[d].job # "chat", ~call'[d].blind
                 PROVE  SumFunctionOnSet(WillHold(d)', Types) <= Cap
      BY DEF CapFits
    <2>1. call[d].op = "save" /\ call[d].job # "chat" /\ ~call[d].blind /\ Checks(d)
      BY DEF Checks, SameJob
    <2>2. SumFunctionOnSet(WillHold(d), Types) <= Cap
      BY <2>1 DEF Fits, CapFits
    <2>3. call[d].line \in Bookings /\ call[d].order \in Orders
      BY <2>1 DEF CallInv, Stage
    <2>4. SumFunctionOnSet(WillHold(d)', Types) <= SumFunctionOnSet(WillHold(d), Types)
      BY <2>1, <2>3, WillHoldFalls
    <2>5. SumFunctionOnSet(WillHold(d), Types) \in Int
      <3> DEFINE g == WillHold(d)
      <3>1. \A t \in Types : g[t] \in Int
        BY <2>3, WillHoldAt
      <3> HIDE DEF g
      <3>2. SumFunctionOnSet(g, Types) \in Int
        BY <3>1, FinitelyMany, SumInt
      <3> QED
        BY <3>2 DEF g
    <2>6. SumFunctionOnSet(WillHold(d)', Types) \in Int
      <3> DEFINE g == WillHold(d)'
      <3>1. \A t \in Types : g[t] \in Int
        BY <2>1, <2>3, WillHoldPrimed
      <3> HIDE DEF g
      <3>2. SumFunctionOnSet(g, Types) \in Int
        BY <3>1, FinitelyMany, SumInt
      <3> QED
        BY <3>2 DEF g
    <2> QED
      BY <2>2, <2>4, <2>5, <2>6, BoundsAssumption
  <1>3. CreditFits(d)'
    <2> SUFFICES ASSUME call'[d].op = "deliver", ~call'[d].blind, call'[d].line.owed > 0
                 PROVE  Owed' + call'[d].line.owed <= CreditLimit
      BY DEF CreditFits
    <2>1. call[d].op = "deliver" /\ ~call[d].blind /\ call'[d].line = call[d].line
      BY DEF SameJob
    <2>2. Owed + call[d].line.owed <= CreditLimit /\ Owed' <= Owed
      BY <2>1 DEF Fits, CreditFits
    <2>3. call[d].line.owed \in Nat
      BY <2>1 DEF CallInv, Stage, Handovers
    <2>4. Owed \in Int /\ Owed' \in Int
      BY OwedInt, OwedIntPrimed
    <2> QED
      BY <2>1, <2>2, <2>3, <2>4, BoundsAssumption
  <1> QED
    BY <1>1, <1>2, <1>3 DEF Fits

\* The lock lets c in only where nobody checks.
LEMMA OneChecksKept ==
  ASSUME OneChecks, NEW c \in Calls, \A d \in Calls \ {c} : call'[d].op = call[d].op,
         Checks(c)' => Checks(c) \/ BranchIsFree
  PROVE  OneChecks'
  BY DEF OneChecks, Checks, BranchIsFree, Checking

\* What the limits look at of an order
SameToLimits ==
    \A o \in Orders :
        /\ order'[o].status = order[o].status /\ order'[o].type = order[o].type
        /\ order'[o].asked = order[o].asked /\ order'[o].got = order[o].got
        /\ order'[o].owed = order[o].owed

\* Then neither limit has more to look at.
LEMMA NothingAdded ==
  ASSUME TypeOK, TypeOK', SameToLimits
  PROVE  NoMoreComing /\ Owed' <= Owed
  <1>1. \A o \in Orders : order'[o].owed <= order[o].owed
    BY DEF SameToLimits, TypeOK, OrderRows
  <1>2. ASSUME NEW t \in Types, NEW o \in Orders
        PROVE  Coming(t, o)' <= Coming(t, o)
    <2>1. \A p \in Orders \ {o} : Awaited(t)'[p] <= Awaited(t)[p]
      <3>1. \A p \in Orders : Awaited(t)[p] \in Int
        BY AwaitedInt
      <3>2. \A p \in Orders : Awaited(t)'[p] = Awaited(t)[p]
        BY DEF SameToLimits, Awaited
      <3> QED
        BY <3>1, <3>2
    <2> QED
      BY <2>1, ComingFalls
  <1> QED
    BY <1>1, <1>2, OwedFalls DEF NoMoreComing

\* A step of c that adds nothing to what the others look at
LEMMA QuietStep ==
  ASSUME TypeOK, TypeOK', CallInv, LimitInv, NEW c \in Calls,
         \A d \in Calls \ {c} : call'[d] = call[d], SameToLimits, UNCHANGED ledger,
         Checks(c)' => Checks(c) \/ BranchIsFree, Fits(c)'
  PROVE  LimitInv'
  <1>1. UndeliveredIsBlank' /\ UnmadeIsEmpty'
    BY DEF LimitInv, UndeliveredIsBlank, UnmadeIsEmpty, SameToLimits
  <1>2. OneChecks'
    BY OneChecksKept DEF LimitInv
  <1>3. ASSUME NEW d \in Calls \ {c}
        PROVE  Fits(d)'
    <2>1. SameJob(d) /\ Fits(d)
      BY DEF SameJob, LimitInv
    <2> QED
      BY <2>1, NothingAdded, StillFits
  <1> QED
    BY <1>1, <1>2, <1>3 DEF LimitInv

\* Past the checks a call has nothing to fit.
LEMMA FitsAnyway ==
  ASSUME NEW c \in Calls, call'[c].op \notin {"check", "save", "deliver"}
  PROVE  Fits(c)' /\ ~Checks(c)'
  BY DEF Fits, HeldFits, CapFits, CreditFits, Checks

\* A step that no call takes
LEMMA NoCallLimits ==
  ASSUME TypeOK, TypeOK', CallInv, LimitInv, UNCHANGED <<call, ledger>>,
         UndeliveredIsBlank', NoMoreComing, Owed' <= Owed
  PROVE  LimitInv'
  <1>1. UnmadeIsEmpty' /\ OneChecks'
    BY DEF LimitInv, UnmadeIsEmpty, OneChecks, Checks
  <1>2. ASSUME NEW d \in Calls
        PROVE  Fits(d)'
    <2>1. SameJob(d) /\ Fits(d)
      BY DEF SameJob, LimitInv
    <2> QED
      BY <2>1, StillFits
  <1> QED
    BY <1>1, <1>2 DEF LimitInv

\* An order on its way, or given up
LEMMA MovesLimits ==
  ASSUME TypeOK, TypeOK', CallInv, LimitInv, NEW o \in Orders,
         NEW from \in SUBSET Open, NEW to \in Open \cup {"cancelled"}, Moves(o, from, to)
  PROVE  LimitInv'
  <1>1. /\ order' = [order EXCEPT ![o].status = to] /\ UNCHANGED <<call, ledger>>
        /\ order[o].status \in Open /\ order \in [Orders -> OrderRows]
    BY DEF Moves, ghosts, counters, TypeOK
  <1>2. order[o].got = 0 /\ order[o].owed = 0
    BY <1>1 DEF LimitInv, UndeliveredIsBlank, Open
  <1>3. /\ order'[o] = [order[o] EXCEPT !.status = to]
        /\ \A p \in Orders \ {o} : order'[p] = order[p]
    BY <1>1
  <1>4. /\ order'[o].status = to /\ order'[o].type = order[o].type
        /\ order'[o].asked = order[o].asked /\ order'[o].got = order[o].got
        /\ order'[o].owed = order[o].owed
    BY <1>1, <1>3 DEF OrderRows
  <1>5. UndeliveredIsBlank'
    BY <1>2, <1>3, <1>4 DEF LimitInv, UndeliveredIsBlank
  <1>6. \A p \in Orders : order'[p].owed <= order[p].owed
    BY <1>1, <1>3, <1>4 DEF OrderRows
  <1>7. ASSUME NEW t \in Types, NEW q \in Orders
        PROVE  Coming(t, q)' <= Coming(t, q)
    <2>1. \A p \in Orders \ {q} : Awaited(t)'[p] <= Awaited(t)[p]
      <3>1. \A p \in Orders : order[p] \in OrderRows
        BY <1>1
      <3>2. \A p \in Orders \ {o} : Awaited(t)'[p] = Awaited(t)[p] /\ Awaited(t)[p] \in Int
        BY <1>3, AwaitedInt DEF Awaited
      <3>3. Awaited(t)'[o] <= Awaited(t)[o]
        BY <1>1, <1>2, <1>4, <3>1 DEF Awaited, OrderRows
      <3> QED
        BY <3>2, <3>3
    <2> QED
      BY <2>1, ComingFalls
  <1> QED
    BY <1>1, <1>5, <1>6, <1>7, OwedFalls, NoCallLimits DEF NoMoreComing

\* A payment
LEMMA PaymentLimits ==
  ASSUME TypeOK, TypeOK', CallInv, LimitInv, NEW o \in Orders, NEW amount \in Nat,
         RecordPayment(o, amount)
  PROVE  LimitInv'
  <1>1. /\ order' = [order EXCEPT ![o].owed = @ - amount] /\ UNCHANGED <<call, ledger>>
        /\ order[o] \in OrderRows /\ amount <= order[o].owed
        /\ order \in [Orders -> OrderRows]
    BY DEF RecordPayment, ghosts, counters, TypeOK
  <1>2. /\ order'[o] = [order[o] EXCEPT !.owed = order[o].owed - amount]
        /\ \A p \in Orders \ {o} : order'[p] = order[p]
    BY <1>1
  <1>3. /\ order'[o].status = order[o].status /\ order'[o].type = order[o].type
        /\ order'[o].asked = order[o].asked /\ order'[o].got = order[o].got
        /\ order'[o].owed = order[o].owed - amount
    BY <1>1, <1>2 DEF OrderRows
  <1>4. UndeliveredIsBlank'
    BY <1>1, <1>2, <1>3 DEF LimitInv, UndeliveredIsBlank, OrderRows
  <1>5. \A p \in Orders : order'[p].owed <= order[p].owed
    BY <1>1, <1>2, <1>3 DEF OrderRows
  <1>6. ASSUME NEW t \in Types, NEW q \in Orders
        PROVE  Coming(t, q)' <= Coming(t, q)
    <2>1. \A p \in Orders \ {q} : Awaited(t)'[p] <= Awaited(t)[p]
      <3>1. \A p \in Orders : Awaited(t)[p] \in Int
        BY AwaitedInt
      <3>2. \A p \in Orders : Awaited(t)'[p] = Awaited(t)[p]
        BY <1>2, <1>3 DEF Awaited
      <3> QED
        BY <3>1, <3>2
    <2> QED
      BY <2>1, ComingFalls
  <1> QED
    BY <1>1, <1>4, <1>5, <1>6, OwedFalls, NoCallLimits DEF NoMoreComing

\* A ledger that was read while all deliveries were on one is what the customer
\* holds.
LEMMA ReadIsHolding ==
  ASSUME TypeOK, CallInv, LimitInv, NEW c \in Calls, NEW k \in LedgerFor(c), ~Incomplete,
         NEW t \in Types
  PROVE  BalancesOf(k)[t] = Holding[t]
  <1>1. k \in Ledgers /\ IsFiniteSet(Made) /\ Made \subseteq Ledgers
    BY LedgerForType, FinitelyMany, FS_Subset DEF Made
  <1>2. \A j \in Ledgers \ {k} : ~ledger[j].made
    <2> SUFFICES ASSUME NEW j \in Ledgers \ {k}, ledger[j].made PROVE FALSE
      OBVIOUS
    <2>1. j \in Made /\ k \in Made
      BY DEF LedgerFor, Made
    <2>2. {j, k} \subseteq Made
      BY <2>1
    <2>3. Cardinality({j, k}) <= Cardinality(Made) /\ IsFiniteSet({j, k})
      BY <1>1, <2>2, FS_Subset
    <2>4. Cardinality({j, k}) = 2
      <3>1. Cardinality({k}) = 1 /\ IsFiniteSet({k}) /\ j \notin {k}
        BY FS_Singleton
      <3>2. Cardinality({k} \cup {j}) = Cardinality({k}) + 1
        BY <3>1, FS_AddElement
      <3>3. {k} \cup {j} = {j, k}
        OBVIOUS
      <3> QED
        BY <3>1, <3>2, <3>3
    <2>5. Cardinality(Made) \in Nat
      BY <1>1, FS_CardinalityType
    <2> QED
      BY <2>3, <2>4, <2>5 DEF Incomplete
  <1> DEFINE f == [j \in Ledgers |-> ledger[j].net[t]]
  <1>3. \A j \in Ledgers : f[j] \in Int
    BY DEF TypeOK, LedgerRows
  <1>4. \A j \in Ledgers \ {k} : f[j] = 0
    BY <1>2 DEF LimitInv, UnmadeIsEmpty
  <1>5. f[k] = ledger[k].net[t] /\ Holding[t] = SumFunctionOnSet(f, Ledgers)
    BY <1>1 DEF Holding
  <1> HIDE DEF f
  <1>6. SumFunctionOnSet(f, Ledgers) = f[k] + SumFunctionOnSet(f, Ledgers \ {k})
    BY <1>1, <1>3, FinitelyMany, SumLess
  <1>7. SumFunctionOnSet(f, Ledgers \ {k}) = 0
    <2>1. IsFiniteSet(Ledgers \ {k})
      BY FinitelyMany, FS_Subset
    <2> QED
      BY <1>4, <2>1, SumZero
  <1>8. ledger[k].balance[t] = ledger[k].net[t]
    BY <1>1 DEF CallInv, LedgerInLockstep
  <1>9. ledger[k].net[t] \in Int
    BY <1>1 DEF TypeOK, LedgerRows
  <1> QED
    BY <1>1, <1>3, <1>5, <1>6, <1>7, <1>8, <1>9 DEF BalancesOf

\* c goes on; the others stay where they are.
LEMMA Turns ==
  ASSUME TypeOK, NEW c \in Calls, NEW state, Becomes(c, state)
  PROVE  call'[c] = state /\ \A d \in Calls \ {c} : call'[d] = call[d]
  BY DEF Becomes, TypeOK

\* A check begins.
LEMMA StartCheckLimits ==
  ASSUME TypeOK, TypeOK', CallInv, LimitInv, NEW c \in Calls, NEW o \in Orders,
         NEW line \in Bookings, NEW job \in {"book", "chat", "amend", "confirm"},
         StartCheck(c, job, o, line)
  PROVE  LimitInv'
  <1>1. PICK k \in LedgerFor(c) :
          Becomes(c, [Idle EXCEPT !.op = "check", !.job = job, !.order = o, !.line = line,
                                  !.held = BalancesOf(k), !.blind = Incomplete])
    BY DEF StartCheck
  <1>2. PICK held : held = BalancesOf(k)
    OBVIOUS
  <1>3. PICK blind \in BOOLEAN : blind = Incomplete
    BY DEF Incomplete
  <1>4. held \in [Types -> Int]
    BY <1>2, LedgerForType, HeldType
  <1> DEFINE state == [Idle EXCEPT !.op = "check", !.job = job, !.order = o, !.line = line,
                                   !.held = held, !.blind = blind]
  <1>5. state \in CallStates
    BY <1>4, CheckedType
  <1>6. state.op = "check" /\ state.held = held /\ state.blind = blind
    BY IdleType DEF CallStates
  <1> HIDE DEF state
  <1>7. call'[c] = state /\ \A d \in Calls \ {c} : call'[d] = call[d]
    <2>1. Becomes(c, state)
      BY <1>1, <1>2, <1>3 DEF state
    <2> QED
      BY <2>1, Turns
  <1>8. UNCHANGED <<order, ledger>> /\ BranchIsFree
    BY DEF StartCheck
  <1>9. Fits(c)'
    <2>1. CapFits(c)' /\ CreditFits(c)'
      BY <1>6, <1>7 DEF CapFits, CreditFits
    <2>2. ASSUME ~blind, NEW t \in Types
          PROVE  held[t] = Holding'[t]
      BY <1>2, <1>3, <1>8, <2>2, ReadIsHolding DEF Holding
    <2> QED
      BY <1>6, <1>7, <2>1, <2>2 DEF Fits, HeldFits
  <1> QED
    BY <1>7, <1>8, <1>9, QuietStep DEF SameToLimits

\* A check ends.
LEMMA CheckLimitsLimits ==
  ASSUME TypeOK, TypeOK', CallInv, LimitInv, NEW c \in Calls, CheckLimits(c)
  PROVE  LimitInv'
  <1>1. /\ UNCHANGED <<order, ledger>> /\ call[c] \in CallStates /\ call[c].op = "check"
        /\ \A d \in Calls \ {c} : call'[d] = call[d]
    <2>1. PICK state : Becomes(c, state)
      BY DEF CheckLimits
    <2> QED
      BY <2>1, Turns DEF CheckLimits, Is, TypeOK
  <1>2. CASE ~Passes(c)
    <2>1. call'[c].op = "idle"
      BY <1>2, IdleFields, Turns DEF CheckLimits
    <2> QED
      BY <1>1, <2>1, FitsAnyway, QuietStep DEF SameToLimits
  <1>3. CASE Passes(c)
    <2>1. /\ call'[c].op = "save" /\ call'[c].job = call[c].job
          /\ call'[c].order = call[c].order /\ call'[c].line = call[c].line
          /\ call'[c].held = call[c].held /\ call'[c].blind = call[c].blind
      <3>1. call'[c] = [call[c] EXCEPT !.op = "save"]
        BY <1>3, Turns DEF CheckLimits
      <3> QED
        BY <1>1, <3>1 DEF CallStates
    <2>2. Checks(c) /\ Holding' = Holding
      BY <1>1 DEF Checks, Holding
    <2>3. HeldFits(c)'
      BY <2>1, <2>2 DEF LimitInv, Fits, HeldFits
    <2>4. CreditFits(c)'
      BY <2>1 DEF CreditFits
    <2>5. WillHold(c)' = WillHold(c)
      <3>1. ASSUME NEW t
            PROVE  Coming(t, call[c].order)' = Coming(t, call[c].order)
        BY <1>1, <2>1 DEF Coming, Awaited
      <3> QED
        BY <2>1, <3>1 DEF WillHold
    <2>6. Projected(call[c].held, call[c].line, call[c].order)
            = SumFunctionOnSet(WillHold(c), Types)
      BY DEF Projected, WillHold
    <2>7. CapFits(c)'
      BY <1>3, <2>1, <2>5, <2>6 DEF CapFits, Passes
    <2> QED
      BY <1>1, <2>2, <2>3, <2>4, <2>7, QuietStep DEF SameToLimits, Fits
  <1> QED
    BY <1>2, <1>3

\* What a booking changes of its order
LEMMA BookingSaved ==
  ASSUME TypeOK, CallInv, NEW c \in Calls, SaveOrder(c)
  PROVE  /\ call[c].order \in Orders /\ call[c].line \in Bookings /\ Checks(c)
         /\ order[call[c].order].status # "delivered"
         /\ order'[call[c].order].type = call[c].line.type
         /\ order'[call[c].order].asked = call[c].line.asked
         /\ order'[call[c].order].got = order[call[c].order].got
         /\ order'[call[c].order].owed = order[call[c].order].owed
         /\ \A p \in Orders \ {call[c].order} : order'[p] = order[p]
         /\ \A d \in Calls \ {c} : call'[d] = call[d]
         /\ call'[c].op = "idle" /\ UNCHANGED ledger
  <1>1. PICK o : o = call[c].order
    OBVIOUS
  <1>2. PICK status : status = StatusSaved(c)
    OBVIOUS
  <1>3. /\ o \in Orders /\ call[c].line \in Bookings /\ Checks(c)
        /\ order[o].status # "delivered"
    BY <1>1 DEF SaveOrder, Is, CallInv, Stage, Checks
  <1>4. order' = [order EXCEPT ![o].status = status, ![o].type = call[c].line.type,
                               ![o].asked = call[c].line.asked]
    BY <1>1, <1>2 DEF SaveOrder
  <1>5. order \in [Orders -> OrderRows]
    BY DEF TypeOK
  <1>6. order'[o] = [order[o] EXCEPT !.status = status, !.type = call[c].line.type,
                                     !.asked = call[c].line.asked]
        /\ \A p \in Orders \ {o} : order'[p] = order[p]
    BY <1>3, <1>4, <1>5
  <1>7. /\ order'[o].type = call[c].line.type /\ order'[o].asked = call[c].line.asked
        /\ order'[o].got = order[o].got /\ order'[o].owed = order[o].owed
    <2>1. order[o] \in OrderRows
      BY <1>3, <1>5
    <2> QED
      BY <1>6, <2>1 DEF OrderRows
  <1>8. (\A d \in Calls \ {c} : call'[d] = call[d]) /\ call'[c].op = "idle" /\ UNCHANGED ledger
    BY IdleFields, Turns DEF SaveOrder
  <1> QED
    BY <1>1, <1>3, <1>6, <1>7, <1>8

\* A booking is saved.
LEMMA SaveOrderLimits ==
  ASSUME TypeOK, TypeOK', CallInv, LimitInv, NEW c \in Calls, SaveOrder(c)
  PROVE  LimitInv'
  <1>1. PICK o \in Orders : o = call[c].order
    BY BookingSaved
  <1>2. /\ order[o].status # "delivered"
        /\ order'[o].got = order[o].got /\ order'[o].owed = order[o].owed
        /\ \A p \in Orders \ {o} : order'[p] = order[p]
        /\ \A d \in Calls \ {c} : call'[d] = call[d]
        /\ call'[c].op = "idle" /\ UNCHANGED ledger /\ Checks(c)
    BY <1>1, BookingSaved
  <1>3. UndeliveredIsBlank' /\ UnmadeIsEmpty'
    BY <1>2 DEF LimitInv, UndeliveredIsBlank, UnmadeIsEmpty
  <1>4. OneChecks' /\ Fits(c)'
    BY <1>2, FitsAnyway, OneChecksKept DEF LimitInv
  <1>5. Owed' <= Owed
    <2>1. \A p \in Orders : order'[p].owed <= order[p].owed
      BY <1>2 DEF TypeOK, OrderRows
    <2> QED
      BY <2>1, OwedFalls
  <1>6. ASSUME NEW d \in Calls \ {c}
        PROVE  Fits(d)'
    <2>1. SameJob(d) /\ Fits(d) /\ ~Checks(d)
      BY <1>2 DEF SameJob, LimitInv, OneChecks
    <2> QED
      BY <1>5, <2>1, StillFits
  <1> QED
    BY <1>3, <1>4, <1>6 DEF LimitInv

\* The others go on, and know of it if they were to.
LEMMA Blinded ==
  ASSUME TypeOK, NEW c \in Calls, NEW state, NEW ops, BecomesSeen(c, state, ops),
         NEW d \in Calls \ {c}
  PROVE  SameJob(d) /\ (call[d].op \in ops => call'[d].blind)
  <1>1. call[d] \in CallStates
    BY DEF TypeOK
  <1>2. call'[d] = [call[d] EXCEPT !.blind = call[d].blind \/ call[d].op \in ops]
    BY DEF BecomesSeen
  <1> QED
    BY <1>1, <1>2 DEF CallStates, SameJob

\* A delivery is committed.
LEMMA SaveDeliveryLimits ==
  ASSUME TypeOK, TypeOK', CallInv, LimitInv, NEW c \in Calls, SaveDelivery(c)
  PROVE  LimitInv'
  <1>1. PICK o \in Orders : o = call[c].order
    BY DEF SaveDelivery, Is, CallInv, Stage
  <1>2. PICK state : state = [call[c] EXCEPT !.op = "ledger"]
    OBVIOUS
  <1>3. BecomesSeen(c, state, {"check", "save", "deliver"}) /\ UNCHANGED ledger
    BY <1>2 DEF SaveDelivery
  <1>4. call'[c].op = "ledger"
    <2>1. call[c] \in CallStates
      BY DEF TypeOK
    <2> QED
      BY <1>2, <1>3, <2>1 DEF BecomesSeen, CallStates
  <1>5. order'[o].status = "delivered" /\ \A p \in Orders \ {o} : order'[p] = order[p]
    <2>1. order[o] \in OrderRows /\ order \in [Orders -> OrderRows]
      BY DEF TypeOK
    <2> QED
      BY <1>1, <2>1 DEF SaveDelivery, OrderRows
  <1>6. UndeliveredIsBlank' /\ UnmadeIsEmpty'
    BY <1>3, <1>5 DEF LimitInv, UndeliveredIsBlank, UnmadeIsEmpty
  <1>7. \A d \in Calls \ {c} :
          SameJob(d) /\ (call[d].op \in {"check", "save", "deliver"} => call'[d].blind)
    BY <1>3, Blinded
  <1>8. OneChecks' /\ Fits(c)'
    BY <1>4, <1>7, FitsAnyway, OneChecksKept DEF LimitInv, SameJob
  <1>9. ASSUME NEW d \in Calls \ {c}
        PROVE  Fits(d)'
    <2>1. Fits(d)
      BY DEF LimitInv
    <2> QED
      BY <1>7, <2>1, StillFits DEF Checks
  <1> QED
    BY <1>6, <1>8, <1>9 DEF LimitInv

\* A row is written to the ledger.
LEMMA PostLimits ==
  ASSUME TypeOK, TypeOK', CallInv, LimitInv, NEW c \in Calls, Post(c)
  PROVE  LimitInv'
  <1>1. PICK k \in Ledgers : k = call[c].ledger
    BY DEF Post, Is, CallInv, Stage
  <1>2. /\ BecomesSeen(c, Afterwards(c), {"check", "save"}) /\ UNCHANGED order
        /\ call[c] \in CallStates
    BY DEF Post, TypeOK
  <1>3. call'[c].op \in {"invoice", "idle"}
    BY <1>2, IdleFields DEF BecomesSeen, Afterwards, CallStates
  <1>4. ledger'[k].made /\ \A j \in Ledgers \ {k} : ledger'[j] = ledger[j]
    <2>1. call[c].ledger \in Ledgers /\ TypeOf(c) \in Types /\ Delta(c) \in Int
          /\ call[c].delta \in Int
      BY <1>1, <1>2, RowType DEF Post, Is, CallInv, CallStates
    <2>2. ledger' \in [Ledgers -> LedgerRows] /\ RowPosted(k, TypeOf(c), call[c].delta, Delta(c))
      BY <1>1, <2>1, LedgerPosted DEF Post, TypeOK
    <2>3. ledger'[k].made
      BY <1>1 DEF Post, TypeOK, LedgerRows
    <2> QED
      BY <2>2, <2>3 DEF RowPosted
  <1>5. UndeliveredIsBlank' /\ UnmadeIsEmpty'
    BY <1>2, <1>4 DEF LimitInv, UndeliveredIsBlank, UnmadeIsEmpty
  <1>6. \A d \in Calls \ {c} :
          SameJob(d) /\ (call[d].op \in {"check", "save"} => call'[d].blind)
    BY <1>2, Blinded
  <1>7. OneChecks' /\ Fits(c)'
    BY <1>3, <1>6, FitsAnyway, OneChecksKept DEF LimitInv, SameJob
  <1>8. Owed' <= Owed
    BY <1>2, NothingAdded DEF SameToLimits
  <1>9. ASSUME NEW d \in Calls \ {c}
        PROVE  Fits(d)'
    <2>1. Fits(d)
      BY DEF LimitInv
    <2> QED
      BY <1>6, <1>8, <2>1, StillFits DEF Checks
  <1> QED
    BY <1>5, <1>7, <1>9 DEF LimitInv

\* Where every delivery that is owed for has its invoice, all is in the invoices.
LEMMA InvoicesAreAll ==
  ASSUME TypeOK, LimitInv, Unbilled = {}
  PROVE  Outstanding = Owed
  <1> DEFINE f == [o \in Orders |-> IF order[o].billed THEN order[o].owed ELSE 0]
             g == [o \in Orders |-> order[o].owed]
  <1>1. \A o \in Orders : f[o] = g[o]
    <2> SUFFICES ASSUME NEW o \in Orders, ~order[o].billed PROVE order[o].owed = 0
      OBVIOUS
    <2>1. order[o].owed \in Nat
      BY DEF TypeOK, OrderRows
    <2>2. o \notin Unbilled
      OBVIOUS
    <2> QED
      BY <2>1, <2>2 DEF Unbilled, Delivered, LimitInv, UndeliveredIsBlank
  <1>2. Outstanding = SumFunctionOnSet(f, Orders) /\ Owed = SumFunctionOnSet(g, Orders)
    BY DEF Outstanding, Owed
  <1> HIDE DEF f, g
  <1> QED
    BY <1>1, <1>2, FinitelyMany, SumSame

\* A delivery begins.
LEMMA DeliverOrderLimits ==
  ASSUME TypeOK, TypeOK', CallInv, LimitInv, NEW c \in Calls, NEW o \in Orders,
         NEW got \in Quantities, NEW back \in Quantities, NEW paid \in Quantities,
         DeliverOrder(c, o, got, back, paid)
  PROVE  LimitInv'
  <1> DEFINE line == [got |-> got, back |-> back, owed |-> got - paid]
  <1>1. line \in Handovers /\ line.owed = got - paid
    BY BoundsAssumption DEF DeliverOrder, Handovers
  <1> HIDE DEF line
  <1>2. PICK blind \in BOOLEAN : blind = (Unbilled # {})
    OBVIOUS
  <1> DEFINE state == [Idle EXCEPT !.op = "deliver", !.job = "deliver", !.order = o,
                                   !.line = line, !.blind = blind]
  <1>3. state.op = "deliver" /\ state.line = line /\ state.blind = blind
    BY IdleType DEF CallStates
  <1>4. Becomes(c, state)
    BY <1>2 DEF DeliverOrder, line
  <1> HIDE DEF state
  <1>5. /\ call'[c] = state /\ \A d \in Calls \ {c} : call'[d] = call[d]
        /\ UNCHANGED <<order, ledger>>
    BY <1>4, Turns DEF DeliverOrder
  <1>6. ~Checks(c)' /\ HeldFits(c)' /\ CapFits(c)'
    BY <1>3, <1>5 DEF Checks, HeldFits, CapFits
  <1>7. CreditFits(c)'
    <2> SUFFICES ASSUME ~blind, line.owed > 0 PROVE Owed' + line.owed <= CreditLimit
      BY <1>3, <1>5 DEF CreditFits
    <2>1. Outstanding = Owed
      BY <1>2, InvoicesAreAll
    <2>2. Outstanding + (got - paid) <= CreditLimit
      BY <1>1 DEF DeliverOrder, WithinCredit
    <2>3. Owed' = Owed
      BY <1>5 DEF Owed
    <2> QED
      BY <1>1, <2>1, <2>2, <2>3
  <1> QED
    BY <1>5, <1>6, <1>7, QuietStep DEF SameToLimits, Fits

\* What calls do at the ledger and the invoice, and when they end
LEMMA LaterLimits ==
  ASSUME TypeOK, TypeOK', CallInv, LimitInv, NEW c \in Calls,
         \/ NothingToPost(c) \/ AddRows(c) \/ GenerateInvoice(c) \/ Crash(c)
         \/ \E k \in Ledgers : ReadLedger(c, k) \/ Raise(c, k)
         \/ \E t \in Types, delta \in Deltas : AdjustLedgerBalance(c, t, delta)
  PROVE  LimitInv'
  <1>1. call[c] \in CallStates /\ order \in [Orders -> OrderRows]
    BY DEF TypeOK
  <1>2. UNCHANGED ledger
    BY DEF NothingToPost, AddRows, GenerateInvoice, Crash, ReadLedger, Raise,
           AdjustLedgerBalance
  <1> DEFINE later == {"idle", "ledger", "invoice", "rows", "post"}
  <1>3. PICK state : Becomes(c, state) /\ state.op \in later
    <2>1. CASE GenerateInvoice(c) \/ Crash(c)
      BY <2>1, IdleFields DEF GenerateInvoice, Crash
    <2>2. CASE NothingToPost(c)
      <3>1. [call[c] EXCEPT !.op = "invoice"].op = "invoice"
        BY <1>1 DEF CallStates
      <3> QED
        BY <2>2, <3>1 DEF NothingToPost
    <2>3. CASE AddRows(c)
      <3>1. PICK sum : sum = Base(c) + Delta(c)
        OBVIOUS
      <3>2. [call[c] EXCEPT !.op = "post", !.delta = sum].op = "post"
        BY <1>1 DEF CallStates
      <3>3. Becomes(c, [call[c] EXCEPT !.op = "post", !.delta = sum])
        BY <2>3, <3>1 DEF AddRows
      <3> QED
        BY <3>2, <3>3
    <2>4. ASSUME NEW k \in Ledgers, ReadLedger(c, k) \/ Raise(c, k)
          PROVE  \E state : Becomes(c, state) /\ state.op \in later
      <3>1. CASE Raise(c, k)
        BY <3>1, IdleFields DEF Raise
      <3>2. CASE ReadLedger(c, k)
        <4>1. PICK held : held = BalancesOf(k)
          OBVIOUS
        <4>2. [call[c] EXCEPT !.op = "rows", !.ledger = k, !.held = held].op = "rows"
          BY <1>1 DEF CallStates
        <4>3. Becomes(c, [call[c] EXCEPT !.op = "rows", !.ledger = k, !.held = held])
          BY <3>2, <4>1 DEF ReadLedger
        <4> QED
          BY <4>2, <4>3
      <3> QED
        BY <2>4, <3>1, <3>2
    <2>5. ASSUME NEW t \in Types, NEW delta \in Deltas, AdjustLedgerBalance(c, t, delta)
          PROVE  \E state : Becomes(c, state) /\ state.op \in later
      <3>1. PICK line : line = [type |-> t, delta |-> delta]
        OBVIOUS
      <3>2. [Idle EXCEPT !.op = "ledger", !.job = "adjust", !.line = line].op = "ledger"
        BY IdleType DEF CallStates
      <3>3. Becomes(c, [Idle EXCEPT !.op = "ledger", !.job = "adjust", !.line = line])
        BY <2>5, <3>1 DEF AdjustLedgerBalance
      <3> QED
        BY <3>2, <3>3
    <2> QED
      BY <2>1, <2>2, <2>3, <2>4, <2>5
  <1>4. SameToLimits
    <2>1. CASE GenerateInvoice(c)
      <3>1. call[c].order \in Orders
        BY <2>1 DEF GenerateInvoice, Is, CallInv, Stage
      <3> QED
        BY <1>1, <2>1, <3>1 DEF GenerateInvoice, Billed, SameToLimits, OrderRows
    <2>2. CASE UNCHANGED order
      BY <2>2 DEF SameToLimits
    <2> QED
      BY <2>1, <2>2 DEF NothingToPost, AddRows, Crash, ReadLedger, Raise, AdjustLedgerBalance
  <1> QED
    BY <1>2, <1>3, <1>4, Turns, FitsAnyway, QuietStep

\* Every step keeps what the limits rely on.
LEMMA LimitStep ==
  ASSUME TypeOK, TypeOK', CallInv, LimitInv, Next
  PROVE  LimitInv'
  <1>1. ASSUME NEW c \in Calls, AtTheOffice(c)
        PROVE  LimitInv'
    <2>1. ASSUME NEW o \in Orders, NEW t \in Types, NEW q \in Positive,
                 CreateOrder(c, o, t, q) \/ PlaceOrder(c, o, t, q) \/ AmendOrder(c, o, t, q)
          PROVE  LimitInv'
      <3>1. [type |-> t, asked |-> q] \in Bookings
        BY BoundsAssumption DEF Bookings, Positive
      <3> QED
        BY <2>1, <3>1, StartCheckLimits DEF CreateOrder, PlaceOrder, AmendOrder
    <2>2. ASSUME NEW o \in Orders, ConfirmOrder(c, o)
          PROVE  LimitInv'
      <3>1. PICK line : line = [type |-> order[o].type, asked |-> order[o].asked]
        OBVIOUS
      <3>2. line \in Bookings
        BY <3>1 DEF TypeOK, OrderRows, Bookings
      <3>3. StartCheck(c, "confirm", o, line)
        BY <2>2, <3>1 DEF ConfirmOrder
      <3> QED
        BY <3>2, <3>3, StartCheckLimits
    <2> QED
      BY <1>1, <2>1, <2>2, LaterLimits DEF AtTheOffice
  <1>2. ASSUME NEW c \in Calls, Goes(c)
        PROVE  LimitInv'
    BY <1>2, CheckLimitsLimits, SaveOrderLimits, SaveDeliveryLimits, PostLimits, LaterLimits
    DEF Goes
  <1>3. ASSUME NEW o \in Orders,
               Depart(o) \/ FailDelivery(o) \/ RescheduleOrder(o) \/ CancelOrder(o)
        PROVE  LimitInv'
    <2>1. \E from \in SUBSET Open, to \in Open \cup {"cancelled"} : Moves(o, from, to)
      BY <1>3 DEF Depart, FailDelivery, RescheduleOrder, CancelOrder, Open
    <2> QED
      BY <2>1, MovesLimits
  <1>4. ASSUME NEW o \in Orders, Reissue(o)
        PROVE  LimitInv'
    <2>1. SameToLimits /\ UNCHANGED <<call, ledger>>
      BY <1>4 DEF Reissue, Billed, SameToLimits, TypeOK, OrderRows
    <2>2. UndeliveredIsBlank'
      BY <2>1 DEF SameToLimits, LimitInv, UndeliveredIsBlank
    <2> QED
      BY <2>1, <2>2, NothingAdded, NoCallLimits
  <1>5. ASSUME NEW o \in Orders, NEW q \in Positive, RecordPayment(o, q)
        PROVE  LimitInv'
    BY <1>5, PaymentLimits, BoundsAssumption DEF Positive
  <1> QED
    BY <1>1, <1>2, <1>3, <1>4, <1>5, DeliverOrderLimits DEF Next

LEMMA LimitsUnchanged ==
  ASSUME TypeOK, TypeOK', CallInv, LimitInv, UNCHANGED vars
  PROVE  LimitInv'
  <1>1. SameToLimits /\ UNCHANGED <<call, ledger>>
    BY DEF vars, SameToLimits
  <1>2. UndeliveredIsBlank'
    BY <1>1 DEF SameToLimits, LimitInv, UndeliveredIsBlank
  <1> QED
    BY <1>1, <1>2, NothingAdded, NoCallLimits

LEMMA LimitStart == Init => LimitInv
  <1> SUFFICES ASSUME Init PROVE LimitInv
    OBVIOUS
  <1>1. UndeliveredIsBlank
    <2> SUFFICES ASSUME NEW o \in Orders PROVE order[o].got = 0 /\ order[o].owed = 0
      BY DEF UndeliveredIsBlank
    <2>1. order[o] \in {NoLine(t) : t \in Types}
      BY DEF Init
    <2>2. PICK t \in Types : order[o] = NoLine(t)
      BY <2>1
    <2> QED
      BY <2>2 DEF NoLine
  <1>2. UnmadeIsEmpty
    BY DEF Init, NoRows, UnmadeIsEmpty
  <1>3. \A c \in Calls : call[c].op = "idle"
    BY IdleFields DEF Init
  <1> QED
    BY <1>1, <1>2, <1>3 DEF LimitInv, OneChecks, Checks, Fits, HeldFits, CapFits, CreditFits

\* What a call goes on with, it alone decides.
LEMMA OthersKeepOp ==
  ASSUME TypeOK, NEW d \in Calls,
         \/ AtTheOffice(d) \/ Goes(d)
         \/ \E o \in Orders, got, back, paid \in Quantities : DeliverOrder(d, o, got, back, paid),
         NEW c \in Calls \ {d}
  PROVE  call'[c].op = call[c].op
  <1>1. \/ \E state : Becomes(d, state)
        \/ \E state, ops : BecomesSeen(d, state, ops)
    BY DEF AtTheOffice, Goes, DeliverOrder, CreateOrder, PlaceOrder, AmendOrder, ConfirmOrder,
           StartCheck, AdjustLedgerBalance, CheckLimits, SaveOrder, SaveDelivery, NothingToPost,
           ReadLedger, Raise, AddRows, Post, GenerateInvoice, Crash
  <1> QED
    BY <1>1, Turns, Blinded DEF SameJob

\* So what a call does next is a step of its own.
LEMMA WhoseStep ==
  ASSUME TypeOK, Next, NEW c \in Calls, call'[c].op # call[c].op, call[c].op # "idle"
  PROVE  Goes(c)
  <1>1. PICK d \in Calls :
          \/ AtTheOffice(d) \/ Goes(d)
          \/ \E o \in Orders, got, back, paid \in Quantities : DeliverOrder(d, o, got, back, paid)
    BY DEF Next, Depart, FailDelivery, RescheduleOrder, CancelOrder, Moves, Reissue, RecordPayment
  <1>2. d = c
    BY <1>1, OthersKeepOp
  <1>3. ~AtTheOffice(c)
    BY DEF AtTheOffice, CreateOrder, PlaceOrder, AmendOrder, ConfirmOrder, StartCheck,
           AdjustLedgerBalance, Is
  <1>4. \A o \in Orders, got, back, paid \in Quantities : ~DeliverOrder(c, o, got, back, paid)
    BY DEF DeliverOrder, Is
  <1> QED
    BY <1>1, <1>2, <1>3, <1>4

\* What is coming after a booking is what its check had counted.
LEMMA ComingAfter ==
  ASSUME TypeOK, TypeOK', CallInv, LimitInv, NEW c \in Calls, SaveOrder(c), NEW t \in Types
  PROVE  /\ Coming(t, NoOrder)' \in Int
         /\ Coming(t, NoOrder)' <= Coming(t, call[c].order)
              + (IF call[c].line.type = t THEN call[c].line.asked ELSE 0)
  <1>1. PICK o \in Orders : o = call[c].order
    BY BookingSaved
  <1>2. PICK line \in Bookings : line = call[c].line
    BY BookingSaved
  <1>3. /\ order[o].got = 0 /\ order'[o].type = line.type /\ order'[o].asked = line.asked
        /\ order'[o].got = 0 /\ \A p \in Orders \ {o} : order'[p] = order[p]
    BY <1>1, <1>2, BookingSaved DEF LimitInv, UndeliveredIsBlank
  <1> DEFINE f == Awaited(t)'
             g == Awaited(t)
  <1>4. f[o] \in Int /\ f[o] <= (IF line.type = t THEN line.asked ELSE 0)
    BY <1>3 DEF Awaited, Bookings
  <1>5. \A p \in Orders \ {o} : f[p] = g[p]
    BY <1>3 DEF Awaited
  <1>6. \A p \in Orders : g[p] \in Int
    BY AwaitedInt
  <1>7. /\ Coming(t, NoOrder)' = SumFunctionOnSet(f, Orders)
        /\ Coming(t, o) = SumFunctionOnSet(g, Orders \ {o})
    <2>1. Orders \ {NoOrder} = Orders
      BY NamesAssumption
    <2> QED
      BY <2>1 DEF Coming
  <1> HIDE DEF f, g
  <1>8. \A p \in Orders : f[p] \in Int
    BY <1>4, <1>5, <1>6
  <1>9. SumFunctionOnSet(f, Orders) = f[o] + SumFunctionOnSet(f, Orders \ {o})
    BY <1>8, FinitelyMany, SumLess
  <1>10. SumFunctionOnSet(f, Orders \ {o}) = SumFunctionOnSet(g, Orders \ {o})
    BY <1>5, FinitelyMany, SumSame
  <1>11. SumFunctionOnSet(g, Orders \ {o}) \in Int
    BY <1>6, FinitelyMany, SumInt
  <1>12. (IF line.type = t THEN line.asked ELSE 0) \in Int
    BY DEF Bookings
  <1> QED
    BY <1>1, <1>2, <1>4, <1>7, <1>9, <1>10, <1>11, <1>12

\* What was compared with the cap is at least what the customer will then have.
LEMMA CapStep ==
  ASSUME TypeOK, TypeOK', CallInv, LimitInv, Next
  PROVE  BookingsWithinCap
  <1> SUFFICES ASSUME NEW c \in Calls, Saves(c), ~call[c].blind PROVE WillHave' <= Cap
    BY DEF BookingsWithinCap
  <1>1. call[c].op = "save" /\ call[c].job # "chat" /\ order' # order /\ call'[c].op = "idle"
    BY DEF Saves, Is
  <1>2. SaveOrder(c)
    <2>1. Goes(c)
      BY <1>1, WhoseStep
    <2> QED
      BY <1>1, <2>1 DEF Goes, CheckLimits, SaveDelivery, NothingToPost, ReadLedger, Raise,
                        AddRows, Post, GenerateInvoice, Crash, Is
  <1>3. /\ call[c].line \in Bookings /\ Holding' = Holding /\ Checks(c)
    BY <1>2, BookingSaved DEF Holding
  <1>4. SumFunctionOnSet(WillHold(c), Types) <= Cap
    BY <1>1 DEF LimitInv, Fits, CapFits
  <1> DEFINE f == [t \in Types |-> Larger(Holding[t], Coming(t, NoOrder))]'
             g == WillHold(c)
  <1>5. ASSUME NEW t \in Types
        PROVE  f[t] \in Int /\ g[t] \in Int /\ f[t] <= g[t]
    <2>1. f[t] = Larger(Holding[t], Coming(t, NoOrder)')
      BY <1>3
    <2>2. Holding[t] = call[c].held[t]
      BY <1>3 DEF LimitInv, Fits, HeldFits
    <2>3. /\ Coming(t, NoOrder)' \in Int
          /\ Coming(t, NoOrder)' <= Coming(t, call[c].order)
               + (IF call[c].line.type = t THEN call[c].line.asked ELSE 0)
      BY <1>2, ComingAfter
    <2>4. Coming(t, call[c].order) \in Int
      BY ComingInt
    <2>5. /\ g[t] = Larger(Larger(call[c].held[t], 0),
                           Coming(t, call[c].order)
                             + (IF call[c].line.type = t THEN call[c].line.asked ELSE 0))
          /\ call[c].held[t] \in Int /\ call[c].line.asked \in Nat
      BY <1>3, WillHoldAt
    <2> HIDE DEF f, g
    <2> QED
      BY <2>1, <2>2, <2>3, <2>4, <2>5 DEF Larger
  <1>6. WillHave' = SumFunctionOnSet(f, Types)
    BY DEF WillHave
  <1> HIDE DEF f, g
  <1>7. SumFunctionOnSet(f, Types) <= SumFunctionOnSet(g, Types)
    BY <1>5, FinitelyMany, SumAtMost
  <1>8. SumFunctionOnSet(f, Types) \in Int /\ SumFunctionOnSet(g, Types) \in Int
    BY <1>5, FinitelyMany, SumInt
  <1>9. SumFunctionOnSet(g, Types) <= Cap
    BY <1>4 DEF g
  <1> QED
    BY <1>6, <1>7, <1>8, <1>9, BoundsAssumption

\* What was let on account is still within the limit when it is committed.
LEMMA CreditStep ==
  ASSUME TypeOK, TypeOK', CallInv, LimitInv, Next
  PROVE  DeliveriesWithinLimit
  <1> SUFFICES ASSUME NEW c \in Calls, Is(c, "deliver"), call'[c].op = "ledger", ~call[c].blind,
                      call[c].line.owed # 0
               PROVE  Owed' <= CreditLimit
    BY DEF DeliveriesWithinLimit
  <1>1. call[c].op = "deliver"
    BY DEF Is
  <1>2. SaveDelivery(c)
    <2>1. Goes(c)
      BY <1>1, WhoseStep
    <2>2. ~Crash(c)
      BY IdleFields, Turns DEF Crash
    <2> QED
      BY <1>1, <2>1, <2>2 DEF Goes, CheckLimits, SaveOrder, NothingToPost, ReadLedger, Raise,
                              AddRows, Post, GenerateInvoice, Is
  <1>3. PICK o \in Orders : o = call[c].order
    BY <1>1 DEF CallInv, Stage
  <1>4. PICK line \in Handovers : line = call[c].line
    BY <1>1 DEF CallInv, Stage
  <1>5. Owed + line.owed <= CreditLimit
    BY <1>1, <1>4 DEF LimitInv, Fits, CreditFits, Handovers
  <1>6. order'[o].owed = line.owed /\ \A p \in Orders \ {o} : order'[p] = order[p]
    <2>1. order \in [Orders -> OrderRows] /\ order[o] \in OrderRows
      BY DEF TypeOK
    <2> QED
      BY <1>2, <1>3, <1>4, <2>1 DEF SaveDelivery, OrderRows
  <1> DEFINE f == [p \in Orders |-> order[p].owed]
             g == [p \in Orders |-> order'[p].owed]
  <1>7. /\ \A p \in Orders : f[p] \in Int /\ g[p] \in Int
        /\ \A p \in Orders \ {o} : g[p] = f[p]
        /\ g[o] = line.owed /\ f[o] >= 0
    BY <1>6 DEF TypeOK, OrderRows
  <1>8. Owed = SumFunctionOnSet(f, Orders) /\ Owed' = SumFunctionOnSet(g, Orders)
    BY DEF Owed
  <1> HIDE DEF f, g
  <1>9. SumFunctionOnSet(g, Orders) = SumFunctionOnSet(f, Orders) + (g[o] - f[o])
    BY <1>7, FinitelyMany, SumChange
  <1>10. Owed \in Int /\ line.owed \in Nat /\ f[o] \in Int
    BY <1>7, OwedInt DEF Handovers
  <1> QED
    BY <1>5, <1>7, <1>8, <1>9, <1>10, BoundsAssumption

-----------------------------------------------------------------------------
(* Theorems *)

IInv == TypeOK /\ CallInv /\ OnLedgerOnce

LEMMA Start == Init => IInv
  <1> SUFFICES ASSUME Init PROVE IInv
    OBVIOUS
  <1>1. \A o \in Orders : /\ order[o] \in OrderRows /\ order[o].status = "draft"
                         /\ posted[o] = 0
    <2> SUFFICES ASSUME NEW o \in Orders
                 PROVE  /\ order[o] \in OrderRows /\ order[o].status = "draft"
                        /\ posted[o] = 0
      OBVIOUS
    <2>1. order[o] \in {NoLine(t) : t \in Types}
      BY DEF Init
    <2>2. PICK t \in Types : order[o] = NoLine(t)
      BY <2>1
    <2>3. NoLine(t) \in OrderRows /\ NoLine(t).status = "draft"
      BY DEF NoLine, OrderRows, Statuses
    <2> QED
      BY <2>2, <2>3 DEF Init
  <1>2. order \in [Orders -> OrderRows]
    BY <1>1 DEF Init
  <1>3. ledger \in [Ledgers -> LedgerRows]
        /\ \A k \in Ledgers, t \in Types : ledger[k].balance[t] = ledger[k].net[t]
    BY DEF Init, NoRows, LedgerRows
  <1>4. call \in [Calls -> CallStates] /\ \A c \in Calls : call[c] = Idle
    BY IdleType DEF Init
  <1>5. TypeOK
    BY <1>2, <1>3, <1>4 DEF Init, TypeOK
  <1>6. \A c \in Calls : Stage(c) /\ AtLedger(c)
    BY <1>4, IdleFields DEF Stage, AtLedger
  <1>7. CallInv
    BY <1>3, <1>4, <1>6, IdleFields DEF Init, CallInv, OwnOrder, LostAreDelivered, WritesTheSum,
       OneWriter, LedgerInLockstep
  <1>8. OnLedgerOnce
    BY <1>1 DEF OnLedgerOnce, Delivered
  <1> QED
    BY <1>5, <1>7, <1>8 DEF IInv

LEMMA Unchanged ==
  ASSUME IInv, UNCHANGED vars
  PROVE  IInv'
  BY DEF IInv, vars, ghosts, counters, TypeOK, CallInv, OwnOrder, Stage, AtLedger, Moved,
     LostAreDelivered, WritesTheSum, OneWriter, LedgerInLockstep, TypeOf, Delta,
     OnLedgerOnce, Delivered, Posting

\* The invariant: what a call has read of the ledger and of its order is still
\* so when it writes.
THEOREM Invariance == Spec => []IInv
  <1>1. IInv /\ [Next]_vars => IInv'
    BY TypeStep, CallStep, OnceStep, Unchanged DEF IInv, CallInv
  <1> QED
    BY Start, <1>1, PTL DEF Spec

\* Every variable keeps its type, whatever is booked, delivered and corrected.
THEOREM TypeCorrect == Spec => []TypeOK
  <1>1. IInv => TypeOK
    BY DEF IInv
  <1> QED
    BY Invariance, <1>1, PTL

\* However many deliveries and corrections there are at once: a balance is the
\* sum of its rows.
THEOREM BalancesInLockstep == Spec => []LedgerInLockstep
  <1>1. IInv => LedgerInLockstep
    BY DEF IInv, CallInv
  <1> QED
    BY Invariance, <1>1, PTL

\* However many orders and calls, and wherever a process dies: a delivery is on
\* the ledger once, unless its handler raised or its process died.
THEOREM DeliveredOnLedgerOnce == Spec => []OnLedgerOnce
  <1>1. IInv => OnLedgerOnce
    BY DEF IInv
  <1> QED
    BY Invariance, <1>1, PTL

\* The invariant behind both limits, on top of IInv
LEMMA LimitInvariance == Spec => []LimitInv
  <1>1. IInv /\ IInv' /\ LimitInv /\ [Next]_vars => LimitInv'
    BY LimitStep, LimitsUnchanged DEF IInv
  <1> QED
    BY LimitStart, Invariance, <1>1, PTL DEF Spec

\* However many orders, types and calls: bookings never take a customer past his
\* cap, unless one checked while the ledger was behind the deliveries (BR-04).
THEOREM BookedWithinCapAlways == Spec => BookedWithinCap
  <1>1. IInv /\ IInv' /\ LimitInv /\ [Next]_vars => [BookingsWithinCap]_vars
    BY CapStep DEF IInv
  <1> QED
    BY Invariance, LimitInvariance, <1>1, PTL DEF Spec, BookedWithinCap

\* However many deliveries are under way: nothing goes on account past the limit,
\* unless an earlier delivery had no invoice yet (BR-19).
THEOREM OnAccountWithinLimitAlways == Spec => OnAccountWithinLimit
  <1>1. IInv /\ IInv' /\ LimitInv /\ [Next]_vars => [DeliveriesWithinLimit]_vars
    BY CreditStep DEF IInv
  <1> QED
    BY Invariance, LimitInvariance, <1>1, PTL DEF Spec, OnAccountWithinLimit
=============================================================================
