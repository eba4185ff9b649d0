-------------------------- MODULE StockLedgerProofs --------------------------
(***************************************************************************)
(* For any warehouses, vans, statuses handled and calls at once: no balance *)
(* goes below zero, the register opens with what was there, and a count is  *)
(* booked once and for what it found.                                       *)
(***************************************************************************)
EXTENDS StockLedger, SumTheorems, TLAPS

Reservations == {"reservation", "reservation_release"}
Corrections == {"adjustment", "reconciliation"}

\* The rows of one call are all reservations, all corrections, or neither.
OneKind(rows) ==
    \/ \A row \in rows : row.type \in Reservations /\ row.at \in Vehicles /\ row.to = "filled"
    \/ \A row \in rows : row.type \in Corrections
    \/ \A row \in rows : row.type \notin Reservations \cup Corrections

RowsAreSound == \A c \in Calls : IsFiniteSet(call[c].rows) /\ OneKind(call[c].rows)

\* What a call is to write of a cell is its balance with the call's own rows.
WritesFollowRows ==
    \A c \in Calls, l \in Locations, s \in Statuses :
        /\ <<l, s>> \notin CellsOf(call[c].writes) => Net(call[c].rows, l, s) = 0
        /\ \A x \in call[c].writes :
              x.at = l /\ x.status = s /\ <<l, s>> \notin torn
                => x.quantity = balance[l][s] + Net(call[c].rows, l, s)

TwoWritersAreTorn ==
    \A c, d \in Calls :
        c # d => CellsOf(call[c].writes) \cap CellsOf(call[d].writes) \subseteq torn

\* What the ledger says has changed is what has changed.
LedgerAddsUp ==
    \A l \in Locations, s \in Statuses :
        <<l, s>> \notin torn => balance[l][s] - net[l][s] = FirstStock[l][s]

\* What a register has read is still the balance, except where it was crossed.
RegisterIsFresh ==
    register # NoRegister =>
        /\ register.at \in Locations
        /\ \A s \in Statuses \ register.crossed : register.read[s] = balance[register.at][s]

\* The calls under way release no more of a van than is set aside on it.
ReleasesAreCovered == \A v \in Vehicles : SetAside(v) >= 0

\* What a call is doing to a count
OnCount(c) ==
    /\ call[c].op = "idle" => call[c] = Idle
    /\ call[c].op = "move" => call[c].count = NoCount
    /\ call[c].op = "count" => /\ call[c].count \in Counts /\ call[c].rows = {}
                              /\ count[call[c].count].state = "recording"
    /\ call[c].op \in {"approve", "reject"} =>
          call[c].count \in Counts /\ count[call[c].count].state = "pending"
    /\ call[c].op = "approve" =>
          LET r == call[c].count
          IN  Net(call[c].rows, count[r].at[1], count[r].at[2]) = Variance(r)

OneCallPerCount ==
    \A c, d \in Calls : c # d /\ call[c].count = call[d].count => call[c].count = NoCount

CountsHaveCells == \A r \in Counts : count[r].state # "none" => count[r].at \in Cells

\* Until it is decided, what a count expected and what has moved since make up
\* the balance.
CountHolds(r) ==
    /\ count[r].state \in {"recording", "pending"} /\ count[r].clean
    /\ count[r].at \notin torn
    => balance[count[r].at[1]][count[r].at[2]] + Aside(count[r].at)
         = count[r].expected + count[r].moved

CallInv ==
    /\ RowsAreSound /\ WritesFollowRows /\ TwoWritersAreTorn /\ ReleasesAreCovered
    /\ LedgerAddsUp /\ RegisterIsFresh

CountInv ==
    /\ \A c \in Calls : OnCount(c)
    /\ OneCallPerCount /\ CountsHaveCells /\ BookedOnce
    /\ \A r \in Counts : CountHolds(r)

LedgerInv == TypeOK /\ CallInv /\ CountInv

-----------------------------------------------------------------------------
(* What rows add up to *)

LEMMA SignedOf ==
  ASSUME NEW row, NEW s
  PROVE  /\ row.type \in In => Signed(row, s) = If(s = row.to, row.qty)
         /\ row.type \in Out => Signed(row, s) = -If(s = row.to, row.qty)
         /\ row.type = "reconciliation" =>
              Signed(row, s) = If(s = row.to, IF row.from = "none" THEN row.qty ELSE -row.qty)
         /\ row.type \in {"status_change", "adjustment"} =>
              Signed(row, s) = If(s = row.to, row.qty) - If(s = row.from, row.qty)
BY DEF Signed, In, Out

LEMMA SignedInt ==
  ASSUME NEW row \in Rows, NEW s \in Statuses
  PROVE  Signed(row, s) \in Int
<1>1. row.qty \in Int
  BY DEF Rows
<1>2. If(s = row.to, row.qty) \in Int /\ If(s = row.from, row.qty) \in Int
      /\ If(s = row.to, IF row.from = "none" THEN row.qty ELSE -row.qty) \in Int
  BY <1>1 DEF If
<1> QED
  BY <1>2 DEF Signed

LEMMA NetInt ==
  ASSUME NEW rows, rows \subseteq Rows, IsFiniteSet(rows), NEW l, NEW s \in Statuses
  PROVE  Net(rows, l, s) \in Int
<1> DEFINE at == [row \in rows |-> If(row.at = l, Signed(row, s))]
<1>1. \A row \in rows : at[row] \in Int
  BY SignedInt DEF If
<1> HIDE DEF at
<1>2. SumFunctionOnSet(at, rows) \in Int
  BY <1>1, SumInt
<1> QED
  BY <1>2 DEF Net, at

LEMMA NetZero ==
  ASSUME NEW rows, IsFiniteSet(rows), NEW l, NEW s,
         \A row \in rows : row.at = l => Signed(row, s) = 0
  PROVE  Net(rows, l, s) = 0
<1> DEFINE at == [row \in rows |-> If(row.at = l, Signed(row, s))]
<1>1. \A row \in rows : at[row] = 0
  BY DEF If
<1> HIDE DEF at
<1>2. SumFunctionOnSet(at, rows) = 0
  BY <1>1, SumZero
<1> QED
  BY <1>2 DEF Net, at

LEMMA NetNone ==
  ASSUME NEW l, NEW s
  PROVE  Net({}, l, s) = 0
BY SumEmpty DEF Net

LEMMA NetOne ==
  ASSUME NEW row \in Rows, NEW l, NEW s \in Statuses
  PROVE  Net({row}, l, s) = If(row.at = l, Signed(row, s))
<1> DEFINE at == [r \in {row} |-> If(r.at = l, Signed(r, s))]
<1>1. \A r \in {row} : at[r] \in Int
  BY SignedInt DEF If
<1>2. at[row] = If(row.at = l, Signed(row, s))
  OBVIOUS
<1> HIDE DEF at
<1>3. SumFunctionOnSet(at, {row}) = at[row] + SumFunctionOnSet(at, {row} \ {row})
  BY <1>1, FS_Singleton, SumLess
<1>4. {row} \ {row} = {}
  OBVIOUS
<1>5. SumFunctionOnSet(at, {row}) = at[row]
  BY <1>1, <1>3, <1>4, SumEmpty
<1> QED
  BY <1>2, <1>5 DEF Net, at

\* Rows at two locations do not mix.
LEMMA NetTwo ==
  ASSUME NEW row \in Rows, NEW other \in Rows, row.at # other.at,
         NEW l, NEW s \in Statuses
  PROVE  /\ IsFiniteSet({row, other})
         /\ Net({row, other}, l, s) = If(row.at = l, Signed(row, s))
                                       + If(other.at = l, Signed(other, s))
<1> DEFINE both == {row, other}
           at == [r \in both |-> If(r.at = l, Signed(r, s))]
<1>1. IsFiniteSet(both) /\ IsFiniteSet({other})
  <2>1. IsFiniteSet({other}) /\ both = {other} \cup {row}
    BY FS_Singleton
  <2> QED
    BY <2>1, FS_AddElement
<1>2. \A r \in both : at[r] \in Int
  BY SignedInt DEF If
<1>3. /\ at[row] = If(row.at = l, Signed(row, s))
      /\ at[other] = If(other.at = l, Signed(other, s))
  OBVIOUS
<1>4. row # other /\ both \ {row} = {other} /\ {other} \ {other} = {} /\ row \in both
      /\ other \in both /\ {other} \subseteq both
  OBVIOUS
<1> HIDE DEF at, both
<1>5. SumFunctionOnSet(at, both) = at[row] + SumFunctionOnSet(at, {other})
  BY <1>1, <1>2, <1>4, SumLess
<1>6. SumFunctionOnSet(at, {other}) = at[other] + SumFunctionOnSet(at, {})
  BY <1>1, <1>2, <1>4, SumLess
<1>7. SumFunctionOnSet(at, both) = at[row] + at[other]
  BY <1>2, <1>4, <1>5, <1>6, SumEmpty
<1> QED
  BY <1>1, <1>3, <1>7 DEF Net, at, both

LEMMA LeavingNat ==
  ASSUME NEW rows, rows \subseteq Rows, IsFiniteSet(rows), NEW v
  PROVE  Leaving(rows, v) \in Nat
<1> DEFINE out == [row \in rows |-> If(row.type = "reservation_release" /\ row.at = v, row.qty)]
<1>1. \A row \in rows : out[row] \in Nat
  BY DEF If, Rows
<1> HIDE DEF out
<1>2. SumFunctionOnSet(out, rows) \in Nat
  BY <1>1, SumNat
<1> QED
  BY <1>2 DEF Leaving, out

LEMMA NothingLeaves ==
  ASSUME NEW rows, IsFiniteSet(rows), NEW v,
         \A row \in rows : row.type # "reservation_release" \/ row.at # v
  PROVE  Leaving(rows, v) = 0
<1> DEFINE out == [row \in rows |-> If(row.type = "reservation_release" /\ row.at = v, row.qty)]
<1>1. \A row \in rows : out[row] = 0
  BY DEF If
<1> HIDE DEF out
<1>2. SumFunctionOnSet(out, rows) = 0
  BY <1>1, SumZero
<1> QED
  BY <1>2 DEF Leaving, out

LEMMA OneLeaves ==
  ASSUME NEW row \in Rows, NEW v
  PROVE  Leaving({row}, v) = If(row.type = "reservation_release" /\ row.at = v, row.qty)
<1> DEFINE out == [r \in {row} |-> If(r.type = "reservation_release" /\ r.at = v, r.qty)]
<1>1. \A r \in {row} : out[r] \in Int
  BY DEF If, Rows
<1>2. out[row] = If(row.type = "reservation_release" /\ row.at = v, row.qty)
  OBVIOUS
<1> HIDE DEF out
<1>3. SumFunctionOnSet(out, {row}) = out[row] + SumFunctionOnSet(out, {row} \ {row})
  BY <1>1, FS_Singleton, SumLess
<1>4. {row} \ {row} = {}
  OBVIOUS
<1>5. SumFunctionOnSet(out, {row}) = out[row]
  BY <1>1, <1>3, <1>4, SumEmpty
<1> QED
  BY <1>2, <1>5 DEF Leaving, out

\* Reservations take from a van's set-aside at most what they release.
LEMMA TakenLeaves ==
  ASSUME NEW rows, rows \subseteq Rows, IsFiniteSet(rows), NEW v,
         \A row \in rows : row.type \in Reservations
  PROVE  Net(rows, v, "filled") <= Leaving(rows, v)
<1> DEFINE at == [row \in rows |-> If(row.at = v, Signed(row, "filled"))]
           out == [row \in rows |-> If(row.type = "reservation_release" /\ row.at = v, row.qty)]
<1>1. ASSUME NEW row \in rows
      PROVE  at[row] \in Int /\ out[row] \in Int /\ at[row] <= out[row]
  <2>1. row \in Rows /\ row.qty \in Nat /\ row.type \in Reservations
    BY DEF Rows
  <2>2. CASE row.type = "reservation"
    <3>1. Signed(row, "filled") = -If("filled" = row.to, row.qty)
      BY <2>2, SignedOf DEF Out
    <3> QED
      BY <2>1, <2>2, <3>1 DEF If
  <2>3. CASE row.type = "reservation_release"
    <3>1. Signed(row, "filled") = If("filled" = row.to, row.qty)
      BY <2>3, SignedOf DEF In
    <3> QED
      BY <2>1, <2>3, <3>1 DEF If
  <2> QED
    BY <2>1, <2>2, <2>3 DEF Reservations
<1> HIDE DEF at, out
<1>2. SumFunctionOnSet(at, rows) <= SumFunctionOnSet(out, rows)
  BY <1>1, SumAtMost
<1> QED
  BY <1>2 DEF Net, Leaving, at, out

-----------------------------------------------------------------------------
(* What a call sets out to do *)

Changes == [at : Locations, status : Statuses, by : Int]

\* The rows say of each cell what the changes do to it.
RowsMatch(changes, rows) ==
    \A l \in Locations, s \in Statuses :
        /\ <<l, s>> \notin CellsOf(changes) => Net(rows, l, s) = 0
        /\ \A x \in changes : x.at = l /\ x.status = s => x.by = Net(rows, l, s)

SoundChange(changes, rows) ==
    /\ changes \subseteq Changes /\ rows \subseteq Rows
    /\ IsFiniteSet(rows) /\ OneKind(rows) /\ RowsMatch(changes, rows)

CoveredRelease(rows) == \A v \in Vehicles : Leaving(rows, v) = 0 \/ Leaving(rows, v) <= SetAside(v)

\* What a call that starts says of the counts
CountSide(op, r, rows) ==
    \/ op = "move" /\ r = NoCount /\ UNCHANGED count
    \/ /\ op = "count" /\ r \in Counts /\ count[r].state = "none" /\ rows = {}
       /\ \E l \in Locations, s \in Statuses, actual \in Quantities :
            count' = [count EXCEPT ![r] =
                        [state |-> "recording", at |-> <<l, s>>, expected |-> balance[l][s],
                         actual |-> actual, moved |-> 0, clean |-> Aside(<<l, s>>) = 0]]
    \/ /\ op \in {"approve", "reject"} /\ r \in Counts /\ Decidable(r) /\ UNCHANGED count
       /\ op = "approve" => Net(rows, count[r].at[1], count[r].at[2]) = Variance(r)

Starts(c, op, r, changes, rows) ==
    /\ Start(c, op, r, changes, rows) /\ SoundChange(changes, rows)
    /\ CoveredRelease(rows) /\ CountSide(op, r, rows)

LEMMA RowType ==
  ASSUME NEW l \in Locations, NEW type \in Types, NEW from \in Statuses \cup {"none"},
         NEW to \in Statuses, NEW q \in Nat
  PROVE  /\ Row(l, type, from, to, q) \in Rows
         /\ Row(l, type, from, to, q).at = l /\ Row(l, type, from, to, q).type = type
         /\ Row(l, type, from, to, q).from = from /\ Row(l, type, from, to, q).to = to
         /\ Row(l, type, from, to, q).qty = q
BY DEF Row, Rows

LEMMA ChangeType ==
  ASSUME NEW l \in Locations, NEW s \in Statuses, NEW q \in Int
  PROVE  /\ Credit(l, s, q) \in Changes /\ Debit(l, s, q) \in Changes
         /\ Credit(l, s, q).at = l /\ Credit(l, s, q).status = s /\ Credit(l, s, q).by = q
         /\ Debit(l, s, q).at = l /\ Debit(l, s, q).status = s /\ Debit(l, s, q).by = -q
BY DEF Credit, Debit, Changes

LEMMA NoChange == SoundChange({}, {}) /\ CoveredRelease({})
<1>1. IsFiniteSet({})
  BY FS_EmptySet
<1>2. \A v \in Vehicles : Leaving({}, v) = 0
  BY <1>1, NothingLeaves
<1> QED
  BY <1>1, <1>2, NetNone DEF SoundChange, OneKind, RowsMatch, CoveredRelease

\* One cell is changed, with one row.
LEMMA OneCell ==
  ASSUME NEW x \in Changes, NEW row \in Rows, row.at = x.at, Signed(row, x.status) = x.by,
         \A s \in Statuses : s # x.status => Signed(row, s) = 0,
         row.type \in Reservations => row.at \in Vehicles /\ row.to = "filled"
  PROVE  SoundChange({x}, {row})
<1>1. IsFiniteSet({row}) /\ OneKind({row})
  BY FS_Singleton DEF OneKind
<1>2. CellsOf({x}) = {<<x.at, x.status>>} /\ x.by \in Int
  BY DEF CellsOf, Changes
<1>3. RowsMatch({x}, {row})
  <2> SUFFICES ASSUME NEW l \in Locations, NEW s \in Statuses
               PROVE  /\ <<l, s>> \notin CellsOf({x}) => Net({row}, l, s) = 0
                      /\ x.at = l /\ x.status = s => x.by = Net({row}, l, s)
    BY DEF RowsMatch
  <2>1. Net({row}, l, s) = If(row.at = l, Signed(row, s))
    BY NetOne
  <2> QED
    BY <1>2, <2>1 DEF If
<1> QED
  BY <1>1, <1>3 DEF SoundChange

\* Cylinders of one location get another status.
LEMMA TwoStatuses ==
  ASSUME NEW l \in Locations, NEW from \in Statuses, NEW to \in Statuses, from # to,
         NEW q \in Nat, NEW type \in {"status_change", "adjustment"}
  PROVE  SoundChange({Debit(l, from, q), Credit(l, to, q)}, {Row(l, type, from, to, q)})
<1> DEFINE row == Row(l, type, from, to, q)
           out == Debit(l, from, q)
           in == Credit(l, to, q)
<1>1. /\ row \in Rows /\ row.at = l /\ row.type = type /\ row.from = from /\ row.to = to
      /\ row.qty = q
  BY RowType DEF Types
<1>2. /\ out \in Changes /\ out.at = l /\ out.status = from /\ out.by = -q
      /\ in \in Changes /\ in.at = l /\ in.status = to /\ in.by = q
  BY ChangeType
<1> HIDE DEF row, in, out
<1>3. \A s \in Statuses : Signed(row, s) = If(s = to, q) - If(s = from, q)
  BY <1>1, SignedOf
<1>4. IsFiniteSet({row}) /\ OneKind({row})
  BY <1>1, FS_Singleton DEF OneKind, Reservations, Corrections
<1>5. CellsOf({out, in}) = {<<l, from>>, <<l, to>>}
  BY <1>2 DEF CellsOf
<1>6. RowsMatch({out, in}, {row})
  <2> SUFFICES ASSUME NEW k \in Locations, NEW s \in Statuses
               PROVE  /\ <<k, s>> \notin {<<l, from>>, <<l, to>>} => Net({row}, k, s) = 0
                      /\ \A x \in {out, in} :
                           x.at = k /\ x.status = s => x.by = Net({row}, k, s)
    BY <1>5 DEF RowsMatch
  <2>1. Net({row}, k, s) = If(l = k, Signed(row, s))
    BY <1>1, NetOne
  <2>2. Net({row}, k, s) = IF l = k THEN (IF s = to THEN q ELSE IF s = from THEN -q ELSE 0) ELSE 0
    BY <1>3, <2>1 DEF If
  <2> QED
    BY <1>2, <2>2
<1> QED
  BY <1>1, <1>2, <1>4, <1>6 DEF SoundChange, row, in, out

\* Cylinders of one status go from one location to another.
LEMMA TwoLocations ==
  ASSUME NEW w \in Locations, NEW v \in Locations, w # v, NEW s \in Statuses, NEW q \in Nat
  PROVE  SoundChange({Debit(w, s, q), Credit(v, s, q)},
                     {Row(w, "unload", s, s, q), Row(v, "load", s, s, q)})
<1> DEFINE left == Row(w, "unload", s, s, q)
           came == Row(v, "load", s, s, q)
           out == Debit(w, s, q)
           in == Credit(v, s, q)
<1>1. /\ left \in Rows /\ left.at = w /\ left.type = "unload" /\ left.to = s /\ left.qty = q
      /\ came \in Rows /\ came.at = v /\ came.type = "load" /\ came.to = s /\ came.qty = q
  BY RowType DEF Types, In, Out
<1>2. /\ out \in Changes /\ out.at = w /\ out.status = s /\ out.by = -q
      /\ in \in Changes /\ in.at = v /\ in.status = s /\ in.by = q
  BY ChangeType
<1> HIDE DEF left, came, in, out
<1>3. \A t \in Statuses : Signed(left, t) = -If(t = s, q) /\ Signed(came, t) = If(t = s, q)
  BY <1>1, SignedOf DEF In, Out
<1>4. IsFiniteSet({left, came}) /\ OneKind({left, came})
  BY <1>1, NetTwo DEF OneKind, Reservations, Corrections
<1>5. CellsOf({out, in}) = {<<w, s>>, <<v, s>>}
  BY <1>2 DEF CellsOf
<1>6. RowsMatch({out, in}, {left, came})
  <2> SUFFICES ASSUME NEW k \in Locations, NEW t \in Statuses
               PROVE  /\ <<k, t>> \notin {<<w, s>>, <<v, s>>} => Net({left, came}, k, t) = 0
                      /\ \A x \in {out, in} :
                           x.at = k /\ x.status = t => x.by = Net({left, came}, k, t)
    BY <1>5 DEF RowsMatch
  <2>1. Net({left, came}, k, t) = If(w = k, Signed(left, t)) + If(v = k, Signed(came, t))
    BY <1>1, NetTwo
  <2>2. Net({left, came}, k, t)
          = IF t # s THEN 0 ELSE IF k = w THEN -q ELSE IF k = v THEN q ELSE 0
    BY <1>3, <2>1 DEF If
  <2> QED
    BY <1>2, <2>2
<1> QED
  BY <1>1, <1>2, <1>4, <1>6 DEF SoundChange, left, came, in, out

LEMMA NothingReleased ==
  ASSUME NEW rows, IsFiniteSet(rows), \A row \in rows : row.type # "reservation_release"
  PROVE  CoveredRelease(rows)
BY NothingLeaves DEF CoveredRelease

\* One movement of one cell
LEMMA OneRowMove ==
  ASSUME NEW c \in Calls, NEW l \in Locations, NEW s \in Statuses, NEW q \in Nat,
         NEW type \in Types, NEW from \in Statuses \cup {"none"}, NEW x \in Changes,
         x.at = l, x.status = s, Move(c, {x}, {Row(l, type, from, s, q)}),
         \/ type \in In /\ x.by = q
         \/ type \in Out /\ x.by = -q,
         type \in Reservations => l \in Vehicles /\ s = "filled",
         type = "reservation_release" => q <= SetAside(l)
  PROVE  Starts(c, "move", NoCount, {x}, {Row(l, type, from, s, q)})
<1> DEFINE row == Row(l, type, from, s, q)
<1>1. row \in Rows /\ row.at = l /\ row.type = type /\ row.to = s /\ row.qty = q
  BY RowType
<1>2. Start(c, "move", NoCount, {x}, {row}) /\ UNCHANGED count
  BY DEF Move
<1> HIDE DEF row
<1>3. \A t \in Statuses : Signed(row, t) = IF type \in In THEN If(t = s, q) ELSE -If(t = s, q)
  BY <1>1, SignedOf
<1>4. type \in Out => type \notin In
  BY DEF In, Out
<1>5. SoundChange({x}, {row})
  BY <1>1, <1>3, <1>4, OneCell DEF If
<1>6. CoveredRelease({row})
  BY <1>1, OneLeaves DEF CoveredRelease, If
<1> QED
  BY <1>2, <1>5, <1>6 DEF Starts, CountSide, row

\* A call that moves something between cells, without releasing a reservation
LEMMA OtherMove ==
  ASSUME NEW c \in Calls, NEW changes, NEW rows, Move(c, changes, rows),
         SoundChange(changes, rows), \A row \in rows : row.type # "reservation_release"
  PROVE  Starts(c, "move", NoCount, changes, rows)
BY NothingReleased DEF Move, Starts, CountSide, SoundChange

\* The steps of c that begin a call
Begins(c) == AtWarehouse(c) \/ OnVan(c) \/ Correct(c) \/ Counting(c)

Begun(c) ==
    \E op \in {"move", "count", "approve", "reject"}, r \in Counts \cup {NoCount},
      changes \in SUBSET Changes, rows \in SUBSET Rows : Starts(c, op, r, changes, rows)

LEMMA Beginning ==
  ASSUME NEW c \in Calls, NEW op \in {"move", "count", "approve", "reject"},
         NEW r \in Counts \cup {NoCount}, NEW changes, NEW rows, Starts(c, op, r, changes, rows)
  PROVE  Begun(c)
<1>1. changes \in SUBSET Changes /\ rows \in SUBSET Rows
  BY DEF Starts, SoundChange
<1> QED
  BY <1>1 DEF Begun

LEMMA Cycle ==
  ASSUME NEW from \in Statuses, NEW to
  PROVE  /\ to \in Transitions[from] => to \in Statuses \ {from}
         /\ to \in Adjustments[from] => to \in Statuses \ {from}
<1>1. \A s \in Statuses : Transitions[s] \subseteq Statuses \ {s}
  BY DEF Transitions, Statuses
<1>2. Adjustments[from] = Transitions[from] \cup {t \in Statuses : from \in Transitions[t]}
  BY DEF Adjustments
<1> QED
  BY <1>1, <1>2

LEMMA MovesBegin ==
  ASSUME NEW c \in Calls, AtWarehouse(c) \/ OnVan(c) \/ Correct(c)
  PROVE  Begun(c)
<1> USE BoundsAssumption
<1>1. Warehouses \subseteq Locations /\ Vehicles \subseteq Locations
      /\ Handled \subseteq Statuses /\ Positive \subseteq Nat
  BY StockAssumption DEF Locations, Positive
<1>2. "filled" \in Statuses /\ "empty" \in Statuses
  BY DEF Statuses
<1>3. CASE AtWarehouse(c)
  <2>1. PICK w \in Warehouses, q \in Positive :
          \/ RecordGoodsReceipt(c, w, q)
          \/ \E s \in Handled : ReturnStockToOmc(c, w, s, q)
          \/ \E v \in Vehicles, s \in Handled : LoadTransfer(c, w, v, s, q)
    BY <1>3 DEF AtWarehouse
  <2>2. w \in Locations /\ q \in Nat
    BY <1>1
  <2>3. CASE RecordGoodsReceipt(c, w, q)
    <3>1. Starts(c, "move", NoCount, {Credit(w, "filled", q)},
                 {Row(w, "grn_receipt", "none", "filled", q)})
      <4>1. /\ Credit(w, "filled", q) \in Changes /\ Credit(w, "filled", q).at = w
            /\ Credit(w, "filled", q).status = "filled" /\ Credit(w, "filled", q).by = q
        BY <1>2, <2>2, ChangeType
      <4>2. "grn_receipt" \in In /\ "grn_receipt" \in Types /\ "grn_receipt" \notin Reservations
        BY DEF In, Types, Reservations
      <4> QED
        BY <1>2, <2>2, <2>3, <4>1, <4>2, OneRowMove DEF RecordGoodsReceipt
    <3> QED
      BY <3>1, Beginning
  <2>4. ASSUME NEW s \in Handled, ReturnStockToOmc(c, w, s, q)
        PROVE  Begun(c)
    <3>1. s \in Statuses
      BY <1>1
    <3>2. Starts(c, "move", NoCount, {Debit(w, s, q)}, {Row(w, "omc_return", s, s, q)})
      BY <2>2, <2>4, <3>1, ChangeType, OneRowMove DEF ReturnStockToOmc, Types, Out, Reservations
    <3> QED
      BY <3>2, Beginning
  <2>5. ASSUME NEW v \in Vehicles, NEW s \in Handled, LoadTransfer(c, w, v, s, q)
        PROVE  Begun(c)
    <3>1. s \in Statuses /\ v \in Locations /\ w # v
      BY <1>1, NamesAssumption
    <3>2. SoundChange({Debit(w, s, q), Credit(v, s, q)},
                      {Row(w, "unload", s, s, q), Row(v, "load", s, s, q)})
      BY <2>2, <3>1, TwoLocations
    <3>3. \A row \in {Row(w, "unload", s, s, q), Row(v, "load", s, s, q)} :
            row.type # "reservation_release"
      BY DEF Row
    <3> QED
      BY <2>5, <3>2, <3>3, OtherMove, Beginning DEF LoadTransfer
  <2> QED
    BY <2>1, <2>3, <2>4, <2>5
<1>4. CASE OnVan(c)
  <2>1. PICK v \in Vehicles, q \in Positive :
          \/ RecordDelivery(c, v, q) \/ RecordCollection(c, v, q)
          \/ Reserve(c, v, q) \/ ReleaseReservation(c, v, q)
    BY <1>4 DEF OnVan
  <2>2. v \in Locations /\ q \in Nat
    BY <1>1
  <2>3. CASE RecordDelivery(c, v, q)
    <3>1. Starts(c, "move", NoCount, {Debit(v, "filled", q)},
                 {Row(v, "delivery", "filled", "filled", q)})
      <4>1. /\ Debit(v, "filled", q) \in Changes /\ Debit(v, "filled", q).at = v
            /\ Debit(v, "filled", q).status = "filled" /\ Debit(v, "filled", q).by = -q
        BY <1>2, <2>2, ChangeType
      <4>2. "delivery" \in Out /\ "delivery" \in Types /\ "delivery" \notin Reservations
        BY DEF Out, Types, Reservations
      <4> QED
        BY <1>2, <2>2, <2>3, <4>1, <4>2, OneRowMove DEF RecordDelivery
    <3> QED
      BY <3>1, Beginning
  <2>4. CASE RecordCollection(c, v, q)
    <3>1. Starts(c, "move", NoCount, {Credit(v, "empty", q)},
                 {Row(v, "collection", "empty", "empty", q)})
      BY <1>2, <2>2, <2>4, ChangeType, OneRowMove DEF RecordCollection, Types, In, Reservations
    <3> QED
      BY <3>1, Beginning
  <2>5. CASE Reserve(c, v, q)
    <3>1. Starts(c, "move", NoCount, {Debit(v, "filled", q)},
                 {Row(v, "reservation", "filled", "filled", q)})
      BY <1>2, <2>2, <2>5, ChangeType, OneRowMove DEF Reserve, Types, Out
    <3> QED
      BY <3>1, Beginning
  <2>6. CASE ReleaseReservation(c, v, q)
    <3>1. Starts(c, "move", NoCount, {Credit(v, "filled", q)},
                 {Row(v, "reservation_release", "filled", "filled", q)})
      BY <1>2, <2>2, <2>6, ChangeType, OneRowMove DEF ReleaseReservation, Types, In
    <3> QED
      BY <3>1, Beginning
  <2> QED
    BY <2>1, <2>3, <2>4, <2>5, <2>6
<1>5. CASE Correct(c)
  <2>1. PICK l \in Locations, from \in Handled, to \in Handled, q \in Positive :
          ChangeCylinderStatus(c, l, from, to, q) \/ AdjustInventory(c, l, from, to, q)
    BY <1>5 DEF Correct
  <2>2. from \in Statuses /\ to \in Statuses /\ from # to /\ q \in Nat
    BY <1>1, <2>1, Cycle DEF ChangeCylinderStatus, AdjustInventory
  <2>3. PICK type \in {"status_change", "adjustment"} :
          Move(c, {Debit(l, from, q), Credit(l, to, q)}, {Row(l, type, from, to, q)})
    BY <2>1 DEF ChangeCylinderStatus, AdjustInventory
  <2>4. SoundChange({Debit(l, from, q), Credit(l, to, q)}, {Row(l, type, from, to, q)})
    BY <2>2, TwoStatuses
  <2>5. \A row \in {Row(l, type, from, to, q)} : row.type # "reservation_release"
    BY DEF Row
  <2> QED
    BY <2>3, <2>4, <2>5, OtherMove, Beginning
<1> QED
  BY <1>3, <1>4, <1>5

LEMMA CountingBegins ==
  ASSUME LedgerInv, NEW c \in Calls, Counting(c)
  PROVE  Begun(c)
<1>1. PICK r \in Counts :
        \/ \E l \in Locations, s \in Handled, actual \in Quantities :
              CreateReconciliationRecord(c, r, l, s, actual)
        \/ ApproveReconciliation(c, r) \/ RejectReconciliation(c, r)
  BY DEF Counting
<1>2. ASSUME NEW l \in Locations, NEW s \in Handled, NEW actual \in Quantities,
             CreateReconciliationRecord(c, r, l, s, actual)
      PROVE  Begun(c)
  <2>1. CountSide("count", r, {})
    BY <1>2, StockAssumption DEF CreateReconciliationRecord, Expected, CountSide
  <2> QED
    BY <1>2, <2>1, NoChange, Beginning DEF CreateReconciliationRecord, Starts
<1>3. CASE ApproveReconciliation(c, r)
  <2> DEFINE l == count[r].at[1]
             s == count[r].at[2]
             d == Variance(r)
             row == IF d > 0 THEN Row(l, "reconciliation", "none", s, d)
                             ELSE Row(l, "reconciliation", s, s, -d)
  <2>1. count[r].state = "pending" /\ count[r] \in CountTypes
    BY <1>3 DEF ApproveReconciliation, Decidable, LedgerInv, TypeOK
  <2>2. l \in Locations /\ s \in Statuses /\ d \in Int
    BY <2>1 DEF LedgerInv, CountInv, CountsHaveCells, Cells, Variance, CountTypes
  <2>3. /\ Decidable(r) /\ UNCHANGED count
        /\ Start(c, "approve", r, IF d = 0 THEN {} ELSE {Credit(l, s, d)},
                                  IF d = 0 THEN {} ELSE {row})
    BY <1>3 DEF ApproveReconciliation
  <2>4. CASE d = 0
    <3>1. CountSide("approve", r, {})
      BY <2>3, <2>4, NetNone DEF CountSide
    <3>2. Start(c, "approve", r, {}, {})
      BY <2>3, <2>4
    <3> QED
      BY <3>1, <3>2, NoChange, Beginning DEF Starts
  <2>5. CASE d # 0
    <3>1. /\ row \in Rows /\ row.at = l /\ row.type = "reconciliation" /\ row.to = s
          /\ row.qty = (IF d > 0 THEN d ELSE -d) /\ (row.from = "none" <=> d > 0)
      <4>1. s # "none" /\ "reconciliation" \in Types
        BY <2>2 DEF Statuses, Types
      <4>2. CASE d > 0
        <5>1. row = Row(l, "reconciliation", "none", s, d) /\ d \in Nat
          BY <2>2, <4>2
        <5> HIDE DEF row
        <5>2. "none" \in Statuses \cup {"none"} /\ l \in Locations /\ s \in Statuses
          BY <2>2
        <5>3. /\ row \in Rows /\ row.at = l /\ row.type = "reconciliation" /\ row.to = s
              /\ row.from = "none" /\ row.qty = d
          BY <4>1, <5>1, <5>2 DEF Row, Rows
        <5> QED
          BY <4>2, <5>3
      <4>3. CASE ~(d > 0)
        <5>1. row = Row(l, "reconciliation", s, s, -d) /\ -d \in Nat
          BY <2>2, <4>3
        <5> HIDE DEF row
        <5>2. s \in Statuses \cup {"none"} /\ l \in Locations /\ s \in Statuses
          BY <2>2
        <5>3. /\ row \in Rows /\ row.at = l /\ row.type = "reconciliation" /\ row.to = s
              /\ row.from = s /\ row.qty = -d
          BY <4>1, <5>1, <5>2, RowType
        <5> QED
          BY <4>1, <4>3, <5>3
      <4> QED
        BY <4>2, <4>3
    <3>2. Start(c, "approve", r, {Credit(l, s, d)}, {row})
      BY <2>3, <2>5
    <3> HIDE DEF row
    <3>3. Credit(l, s, d) \in Changes /\ Credit(l, s, d).at = l /\ Credit(l, s, d).status = s
          /\ Credit(l, s, d).by = d
      BY <2>2, ChangeType
    <3>4. \A t \in Statuses : Signed(row, t) = If(t = s, d)
      BY <2>2, <3>1, SignedOf DEF If
    <3>5. SoundChange({Credit(l, s, d)}, {row})
      BY <2>2, <3>1, <3>3, <3>4, OneCell DEF If, Reservations
    <3>6. Net({row}, l, s) = d
      BY <2>2, <3>1, <3>4, NetOne DEF If
    <3>7. CountSide("approve", r, {row})
      BY <2>3, <3>6 DEF CountSide
    <3>8. CoveredRelease({row})
      BY <3>1, FS_Singleton, NothingReleased
    <3> QED
      BY <3>2, <3>5, <3>7, <3>8, Beginning DEF Starts
  <2> QED
    BY <2>4, <2>5
<1>4. CASE RejectReconciliation(c, r)
  <2>1. CountSide("reject", r, {})
    BY <1>4 DEF RejectReconciliation, CountSide
  <2> QED
    BY <1>4, <2>1, NoChange, Beginning DEF RejectReconciliation, Starts
<1> QED
  BY <1>1, <1>2, <1>3, <1>4

-----------------------------------------------------------------------------
(* What stays of one call when another one steps *)

OthersStay(c) == \A d \in Calls \ {c} : call'[d] = call[d]

LEMMA CallType ==
  ASSUME TypeOK, NEW c \in Calls
  PROVE  /\ call[c] \in CallTypes /\ call[c].writes \subseteq Amounts /\ call[c].rows \subseteq Rows
         /\ call[c].count \in Counts \cup {NoCount}
BY DEF TypeOK, CallTypes

LEMMA IdleType ==
  /\ Idle \in CallTypes /\ Idle.op = "idle" /\ Idle.count = NoCount
  /\ Idle.writes = {} /\ Idle.rows = {}
BY DEF Idle, CallTypes

\* What the calls under way leave aside on a van, when one of them changes
LEMMA SetAsideChange ==
  ASSUME TypeOK, RowsAreSound, TypeOK', RowsAreSound', NEW c \in Calls, OthersStay(c),
         NEW v \in Vehicles
  PROVE  /\ SetAside(v) \in Int /\ SetAside(v)' \in Int
         /\ SetAside(v)' = SetAside(v) + (reserved'[v] - reserved[v])
                            - (Leaving(call'[c].rows, v) - Leaving(call[c].rows, v))
<1> DEFINE now == [d \in Calls |-> Leaving(call[d].rows, v)]
           next == [d \in Calls |-> Leaving(call'[d].rows, v)]
<1>1. \A d \in Calls : now[d] \in Int /\ next[d] \in Int
  <2> SUFFICES ASSUME NEW d \in Calls
               PROVE  Leaving(call[d].rows, v) \in Nat /\ Leaving(call'[d].rows, v) \in Nat
    OBVIOUS
  <2>1. /\ call[d].rows \subseteq Rows /\ IsFiniteSet(call[d].rows)
        /\ call'[d].rows \subseteq Rows /\ IsFiniteSet(call'[d].rows)
    BY DEF TypeOK, CallTypes, RowsAreSound
  <2> QED
    BY <2>1, LeavingNat
<1>2. \A d \in Calls \ {c} : next[d] = now[d]
  BY DEF OthersStay
<1>3. now[c] = Leaving(call[c].rows, v) /\ next[c] = Leaving(call'[c].rows, v)
  OBVIOUS
<1>4. /\ SetAside(v) = reserved[v] - SumFunctionOnSet(now, Calls)
      /\ SetAside(v)' = reserved'[v] - SumFunctionOnSet(next, Calls)
  BY DEF SetAside
<1>5. reserved[v] \in Int /\ reserved'[v] \in Int
  BY DEF TypeOK
<1> HIDE DEF now, next
<1>6. SumFunctionOnSet(next, Calls) = SumFunctionOnSet(now, Calls) + (next[c] - now[c])
  BY <1>1, <1>2, BoundsAssumption, SumChange
<1>7. SumFunctionOnSet(now, Calls) \in Int /\ SumFunctionOnSet(next, Calls) \in Int
  BY <1>1, BoundsAssumption, SumInt
<1>8. next[c] \in Int /\ now[c] \in Int
  BY <1>1
<1> QED
  BY <1>3, <1>4, <1>5, <1>6, <1>7, <1>8

LEMMA SetAsideInt ==
  ASSUME TypeOK, RowsAreSound, NEW v \in Vehicles
  PROVE  SetAside(v) \in Int /\ SetAside(v) <= reserved[v]
<1> DEFINE now == [d \in Calls |-> Leaving(call[d].rows, v)]
<1>1. \A d \in Calls : now[d] \in Nat
  BY LeavingNat DEF TypeOK, CallTypes, RowsAreSound
<1> HIDE DEF now
<1>2. SumFunctionOnSet(now, Calls) \in Nat
  BY <1>1, BoundsAssumption, SumNat
<1>3. reserved[v] \in Nat
  BY DEF TypeOK
<1> QED
  BY <1>2, <1>3 DEF SetAside, now

\* A call that steps leaves what the others are to write, but for their cells.
LEMMA OthersWrites ==
  ASSUME WritesFollowRows, TypeOK, NEW c \in Calls, OthersStay(c), torn \subseteq torn',
         \A l \in Locations, s \in Statuses :
            \/ balance'[l][s] = balance[l][s]
            \/ \A d \in Calls \ {c} : <<l, s>> \in CellsOf(call[d].writes) => <<l, s>> \in torn,
         NEW d \in Calls \ {c}, NEW l \in Locations, NEW s \in Statuses
  PROVE  /\ <<l, s>> \notin CellsOf(call'[d].writes) => Net(call'[d].rows, l, s) = 0
         /\ \A x \in call'[d].writes :
              x.at = l /\ x.status = s /\ <<l, s>> \notin torn'
                => x.quantity = balance'[l][s] + Net(call'[d].rows, l, s)
<1>1. call'[d] = call[d]
  BY DEF OthersStay
<1>2. /\ <<l, s>> \notin CellsOf(call[d].writes) => Net(call[d].rows, l, s) = 0
      /\ \A x \in call[d].writes :
           x.at = l /\ x.status = s /\ <<l, s>> \notin torn
             => x.quantity = balance[l][s] + Net(call[d].rows, l, s)
  BY DEF WritesFollowRows
<1>3. \A x \in call[d].writes : x.at = l /\ x.status = s => <<l, s>> \in CellsOf(call[d].writes)
  BY DEF CellsOf
<1> QED
  BY <1>1, <1>2, <1>3

-----------------------------------------------------------------------------
(* A call starts *)

LEMMA CellsWritten ==
  ASSUME NEW changes
  PROVE  CellsOf(Writes(changes)) = CellsOf(changes)
<1>1. \A x : After(x).at = x.at /\ After(x).status = x.status
  BY DEF After
<1> QED
  BY <1>1 DEF CellsOf, Writes

LEMMA Started ==
  ASSUME TypeOK, \A d \in Calls : OnCount(d), NEW c \in Calls,
         NEW op \in {"move", "count", "approve", "reject"}, NEW r \in Counts \cup {NoCount},
         NEW changes, NEW rows, Starts(c, op, r, changes, rows)
  PROVE  /\ call[c] = Idle /\ OthersStay(c)
         /\ call'[c].op = op /\ call'[c].count = r
         /\ call'[c].writes = Writes(changes) /\ call'[c].rows = rows
         /\ UNCHANGED <<balance, net, reserved, booked, register>>
         /\ torn' = torn \cup (CellsOf(changes) \cap Busy(c))
         /\ call' \in [Calls -> CallTypes]
         /\ torn' \subseteq Cells /\ moves' \in 0 .. MaxMoves
<1> DEFINE state == [op |-> op, count |-> r, writes |-> Writes(changes), rows |-> rows]
<1>1. /\ call[c].op = "idle" /\ call' = [call EXCEPT ![c] = state] /\ Enough(changes)
      /\ UNCHANGED <<balance, net, reserved, booked, register>>
      /\ torn' = torn \cup (CellsOf(changes) \cap Busy(c))
      /\ moves < MaxMoves /\ moves' = moves + 1
      /\ changes \subseteq Changes /\ rows \subseteq Rows
  BY DEF Starts, Start, SoundChange, Is
<1>2. ASSUME NEW x \in changes
      PROVE  After(x) \in Amounts
  <2>1. x \in Changes /\ balance[x.at][x.status] + x.by >= 0
    BY <1>1 DEF Enough
  <2>2. /\ x.at \in Locations /\ x.status \in Statuses /\ x.by \in Int
        /\ balance[x.at][x.status] \in Int
    BY <2>1 DEF Changes, TypeOK
  <2>3. balance[x.at][x.status] + x.by \in Nat
    BY <2>1, <2>2
  <2> QED
    BY <2>2, <2>3 DEF After, Amounts
<1>3. state \in CallTypes /\ state.op = op /\ state.count = r
      /\ state.writes = Writes(changes) /\ state.rows = rows
  BY <1>1, <1>2 DEF CallTypes, Writes
<1>4. CellsOf(changes) \subseteq Cells
  BY <1>1 DEF CellsOf, Changes, Cells
<1>5. call \in [Calls -> CallTypes] /\ torn \subseteq Cells /\ moves \in 0 .. MaxMoves
  BY DEF TypeOK
<1> HIDE DEF state
<1>6. call'[c] = state /\ OthersStay(c) /\ call' \in [Calls -> CallTypes]
  BY <1>1, <1>3, <1>5 DEF OthersStay
<1>7. moves' \in 0 .. MaxMoves
  BY <1>1, <1>5, BoundsAssumption
<1>8. torn' \subseteq Cells /\ call[c] = Idle
  BY <1>1, <1>4, <1>5 DEF OnCount
<1> QED
  BY <1>1, <1>3, <1>6, <1>7, <1>8

LEMMA StartType ==
  ASSUME LedgerInv, NEW c \in Calls,
         NEW op \in {"move", "count", "approve", "reject"}, NEW r \in Counts \cup {NoCount},
         NEW changes, NEW rows, Starts(c, op, r, changes, rows)
  PROVE  TypeOK'
<1>1. /\ call' \in [Calls -> CallTypes] /\ torn' \subseteq Cells /\ moves' \in 0 .. MaxMoves
      /\ UNCHANGED <<balance, net, reserved, booked, register>>
  BY Started DEF LedgerInv, CountInv
<1>2. count' \in [Counts -> CountTypes]
  <2>1. count \in [Counts -> CountTypes]
    BY DEF LedgerInv, TypeOK
  <2>2. CASE UNCHANGED count
    BY <2>1, <2>2
  <2>3. CASE ~UNCHANGED count
    <3>1. PICK l \in Locations, s \in Statuses, actual \in Quantities :
            /\ r \in Counts
            /\ count' = [count EXCEPT ![r] =
                 [state |-> "recording", at |-> <<l, s>>, expected |-> balance[l][s],
                  actual |-> actual, moved |-> 0, clean |-> Aside(<<l, s>>) = 0]]
      BY <2>3 DEF Starts, CountSide
    <3>2. balance[l][s] \in Nat /\ actual \in Nat /\ <<l, s>> \in Cells
      BY BoundsAssumption DEF LedgerInv, TypeOK, Cells
    <3>3. (Aside(<<l, s>>) = 0) \in BOOLEAN
      OBVIOUS
    <3>4. [state |-> "recording", at |-> <<l, s>>, expected |-> balance[l][s],
           actual |-> actual, moved |-> 0, clean |-> Aside(<<l, s>>) = 0] \in CountTypes
      BY <3>2, <3>3 DEF CountTypes
    <3> QED
      BY <2>1, <3>1, <3>4
  <2> QED
    BY <2>2, <2>3
<1> QED
  BY <1>1, <1>2 DEF LedgerInv, TypeOK

LEMMA StartCalls ==
  ASSUME LedgerInv, TypeOK', NEW c \in Calls,
         NEW op \in {"move", "count", "approve", "reject"}, NEW r \in Counts \cup {NoCount},
         NEW changes, NEW rows, Starts(c, op, r, changes, rows)
  PROVE  CallInv'
<1>1. /\ call[c] = Idle /\ OthersStay(c)
      /\ call'[c].writes = Writes(changes) /\ call'[c].rows = rows
      /\ UNCHANGED <<balance, net, reserved, register>>
      /\ torn' = torn \cup (CellsOf(changes) \cap Busy(c))
  BY Started DEF LedgerInv, CountInv
<1>2. /\ changes \subseteq Changes /\ IsFiniteSet(rows) /\ OneKind(rows)
      /\ RowsMatch(changes, rows) /\ CoveredRelease(rows)
  BY DEF Starts, SoundChange
<1>3. RowsAreSound'
  BY <1>1, <1>2 DEF LedgerInv, CallInv, RowsAreSound, OthersStay
<1>4. WritesFollowRows'
  <2> SUFFICES ASSUME NEW d \in Calls, NEW l \in Locations, NEW s \in Statuses
               PROVE  /\ <<l, s>> \notin CellsOf(call'[d].writes) => Net(call'[d].rows, l, s) = 0
                      /\ \A x \in call'[d].writes :
                           x.at = l /\ x.status = s /\ <<l, s>> \notin torn'
                             => x.quantity = balance'[l][s] + Net(call'[d].rows, l, s)
    BY DEF WritesFollowRows
  <2>1. CASE d # c
    BY <1>1, <2>1, OthersWrites DEF LedgerInv, CallInv
  <2>2. CASE d = c
    <3>1. <<l, s>> \notin CellsOf(changes) => Net(rows, l, s) = 0
      BY <1>2 DEF RowsMatch
    <3>2. ASSUME NEW y \in Writes(changes), y.at = l, y.status = s
          PROVE  y.quantity = balance[l][s] + Net(rows, l, s)
      <4>1. PICK x \in changes : y = After(x)
        BY DEF Writes
      <4>2. x.at = l /\ x.status = s /\ y.quantity = balance[x.at][x.status] + x.by
        BY <3>2, <4>1 DEF After
      <4>3. x.by = Net(rows, l, s)
        BY <1>2, <4>2 DEF RowsMatch
      <4> QED
        BY <4>2, <4>3
    <3> QED
      BY <1>1, <2>2, <3>1, <3>2, CellsWritten
  <2> QED
    BY <2>1, <2>2
<1>5. TwoWritersAreTorn'
  <2>1. CellsOf(call'[c].writes) = CellsOf(changes)
    BY <1>1, CellsWritten
  <2>2. \A d \in Calls \ {c} : CellsOf(call'[d].writes) \subseteq Busy(c)
    BY <1>1 DEF Busy, OthersStay
  <2>3. \A d, e \in Calls \ {c} :
          d # e => CellsOf(call'[d].writes) \cap CellsOf(call'[e].writes) \subseteq torn
    BY <1>1 DEF OthersStay, LedgerInv, CallInv, TwoWritersAreTorn
  <2> QED
    BY <1>1, <2>1, <2>2, <2>3 DEF TwoWritersAreTorn
<1>6. ReleasesAreCovered'
  <2> SUFFICES ASSUME NEW v \in Vehicles
               PROVE  SetAside(v)' >= 0
    BY DEF ReleasesAreCovered
  <2>1. Leaving(call[c].rows, v) = 0
    BY <1>1, IdleType, FS_EmptySet, NothingLeaves
  <2>2. /\ SetAside(v) \in Int /\ SetAside(v)' \in Int
        /\ SetAside(v)' = SetAside(v) + (reserved'[v] - reserved[v])
                           - (Leaving(call'[c].rows, v) - Leaving(call[c].rows, v))
    BY <1>1, <1>3, SetAsideChange DEF LedgerInv, CallInv
  <2>3. Leaving(rows, v) = 0 \/ Leaving(rows, v) <= SetAside(v)
    BY <1>2 DEF CoveredRelease
  <2>4. SetAside(v) >= 0 /\ Leaving(rows, v) \in Nat /\ reserved[v] \in Nat
    BY <1>2, LeavingNat DEF LedgerInv, CallInv, ReleasesAreCovered, TypeOK, Starts, SoundChange
  <2> QED
    BY <1>1, <2>1, <2>2, <2>3, <2>4
<1>7. LedgerAddsUp' /\ RegisterIsFresh'
  BY <1>1 DEF LedgerInv, CallInv, LedgerAddsUp, RegisterIsFresh
<1> QED
  BY <1>3, <1>4, <1>5, <1>6, <1>7 DEF CallInv

\* While a call begins, its count is free of the others.
LEMMA NobodyElseCounts ==
  ASSUME LedgerInv, NEW c \in Calls, NEW op, NEW r, NEW rows, CountSide(op, r, rows), r \in Counts,
         NEW d \in Calls
  PROVE  call[d].count # r
<1>1. OnCount(d) /\ call[d].op \in {"idle", "move", "count", "approve", "reject"}
  BY DEF LedgerInv, CountInv, TypeOK, CallTypes
<1>2. call[d].op \in {"idle", "move"} => call[d].count = NoCount
  BY <1>1, IdleType DEF OnCount
<1>3. r # NoCount
  BY NamesAssumption
<1>4. CASE count[r].state = "none"
  BY <1>1, <1>2, <1>3, <1>4 DEF OnCount
<1>5. CASE Decidable(r)
  BY <1>1, <1>2, <1>3, <1>5 DEF OnCount, Decidable, Locked
<1> QED
  BY <1>3, <1>4, <1>5 DEF CountSide

LEMMA StartCounts ==
  ASSUME LedgerInv, TypeOK', NEW c \in Calls,
         NEW op \in {"move", "count", "approve", "reject"}, NEW r \in Counts \cup {NoCount},
         NEW changes, NEW rows, Starts(c, op, r, changes, rows)
  PROVE  CountInv'
<1>1. /\ call[c] = Idle /\ OthersStay(c) /\ call'[c].op = op /\ call'[c].count = r
      /\ call'[c].rows = rows /\ UNCHANGED <<balance, reserved, booked>> /\ torn \subseteq torn'
  BY Started DEF LedgerInv, CountInv
<1>2. CountSide(op, r, rows) /\ count \in [Counts -> CountTypes]
  BY DEF Starts, LedgerInv, TypeOK
<1>3. \A d \in Calls : OnCount(d)
  BY DEF LedgerInv, CountInv
<1>4. \A d \in Calls : r \in Counts => call[d].count # r
  BY <1>2, NobodyElseCounts
<1>5. OneCallPerCount'
  BY <1>1, <1>4 DEF OneCallPerCount, OthersStay, LedgerInv, CountInv
<1>6. CASE UNCHANGED count
  <2>1. ASSUME NEW d \in Calls \ {c}
        PROVE  OnCount(d)'
    BY <1>1, <1>3, <1>6 DEF OnCount, OthersStay, Variance
  <2>2. OnCount(c)'
    <3>1. op # "count"
      <4>1. SUFFICES ASSUME op = "count"
                     PROVE  count'[r] # count[r] /\ r \in Counts
        BY <1>6
      <4>2. r \in Counts /\ count[r].state = "none"
        BY <1>2, <4>1 DEF CountSide
      <4>3. PICK l \in Locations, s \in Statuses, actual \in Quantities :
              count' = [count EXCEPT ![r] =
                [state |-> "recording", at |-> <<l, s>>, expected |-> balance[l][s],
                 actual |-> actual, moved |-> 0, clean |-> Aside(<<l, s>>) = 0]]
        BY <1>2, <4>1 DEF CountSide
      <4>4. count'[r].state = "recording"
        BY <1>2, <4>2, <4>3
      <4> QED
        BY <4>2, <4>4
    <3>2. \/ op = "move" /\ r = NoCount
          \/ /\ op \in {"approve", "reject"} /\ r \in Counts /\ count[r].state = "pending"
             /\ op = "approve" => Net(rows, count[r].at[1], count[r].at[2]) = Variance(r)
      BY <1>2, <3>1 DEF CountSide, Decidable
    <3> QED
      BY <1>1, <1>6, <3>2 DEF OnCount, Variance
  <2>3. CountsHaveCells' /\ BookedOnce' /\ \A q \in Counts : CountHolds(q)'
    BY <1>1, <1>6 DEF CountsHaveCells, BookedOnce, CountHolds, Variance, Aside, LedgerInv, CountInv
  <2> QED
    BY <1>5, <2>1, <2>2, <2>3 DEF CountInv
<1>7. CASE ~UNCHANGED count
  <2>1. /\ op = "count" /\ r \in Counts /\ count[r].state = "none" /\ rows = {}
    BY <1>2, <1>7 DEF CountSide
  <2>2. PICK l \in Locations, s \in Statuses, actual \in Quantities :
          count' = [count EXCEPT ![r] =
               [state |-> "recording", at |-> <<l, s>>, expected |-> balance[l][s],
                actual |-> actual, moved |-> 0, clean |-> Aside(<<l, s>>) = 0]]
    BY <1>2, <1>7 DEF CountSide
  <2>3. /\ count'[r].state = "recording" /\ count'[r].at = <<l, s>>
        /\ count'[r].expected = balance[l][s] /\ count'[r].moved = 0
        /\ count'[r].clean = (Aside(<<l, s>>) = 0)
        /\ \A q \in Counts \ {r} : count'[q] = count[q]
    BY <1>2, <2>1, <2>2
  <2>4. ASSUME NEW d \in Calls \ {c}
        PROVE  OnCount(d)'
    <3>1. call'[d] = call[d] /\ call[d].count # r /\ OnCount(d)
      BY <1>1, <1>3, <1>4, <2>1 DEF OthersStay
    <3> QED
      BY <2>3, <3>1 DEF OnCount, Variance
  <2>5. OnCount(c)'
    BY <1>1, <2>1, <2>3 DEF OnCount
  <2>6. CountsHaveCells'
    BY <2>3 DEF CountsHaveCells, Cells, LedgerInv, CountInv
  <2>7. BookedOnce'
    <3>1. booked[r] = 0
      BY <2>1 DEF LedgerInv, CountInv, BookedOnce
    <3> QED
      BY <1>1, <2>3, <3>1 DEF BookedOnce, Variance, LedgerInv, CountInv
  <2>8. ASSUME NEW q \in Counts
        PROVE  CountHolds(q)'
    <3>1. \A p : Aside(p)' = Aside(p)
      BY <1>1 DEF Aside
    <3>2. CASE q # r
      BY <1>1, <2>3, <3>1, <3>2 DEF CountHolds, LedgerInv, CountInv
    <3>3. CASE q = r
      <4>1. balance[l][s] \in Int
        BY DEF LedgerInv, TypeOK
      <4>2. Aside(count[r].at)' = Aside(<<l, s>>)
        BY <1>1, <2>3 DEF Aside
      <4>3. balance'[count'[r].at[1]][count'[r].at[2]] = balance[l][s]
        BY <1>1, <2>3
      <4>4. count'[r].clean => balance[l][s] + Aside(<<l, s>>) = balance[l][s] + 0
        BY <2>3
      <4> QED
        BY <2>3, <3>3, <4>2, <4>3, <4>4 DEF CountHolds
    <3> QED
      BY <3>2, <3>3
  <2> QED
    BY <1>5, <2>4, <2>5, <2>6, <2>7, <2>8 DEF CountInv
<1> QED
  BY <1>6, <1>7

-----------------------------------------------------------------------------
(* A call commits *)

Reserved(rows) == {row \in rows : row.type \in Reservations}

LEMMA CommitIs ==
  ASSUME TypeOK, NEW c \in Calls, Commit(c)
  PROVE  /\ call[c].op # "idle" /\ call'[c] = Idle /\ OthersStay(c)
         /\ call' \in [Calls -> CallTypes]
         /\ \A l \in Locations, s \in Statuses :
              /\ balance'[l][s] = Written(l, s, call[c].writes)
              /\ net'[l][s] = net[l][s] + Net(call[c].rows, l, s)
         /\ \A v \in Vehicles :
              reserved'[v] = reserved[v] - Net(Reserved(call[c].rows), v, "filled")
         /\ \A r \in Counts : count'[r] = Recount(c, r)
         /\ UNCHANGED <<torn, moves>>
<1>1. Reserved(call[c].rows)
        = {row \in call[c].rows : row.type \in {"reservation", "reservation_release"}}
  BY DEF Reserved, Reservations
<1>2. \A v \in Vehicles :
        reserved'[v] = reserved[v] + (-Net(Reserved(call[c].rows), v, "filled"))
  BY <1>1 DEF Commit
<1> QED
  BY <1>2, IdleType DEF Commit, Is, OthersStay, TypeOK

\* What of the rows is reserved, and what has really moved
LEMMA Kinds ==
  ASSUME NEW rows, rows \subseteq Rows, IsFiniteSet(rows), OneKind(rows),
         NEW l \in Locations, NEW s \in Statuses
  PROVE  /\ Net(rows, l, s) \in Int /\ Net(Reserved(rows), l, s) \in Int
         /\ Net(Physical(rows), l, s) \in Int
         /\ ~Corrects(rows, <<l, s>>)
              => Net(rows, l, s) = Net(Physical(rows), l, s) + Net(Reserved(rows), l, s)
         /\ ~(l \in Vehicles /\ s = "filled") => Net(Reserved(rows), l, s) = 0
<1>1. /\ Reserved(rows) \subseteq rows /\ Physical(rows) \subseteq rows
      /\ IsFiniteSet(Reserved(rows)) /\ IsFiniteSet(Physical(rows))
  BY FS_Subset DEF Reserved, Physical
<1>2. /\ Net(rows, l, s) \in Int /\ Net(Reserved(rows), l, s) \in Int
      /\ Net(Physical(rows), l, s) \in Int
  BY <1>1, NetInt
<1>3. CASE \A row \in rows : row.type \in Reservations /\ row.at \in Vehicles /\ row.to = "filled"
  <2>1. Reserved(rows) = rows /\ Physical(rows) = {}
    BY <1>3 DEF Reserved, Physical, Reservations
  <2>2. Net(Physical(rows), l, s) = 0
    BY <2>1, NetNone
  <2>3. ~(l \in Vehicles /\ s = "filled") => Net(rows, l, s) = 0
    <3> SUFFICES ASSUME ~(l \in Vehicles /\ s = "filled")
                 PROVE  \A row \in rows : row.at = l => Signed(row, s) = 0
      BY NetZero
    <3> TAKE row \in rows
    <3> HAVE row.at = l
    <3>1. row.type \in Reservations /\ row.at \in Vehicles /\ row.to = "filled"
      BY <1>3
    <3>2. row.type \in In \cup Out
      BY <3>1 DEF Reservations, In, Out
    <3>3. s # row.to
      BY <3>1
    <3>4. If(s = row.to, row.qty) = 0
      BY <3>3 DEF If
    <3>5. Signed(row, s) = 0 \/ Signed(row, s) = -0
      BY <3>2, <3>4, SignedOf
    <3> QED
      BY <3>5
  <2> QED
    BY <1>2, <2>1, <2>2, <2>3
<1>4. CASE \A row \in rows : row.type \in Corrections
  <2>1. Reserved(rows) = {} /\ Physical(rows) = {}
    BY <1>4 DEF Reserved, Physical, Reservations, Corrections
  <2>2. Net(Physical(rows), l, s) = 0 /\ Net(Reserved(rows), l, s) = 0
    BY <2>1, NetNone
  <2>3. ~Corrects(rows, <<l, s>>) => Net(rows, l, s) = 0
    <3> SUFFICES ASSUME ~Corrects(rows, <<l, s>>)
                 PROVE  \A row \in rows : row.at = l => Signed(row, s) = 0
      BY NetZero
    <3> TAKE row \in rows
    <3> HAVE row.at = l
    <3>1. row.type \in Corrections /\ s # row.from /\ s # row.to
      BY <1>4 DEF Corrects, Corrections
    <3>2. If(s = row.to, row.qty) = 0 /\ If(s = row.from, row.qty) = 0
          /\ If(s = row.to, IF row.from = "none" THEN row.qty ELSE -row.qty) = 0
      BY <3>1 DEF If
    <3> QED
      BY <3>1, <3>2, SignedOf DEF Corrections
  <2> QED
    BY <1>2, <2>2, <2>3
<1>5. CASE \A row \in rows : row.type \notin Reservations \cup Corrections
  <2>1. Reserved(rows) = {} /\ Physical(rows) = rows
    BY <1>5 DEF Reserved, Physical, Reservations, Corrections
  <2>2. Net(Reserved(rows), l, s) = 0
    BY <2>1, NetNone
  <2> QED
    BY <1>2, <2>1, <2>2
<1> QED
  BY <1>3, <1>4, <1>5 DEF OneKind

\* What a commit leaves in a cell
LEMMA CommittedCell ==
  ASSUME LedgerInv, NEW c \in Calls, Commit(c), NEW l \in Locations, NEW s \in Statuses
  PROVE  /\ balance'[l][s] \in Nat
         /\ <<l, s>> \notin CellsOf(call[c].writes)
              => balance'[l][s] = balance[l][s] /\ Net(call[c].rows, l, s) = 0
         /\ <<l, s>> \notin torn => balance'[l][s] = balance[l][s] + Net(call[c].rows, l, s)
<1> DEFINE ws == call[c].writes
           at == {x \in ws : x.at = l /\ x.status = s}
<1>1. balance'[l][s] = Written(l, s, ws) /\ ws \subseteq Amounts
  BY CommitIs, CallType DEF LedgerInv
<1>2. /\ <<l, s>> \notin CellsOf(ws) => Net(call[c].rows, l, s) = 0
      /\ \A x \in at : <<l, s>> \notin torn => x.quantity = balance[l][s] + Net(call[c].rows, l, s)
  BY DEF LedgerInv, CallInv, WritesFollowRows
<1>3. balance[l][s] \in Nat
  BY DEF LedgerInv, TypeOK
<1>4. CASE at = {}
  <2>1. balance'[l][s] = balance[l][s]
    BY <1>1, <1>4 DEF Written
  <2>2. <<l, s>> \notin CellsOf(ws)
    BY <1>1, <1>4 DEF CellsOf, Amounts
  <2> QED
    BY <1>2, <1>3, <2>1, <2>2
<1>5. CASE at # {}
  <2>1. PICK x \in at : balance'[l][s] = x.quantity
    BY <1>1, <1>5 DEF Written
  <2>2. x \in Amounts /\ x.quantity \in Nat /\ <<l, s>> \in CellsOf(ws)
    BY <1>1, <2>1 DEF Amounts, CellsOf
  <2> QED
    BY <1>2, <2>1, <2>2
<1> QED
  BY <1>4, <1>5

\* What a commit makes of a count
LEMMA Recounted ==
  ASSUME LedgerInv, NEW c \in Calls, Commit(c), NEW r \in Counts
  PROVE  /\ count'[r] \in CountTypes
         /\ count'[r].at = count[r].at /\ count'[r].expected = count[r].expected
         /\ count'[r].actual = count[r].actual
         /\ count'[r].state = IF call[c].count = r THEN Decision[call[c].op] ELSE count[r].state
         /\ count[r].state # "none" =>
              /\ count'[r].moved = count[r].moved
                   + Net(Physical(call[c].rows), count[r].at[1], count[r].at[2])
              /\ count'[r].clean => /\ count[r].clean
                                   /\ \/ call[c].count = r
                                      \/ ~Corrects(call[c].rows, count[r].at)
<1>1. count'[r] = Recount(c, r) /\ count[r] \in CountTypes
  BY CommitIs DEF LedgerInv, TypeOK
<1>2. OnCount(c) /\ call[c].op \in {"idle", "move", "count", "approve", "reject"}
  BY DEF LedgerInv, CountInv, TypeOK, CallTypes
<1>3. call[c].count = r => call[c].op \in {"count", "approve", "reject"} /\ count[r].state # "none"
  BY <1>2, NamesAssumption, IdleType DEF OnCount
<1>4. CASE count[r].state = "none"
  BY <1>1, <1>3, <1>4 DEF Recount
<1>5. CASE count[r].state # "none"
  <2> DEFINE n == Net(Physical(call[c].rows), count[r].at[1], count[r].at[2])
             decided == IF call[c].count = r THEN Decision[call[c].op] ELSE count[r].state
             kept == count[r].clean /\ (call[c].count = r \/ ~Corrects(call[c].rows, count[r].at))
  <2>1. count[r].at[1] \in Locations /\ count[r].at[2] \in Statuses
    BY <1>5 DEF LedgerInv, CountInv, CountsHaveCells, Cells
  <2>2. n \in Int
    BY <2>1, Kinds, CallType DEF LedgerInv, CallInv, RowsAreSound
  <2>3. decided \in {"none", "recording", "pending", "approved", "rejected"}
    BY <1>1, <1>3 DEF Decision, CountTypes
  <2>4. kept \in BOOLEAN
    BY <1>1 DEF CountTypes
  <2>5. count'[r] = [count[r] EXCEPT !.state = decided, !.moved = count[r].moved + n, !.clean = kept]
    BY <1>1, <1>5 DEF Recount
  <2> HIDE DEF n, decided, kept
  <2> DEFINE sum == count[r].moved + n
  <2>6. sum \in Int
    BY <1>1, <2>2 DEF CountTypes
  <2> HIDE DEF sum
  <2>7. count'[r] = [count[r] EXCEPT !.state = decided, !.moved = sum, !.clean = kept]
    BY <2>5 DEF sum
  <2>8. /\ count'[r] \in CountTypes
        /\ count'[r].at = count[r].at /\ count'[r].expected = count[r].expected
        /\ count'[r].actual = count[r].actual /\ count'[r].state = decided
        /\ count'[r].moved = sum /\ count'[r].clean = kept
    BY <1>1, <2>3, <2>4, <2>6, <2>7 DEF CountTypes
  <2> QED
    BY <1>5, <2>8 DEF n, decided, kept, sum
<1> QED
  BY <1>4, <1>5

\* What a commit books for the count it approves
LEMMA Booking ==
  ASSUME LedgerInv, NEW c \in Calls, Commit(c), NEW r \in Counts
  PROVE  /\ booked'[r] = IF call[c].count = r /\ call[c].op = "approve"
                        THEN booked[r] + Variance(r) ELSE booked[r]
         /\ booked' \in [Counts -> Int]
<1>1. OnCount(c) /\ booked \in [Counts -> Int] /\ count \in [Counts -> CountTypes]
  BY DEF LedgerInv, CountInv, TypeOK
<1>2. \A q \in Counts : Variance(q) \in Int
  BY <1>1 DEF Variance, CountTypes
<1>3. CASE call[c].op = "approve"
  <2>1. call[c].count \in Counts
        /\ Net(call[c].rows, count[call[c].count].at[1], count[call[c].count].at[2])
              = Variance(call[c].count)
    BY <1>1, <1>3 DEF OnCount
  <2>2. booked' = [booked EXCEPT ![call[c].count] = @ + Variance(call[c].count)]
    BY <1>3, <2>1 DEF Commit, Is
  <2> QED
    BY <1>1, <1>2, <1>3, <2>1, <2>2
<1>4. CASE call[c].op # "approve"
  BY <1>1, <1>4 DEF Commit, Is
<1> QED
  BY <1>3, <1>4

LEMMA CommitRows ==
  ASSUME LedgerInv, NEW c \in Calls, Commit(c)
  PROVE  RowsAreSound'
BY CommitIs, IdleType, FS_EmptySet DEF LedgerInv, CallInv, RowsAreSound, OthersStay, OneKind

\* What is reserved changes by no more than the call was to release.
LEMMA CommitReserved ==
  ASSUME LedgerInv, NEW c \in Calls, Commit(c), NEW v \in Vehicles
  PROVE  /\ reserved'[v] \in Nat
         /\ reserved'[v] >= reserved[v] - Leaving(call[c].rows, v)
<1>1. /\ call[c].rows \subseteq Rows /\ IsFiniteSet(call[c].rows) /\ OneKind(call[c].rows)
      /\ v \in Locations /\ "filled" \in Statuses
  BY CallType DEF LedgerInv, CallInv, RowsAreSound, Locations, Statuses
<1> DEFINE taken == Net(Reserved(call[c].rows), v, "filled")
           leaving == Leaving(call[c].rows, v)
<1>2. /\ Reserved(call[c].rows) \subseteq Rows /\ IsFiniteSet(Reserved(call[c].rows))
      /\ \A row \in Reserved(call[c].rows) : row.type \in Reservations
  BY <1>1, FS_Subset DEF Reserved
<1>3. taken \in Int /\ leaving \in Nat
  BY <1>1, Kinds, LeavingNat
<1>4. taken <= leaving
  <2>1. CASE Reserved(call[c].rows) = call[c].rows
    BY <1>1, <1>2, <2>1, TakenLeaves
  <2>2. CASE Reserved(call[c].rows) = {}
    <3>1. taken = 0
      BY <2>2, NetNone
    <3> QED
      BY <1>3, <3>1
  <2>3. Reserved(call[c].rows) \in {call[c].rows, {}}
    BY <1>1 DEF OneKind, Reserved, Reservations, Corrections
  <2> QED
    BY <2>1, <2>2, <2>3
<1>5. reserved'[v] = reserved[v] - taken /\ reserved[v] \in Nat
  BY CommitIs DEF LedgerInv, TypeOK
<1>6. leaving <= reserved[v]
  <2> DEFINE out == [d \in Calls |-> Leaving(call[d].rows, v)]
  <2>1. \A d \in Calls : out[d] \in Nat
    BY LeavingNat, CallType DEF LedgerInv, CallInv, RowsAreSound
  <2>2. SetAside(v) = reserved[v] - SumFunctionOnSet(out, Calls) /\ out[c] = leaving
    BY DEF SetAside
  <2>3. SetAside(v) >= 0
    BY DEF LedgerInv, CallInv, ReleasesAreCovered
  <2> HIDE DEF out
  <2>4. out[c] <= SumFunctionOnSet(out, Calls) /\ SumFunctionOnSet(out, Calls) \in Nat
    BY <2>1, BoundsAssumption, SumAtLeast, SumNat
  <2> QED
    BY <1>3, <1>5, <2>2, <2>3, <2>4
<1> HIDE DEF taken, leaving
<1>7. reserved'[v] \in Nat /\ reserved'[v] >= reserved[v] - leaving
  BY <1>3, <1>4, <1>5, <1>6
<1> QED
  BY <1>7 DEF leaving

\* No commit is to the location of a register there is not.
LEMMA NothingCrosses ==
  ASSUME LedgerInv, NEW c \in Calls, register = NoRegister
  PROVE  Crossing(c) = {} /\ [register EXCEPT !.crossed = @ \cup Crossing(c)] = NoRegister
<1>1. call[c].writes \subseteq Amounts
  BY CallType DEF LedgerInv
<1>2. register.at = NoLocation
  BY DEF NoRegister
<1>3. Crossing(c) = {}
  BY <1>1, <1>2, NamesAssumption DEF Crossing, CellsOf, Amounts, Locations
<1> QED
  BY <1>3 DEF NoRegister

LEMMA CommitType ==
  ASSUME LedgerInv, NEW c \in Calls, Commit(c)
  PROVE  TypeOK'
<1>1. balance' \in [Locations -> [Statuses -> Nat]]
  <2>1. balance' = [l \in Locations |-> [s \in Statuses |-> balance'[l][s]]]
    BY DEF Commit
  <2>2. \A l \in Locations, s \in Statuses : balance'[l][s] \in Nat
    BY CommittedCell
  <2> QED
    BY <2>1, <2>2
<1>2. net' \in [Locations -> [Statuses -> Int]]
  <2>1. net' = [l \in Locations |-> [s \in Statuses |-> net[l][s] + Net(call[c].rows, l, s)]]
    BY DEF Commit
  <2>2. ASSUME NEW l \in Locations, NEW s \in Statuses
        PROVE  net[l][s] + Net(call[c].rows, l, s) \in Int
    <3>1. net[l][s] \in Int /\ Net(call[c].rows, l, s) \in Int
      BY CallType, Kinds DEF LedgerInv, TypeOK, CallInv, RowsAreSound
    <3> QED
      BY <3>1
  <2> QED
    BY <2>1, <2>2
<1>3. reserved' \in [Vehicles -> Nat]
  <2>1. reserved' = [v \in Vehicles |-> reserved'[v]]
    BY DEF Commit
  <2> QED
    BY <2>1, CommitReserved
<1>4. count' \in [Counts -> CountTypes]
  <2>1. count' = [r \in Counts |-> count'[r]]
    BY DEF Commit
  <2> QED
    BY <2>1, Recounted
<1>5. booked' \in [Counts -> Int]
  <2>1. CASE Counts = {}
    <3>1. OnCount(c) /\ call[c].count \in Counts \cup {NoCount}
      BY CallType DEF LedgerInv, CountInv
    <3>2. ~Is(c, "approve")
      BY <2>1, <3>1 DEF OnCount, Is
    <3> QED
      BY <3>2 DEF Commit, LedgerInv, TypeOK
  <2>2. CASE Counts # {}
    BY <2>2, Booking
  <2> QED
    BY <2>1, <2>2
<1>6. register' \in RegisterTypes
  <2>1. register \in RegisterTypes /\ Crossing(c) \subseteq Statuses
    BY DEF LedgerInv, TypeOK, Crossing
  <2> QED
    BY <2>1 DEF Commit, RegisterTypes
<1> QED
  BY <1>1, <1>2, <1>3, <1>4, <1>5, <1>6, CommitIs DEF LedgerInv, TypeOK

LEMMA CommitCalls ==
  ASSUME LedgerInv, TypeOK', NEW c \in Calls, Commit(c)
  PROVE  CallInv'
<1>1. /\ call'[c] = Idle /\ OthersStay(c) /\ UNCHANGED torn /\ RowsAreSound'
  BY CommitIs, CommitRows DEF LedgerInv
<1>2. WritesFollowRows'
  <2> SUFFICES ASSUME NEW d \in Calls, NEW l \in Locations, NEW s \in Statuses
               PROVE  /\ <<l, s>> \notin CellsOf(call'[d].writes) => Net(call'[d].rows, l, s) = 0
                      /\ \A x \in call'[d].writes :
                           x.at = l /\ x.status = s /\ <<l, s>> \notin torn'
                             => x.quantity = balance'[l][s] + Net(call'[d].rows, l, s)
    BY DEF WritesFollowRows
  <2>1. CASE d # c
    <3>1. ASSUME NEW k \in Locations, NEW t \in Statuses
          PROVE  \/ balance'[k][t] = balance[k][t]
                 \/ \A e \in Calls \ {c} :
                      <<k, t>> \in CellsOf(call[e].writes) => <<k, t>> \in torn
      BY CommittedCell DEF LedgerInv, CallInv, TwoWritersAreTorn
    <3> QED
      BY <1>1, <2>1, <3>1, OthersWrites DEF LedgerInv, CallInv
  <2>2. CASE d = c
    BY <1>1, <2>2, IdleType, NetNone
  <2> QED
    BY <2>1, <2>2
<1>3. TwoWritersAreTorn'
  <2>1. CellsOf(call'[c].writes) = {}
    BY <1>1, IdleType DEF CellsOf
  <2> QED
    BY <1>1, <2>1 DEF TwoWritersAreTorn, OthersStay, LedgerInv, CallInv
<1>4. ReleasesAreCovered'
  <2> SUFFICES ASSUME NEW v \in Vehicles
               PROVE  SetAside(v)' >= 0
    BY DEF ReleasesAreCovered
  <2>1. Leaving(call'[c].rows, v) = 0
    BY <1>1, IdleType, FS_EmptySet, NothingLeaves
  <2>2. /\ SetAside(v) \in Int /\ SetAside(v)' \in Int
        /\ SetAside(v)' = SetAside(v) + (reserved'[v] - reserved[v])
                           - (Leaving(call'[c].rows, v) - Leaving(call[c].rows, v))
    BY <1>1, SetAsideChange DEF LedgerInv, CallInv
  <2>3. reserved'[v] \in Nat /\ reserved'[v] >= reserved[v] - Leaving(call[c].rows, v)
    BY CommitReserved
  <2>4. SetAside(v) >= 0 /\ Leaving(call[c].rows, v) \in Nat /\ reserved[v] \in Nat
    BY CallType, LeavingNat DEF LedgerInv, CallInv, ReleasesAreCovered, TypeOK, RowsAreSound
  <2> QED
    BY <2>1, <2>2, <2>3, <2>4
<1>5. LedgerAddsUp'
  <2> SUFFICES ASSUME NEW l \in Locations, NEW s \in Statuses, <<l, s>> \notin torn
               PROVE  balance'[l][s] - net'[l][s] = FirstStock[l][s]
    BY <1>1 DEF LedgerAddsUp
  <2>1. /\ balance'[l][s] = balance[l][s] + Net(call[c].rows, l, s)
        /\ net'[l][s] = net[l][s] + Net(call[c].rows, l, s)
        /\ balance[l][s] - net[l][s] = FirstStock[l][s]
    BY CommittedCell, CommitIs DEF LedgerInv, CallInv, LedgerAddsUp
  <2>2. balance[l][s] \in Int /\ net[l][s] \in Int /\ Net(call[c].rows, l, s) \in Int
    BY CallType, Kinds DEF LedgerInv, TypeOK, CallInv, RowsAreSound
  <2> QED
    BY <2>1, <2>2
<1>6. RegisterIsFresh'
  <2>1. CASE register = NoRegister
    <3>1. register' = NoRegister
      BY <2>1, NothingCrosses DEF Commit
    <3>2. NoRegister' = NoRegister
      BY DEF NoRegister
    <3> QED
      BY <3>1, <3>2 DEF RegisterIsFresh
  <2>2. CASE register # NoRegister
    <3>1. register'.at = register.at /\ register'.read = register.read
          /\ register'.crossed = register.crossed \cup Crossing(c)
      BY DEF Commit, LedgerInv, TypeOK, RegisterTypes
    <3>2. register.at \in Locations
      BY <2>2 DEF LedgerInv, CallInv, RegisterIsFresh
    <3>3. ASSUME NEW s \in Statuses, s \notin register'.crossed
          PROVE  register'.read[s] = balance'[register'.at][s]
      <4>1. register.read[s] = balance[register.at][s]
        BY <2>2, <3>1, <3>3 DEF LedgerInv, CallInv, RegisterIsFresh
      <4>2. <<register.at, s>> \notin CellsOf(call[c].writes)
        BY <3>1, <3>3 DEF Crossing
      <4>3. balance'[register.at][s] = balance[register.at][s]
        BY <3>2, <4>2, CommittedCell
      <4> QED
        BY <3>1, <4>1, <4>3
    <3> QED
      BY <3>1, <3>2, <3>3 DEF RegisterIsFresh
  <2> QED
    BY <2>1, <2>2
<1> QED
  BY <1>1, <1>2, <1>3, <1>4, <1>5, <1>6 DEF CallInv

\* What is set aside in a cell, after a commit
LEMMA CommitAside ==
  ASSUME LedgerInv, NEW c \in Calls, Commit(c), NEW l \in Locations, NEW s \in Statuses
  PROVE  /\ Aside(<<l, s>>) \in Int
         /\ Aside(<<l, s>>)' = Aside(<<l, s>>) - Net(Reserved(call[c].rows), l, s)
<1>1. \A v \in Vehicles :
        /\ reserved'[v] = reserved[v] - Net(Reserved(call[c].rows), v, "filled")
        /\ reserved[v] \in Int
  BY CommitIs DEF LedgerInv, TypeOK
<1>2. ~(l \in Vehicles /\ s = "filled") => Net(Reserved(call[c].rows), l, s) = 0
  BY Kinds, CallType DEF LedgerInv, CallInv, RowsAreSound
<1>3. /\ Aside(<<l, s>>) = If(l \in Vehicles /\ s = "filled", reserved[l])
      /\ Aside(<<l, s>>)' = If(l \in Vehicles /\ s = "filled", reserved'[l])
  BY DEF Aside
<1>4. CASE l \in Vehicles /\ s = "filled"
  BY <1>1, <1>3, <1>4 DEF If
<1>5. CASE ~(l \in Vehicles /\ s = "filled")
  BY <1>2, <1>3, <1>5 DEF If
<1> QED
  BY <1>4, <1>5

\* A call is only ever on one count, and does one thing to it.
LEMMA CommitDecides ==
  ASSUME LedgerInv, NEW c \in Calls, Commit(c), NEW r \in Counts, call[c].count = r
  PROVE  \/ /\ call[c].op = "count" /\ count[r].state = "recording"
            /\ count'[r].state = "pending" /\ call[c].rows = {}
         \/ /\ call[c].op = "approve" /\ count[r].state = "pending"
            /\ count'[r].state = "approved"
            /\ Net(call[c].rows, count[r].at[1], count[r].at[2]) = Variance(r)
         \/ /\ call[c].op = "reject" /\ count[r].state = "pending"
            /\ count'[r].state = "rejected"
<1>1. OnCount(c) /\ call[c].op \in {"move", "count", "approve", "reject"} /\ r # NoCount
  BY CommitIs, CallType, NamesAssumption DEF LedgerInv, CountInv, CallTypes
<1>2. count'[r].state = Decision[call[c].op]
  BY Recounted
<1> QED
  BY <1>1, <1>2 DEF OnCount, Decision

LEMMA CommitHolds ==
  ASSUME LedgerInv, NEW c \in Calls, Commit(c), NEW r \in Counts
  PROVE  CountHolds(r)'
<1> SUFFICES ASSUME count'[r].state \in {"recording", "pending"}, count'[r].clean,
                    count'[r].at \notin torn'
             PROVE  balance'[count'[r].at[1]][count'[r].at[2]] + Aside(count[r].at)'
                      = count'[r].expected + count'[r].moved
  BY DEF CountHolds
<1> DEFINE rows == call[c].rows
<1>1. /\ count[r].state \in {"recording", "pending"}
      /\ call[c].count = r => rows = {}
  BY Recounted, CommitDecides
<1>2. PICK l \in Locations, s \in Statuses : count[r].at = <<l, s>>
  BY <1>1 DEF LedgerInv, CountInv, CountsHaveCells, Cells
<1>3. /\ count[r].clean /\ count'[r].at = <<l, s>> /\ count'[r].expected = count[r].expected
      /\ call[c].count = r \/ ~Corrects(rows, <<l, s>>)
      /\ count'[r].moved = count[r].moved + Net(Physical(rows), l, s)
  BY <1>1, <1>2, Recounted
<1>4. ~Corrects(rows, <<l, s>>)
  BY <1>1, <1>3 DEF Corrects
<1>5. <<l, s>> \notin torn
  BY <1>3, CommitIs DEF LedgerInv
<1>6. balance[l][s] + Aside(<<l, s>>) = count[r].expected + count[r].moved
  BY <1>1, <1>2, <1>3, <1>5 DEF LedgerInv, CountInv, CountHolds
<1>7. /\ balance'[l][s] = balance[l][s] + Net(rows, l, s)
      /\ Aside(<<l, s>>) \in Int
      /\ Aside(<<l, s>>)' = Aside(<<l, s>>) - Net(Reserved(rows), l, s)
  BY <1>5, CommittedCell, CommitAside
<1>8. /\ Net(rows, l, s) = Net(Physical(rows), l, s) + Net(Reserved(rows), l, s)
      /\ Net(Physical(rows), l, s) \in Int /\ Net(Reserved(rows), l, s) \in Int
  BY <1>4, Kinds, CallType DEF LedgerInv, CallInv, RowsAreSound
<1>9. balance[l][s] \in Int /\ count[r].expected \in Int /\ count[r].moved \in Int
  BY DEF LedgerInv, TypeOK, CountTypes
<1>10. Aside(count[r].at)' = Aside(<<l, s>>)'
  BY <1>3 DEF Aside
<1>11. balance'[count'[r].at[1]][count'[r].at[2]] = balance'[l][s]
  BY <1>3
<1> HIDE DEF rows
<1>12. balance'[l][s] + Aside(<<l, s>>)'
         = count[r].expected + (count[r].moved + Net(Physical(rows), l, s))
  BY <1>6, <1>7, <1>8, <1>9
<1> QED
  BY <1>3, <1>10, <1>11, <1>12

LEMMA CommitCounts ==
  ASSUME LedgerInv, NEW c \in Calls, Commit(c)
  PROVE  CountInv'
<1>1. /\ call'[c] = Idle /\ OthersStay(c) /\ Idle.op = "idle" /\ Idle.count = NoCount
  BY CommitIs, IdleType DEF LedgerInv
<1>2. ASSUME NEW d \in Calls \ {c}
      PROVE  OnCount(d)'
  <2>1. OnCount(d) /\ call'[d] = call[d]
    BY <1>1 DEF OthersStay, LedgerInv, CountInv
  <2>2. ASSUME call[d].count \in Counts
        PROVE  /\ count'[call[d].count].state = count[call[d].count].state
               /\ count'[call[d].count].at = count[call[d].count].at
               /\ Variance(call[d].count)' = Variance(call[d].count)
    <3>1. call[c].count # call[d].count
      BY <2>2, NamesAssumption DEF LedgerInv, CountInv, OneCallPerCount
    <3> QED
      BY <2>1, <2>2, <3>1, Recounted DEF Variance
  <2> QED
    BY <2>1, <2>2 DEF OnCount
<1>3. OnCount(c)'
  BY <1>1 DEF OnCount
<1>4. OneCallPerCount'
  BY <1>1 DEF OneCallPerCount, OthersStay, LedgerInv, CountInv
<1>5. CountsHaveCells'
  BY Recounted, CommitDecides DEF CountsHaveCells, LedgerInv, CountInv
<1>6. BookedOnce'
  <2> SUFFICES ASSUME NEW r \in Counts
               PROVE  booked'[r] = IF count'[r].state = "approved" THEN Variance(r)' ELSE 0
    BY DEF BookedOnce
  <2>1. Variance(r)' = Variance(r) /\ Variance(r) \in Int
    BY Recounted DEF Variance, LedgerInv, TypeOK, CountTypes
  <2>2. booked[r] = IF count[r].state = "approved" THEN Variance(r) ELSE 0
    BY DEF LedgerInv, CountInv, BookedOnce
  <2>3. CASE call[c].count = r
    BY <2>1, <2>2, <2>3, Booking, CommitDecides
  <2>4. CASE call[c].count # r
    <3>1. count'[r].state = count[r].state /\ booked'[r] = booked[r]
      BY <2>4, Booking, Recounted
    <3> QED
      BY <2>1, <2>2, <3>1
  <2> QED
    BY <2>3, <2>4
<1> QED
  BY <1>2, <1>3, <1>4, <1>5, <1>6, CommitHolds DEF CountInv

-----------------------------------------------------------------------------
(* A call is rolled back, or reserved cylinders are handed over *)

LEMMA RollbackIs ==
  ASSUME LedgerInv, NEW c \in Calls, Rollback(c)
  PROVE  /\ call'[c] = Idle /\ OthersStay(c) /\ call' \in [Calls -> CallTypes]
         /\ UNCHANGED <<balance, net, reserved, booked, register, torn, moves>>
         /\ count' \in [Counts -> CountTypes]
         /\ \A r \in Counts : \/ count'[r] = count[r]
                             \/ /\ call[c].count = r /\ count[r].state = "recording"
                                /\ count'[r] = NoRecord
<1>1. NoRecord \in CountTypes
  BY DEF NoRecord, CountTypes
<1>2. OnCount(c) /\ count \in [Counts -> CountTypes] /\ call \in [Calls -> CallTypes]
  BY DEF LedgerInv, TypeOK, CountInv
<1>3. /\ call' = [call EXCEPT ![c] = Idle]
      /\ UNCHANGED <<balance, net, reserved, booked, register, torn, moves>>
  BY DEF Rollback
<1>4. CASE call[c].op = "count"
  <2>1. call[c].count \in Counts /\ count[call[c].count].state = "recording"
        /\ count' = [count EXCEPT ![call[c].count] = NoRecord]
    BY <1>2, <1>4 DEF OnCount, Rollback, Is
  <2> QED
    BY <1>1, <1>2, <1>3, <2>1, IdleType DEF OthersStay
<1>5. CASE call[c].op # "count"
  BY <1>2, <1>3, <1>5, IdleType DEF Rollback, Is, OthersStay
<1> QED
  BY <1>4, <1>5

LEMMA RollbackType ==
  ASSUME LedgerInv, NEW c \in Calls, Rollback(c)
  PROVE  TypeOK'
BY RollbackIs DEF LedgerInv, TypeOK

LEMMA RollbackCalls ==
  ASSUME LedgerInv, TypeOK', NEW c \in Calls, Rollback(c)
  PROVE  CallInv'
<1>1. /\ call'[c] = Idle /\ OthersStay(c) /\ UNCHANGED <<balance, net, reserved, register, torn>>
  BY RollbackIs
<1>2. RowsAreSound'
  BY <1>1, IdleType, FS_EmptySet DEF LedgerInv, CallInv, RowsAreSound, OthersStay, OneKind
<1>3. WritesFollowRows'
  <2> SUFFICES ASSUME NEW d \in Calls, NEW l \in Locations, NEW s \in Statuses
               PROVE  /\ <<l, s>> \notin CellsOf(call'[d].writes) => Net(call'[d].rows, l, s) = 0
                      /\ \A x \in call'[d].writes :
                           x.at = l /\ x.status = s /\ <<l, s>> \notin torn'
                             => x.quantity = balance'[l][s] + Net(call'[d].rows, l, s)
    BY DEF WritesFollowRows
  <2>1. CASE d # c
    BY <1>1, <2>1, OthersWrites DEF LedgerInv, CallInv
  <2>2. CASE d = c
    BY <1>1, <2>2, IdleType, NetNone
  <2> QED
    BY <2>1, <2>2
<1>4. TwoWritersAreTorn'
  <2>1. CellsOf(call'[c].writes) = {}
    BY <1>1, IdleType DEF CellsOf
  <2> QED
    BY <1>1, <2>1 DEF TwoWritersAreTorn, OthersStay, LedgerInv, CallInv
<1>5. ReleasesAreCovered'
  <2> SUFFICES ASSUME NEW v \in Vehicles
               PROVE  SetAside(v)' >= 0
    BY DEF ReleasesAreCovered
  <2>1. Leaving(call'[c].rows, v) = 0
    BY <1>1, IdleType, FS_EmptySet, NothingLeaves
  <2>2. /\ SetAside(v) \in Int /\ SetAside(v)' \in Int
        /\ SetAside(v)' = SetAside(v) + (reserved'[v] - reserved[v])
                           - (Leaving(call'[c].rows, v) - Leaving(call[c].rows, v))
    BY <1>1, <1>2, SetAsideChange DEF LedgerInv, CallInv
  <2>3. SetAside(v) >= 0 /\ Leaving(call[c].rows, v) \in Nat /\ reserved[v] \in Nat
    BY CallType, LeavingNat DEF LedgerInv, CallInv, ReleasesAreCovered, TypeOK, RowsAreSound
  <2> QED
    BY <1>1, <2>1, <2>2, <2>3
<1>6. LedgerAddsUp' /\ RegisterIsFresh'
  BY <1>1 DEF LedgerInv, CallInv, LedgerAddsUp, RegisterIsFresh
<1> QED
  BY <1>2, <1>3, <1>4, <1>5, <1>6 DEF CallInv

LEMMA RollbackCounts ==
  ASSUME LedgerInv, NEW c \in Calls, Rollback(c)
  PROVE  CountInv'
<1>1. /\ call'[c] = Idle /\ OthersStay(c) /\ UNCHANGED <<balance, reserved, booked, torn>>
      /\ Idle.op = "idle" /\ Idle.count = NoCount
      /\ NoRecord.state = "none"
  BY RollbackIs, IdleType DEF NoRecord
<1>2. \A r \in Counts : \/ count'[r] = count[r]
                        \/ /\ call[c].count = r /\ count[r].state = "recording"
                           /\ count'[r] = NoRecord
  BY RollbackIs
<1>3. ASSUME NEW d \in Calls \ {c}
      PROVE  OnCount(d)'
  <2>1. OnCount(d) /\ call'[d] = call[d]
    BY <1>1 DEF OthersStay, LedgerInv, CountInv
  <2>2. call[d].count \in Counts => count'[call[d].count] = count[call[d].count]
    BY <1>2, NamesAssumption DEF LedgerInv, CountInv, OneCallPerCount
  <2> QED
    BY <2>1, <2>2 DEF OnCount, Variance
<1>4. OnCount(c)'
  BY <1>1 DEF OnCount
<1>5. OneCallPerCount'
  BY <1>1 DEF OneCallPerCount, OthersStay, LedgerInv, CountInv
<1>6. CountsHaveCells' /\ BookedOnce'
  BY <1>1, <1>2 DEF CountsHaveCells, BookedOnce, Variance, LedgerInv, CountInv
<1>7. \A p : Aside(p)' = Aside(p)
  BY <1>1 DEF Aside
<1>8. \A r \in Counts : CountHolds(r)'
  BY <1>1, <1>2, <1>7 DEF CountHolds, LedgerInv, CountInv
<1> QED
  BY <1>3, <1>4, <1>5, <1>6, <1>8 DEF CountInv

LEMMA HandOverIs ==
  ASSUME LedgerInv, NEW v \in Vehicles, NEW q \in Positive, HandOver(v, q)
  PROVE  /\ q \in Nat /\ SetAside(v) \in Int /\ q <= SetAside(v)
         /\ reserved' \in [Vehicles -> Nat] /\ reserved'[v] = reserved[v] - q
         /\ \A u \in Vehicles \ {v} : reserved'[u] = reserved[u]
         /\ UNCHANGED <<balance, net, booked, call, register, torn, moves>>
         /\ count' \in [Counts -> CountTypes]
         /\ \A r \in Counts :
              /\ count'[r].state = count[r].state /\ count'[r].at = count[r].at
              /\ count'[r].expected = count[r].expected /\ count'[r].actual = count[r].actual
              /\ count'[r].clean = count[r].clean
              /\ count'[r].moved = IF count[r].at = <<v, "filled">> THEN count[r].moved - q
                                                                   ELSE count[r].moved
<1>1. /\ q \in Nat /\ q <= SetAside(v) /\ SetAside(v) \in Int /\ SetAside(v) <= reserved[v]
      /\ reserved \in [Vehicles -> Nat] /\ count \in [Counts -> CountTypes]
  BY BoundsAssumption, SetAsideInt DEF Positive, HandOver, LedgerInv, CallInv, TypeOK
<1>2. reserved[v] - q \in Nat
  BY <1>1
<1>3. reserved' = [reserved EXCEPT ![v] = @ - q]
  BY DEF HandOver
<1>4. ASSUME NEW r \in Counts
      PROVE  /\ count'[r] \in CountTypes
             /\ count'[r].state = count[r].state /\ count'[r].at = count[r].at
             /\ count'[r].expected = count[r].expected /\ count'[r].actual = count[r].actual
             /\ count'[r].clean = count[r].clean
             /\ count'[r].moved = IF count[r].at = <<v, "filled">> THEN count[r].moved - q
                                                                  ELSE count[r].moved
  <2> DEFINE left == count[r].moved - q
  <2>1. count[r] \in CountTypes /\ left \in Int
    BY <1>1 DEF CountTypes
  <2>2. count'[r] = IF count[r].at = <<v, "filled">>
                    THEN [count[r] EXCEPT !.moved = left] ELSE count[r]
    BY DEF HandOver
  <2> HIDE DEF left
  <2>3. CASE count[r].at = <<v, "filled">>
    <3>1. count'[r] = [count[r] EXCEPT !.moved = left]
      BY <2>2, <2>3
    <3>2. /\ count'[r] \in CountTypes
          /\ count'[r].state = count[r].state /\ count'[r].at = count[r].at
          /\ count'[r].expected = count[r].expected /\ count'[r].actual = count[r].actual
          /\ count'[r].clean = count[r].clean /\ count'[r].moved = left
      BY <2>1, <3>1 DEF CountTypes
    <3> QED
      BY <2>3, <3>2 DEF left
  <2>4. CASE count[r].at # <<v, "filled">>
    BY <2>1, <2>2, <2>4
  <2> QED
    BY <2>3, <2>4
<1>5. count' \in [Counts -> CountTypes]
  <2>1. count' = [r \in Counts |-> count'[r]]
    BY DEF HandOver
  <2> QED
    BY <1>4, <2>1
<1> QED
  BY <1>1, <1>2, <1>3, <1>4, <1>5 DEF HandOver

LEMMA HandOverStep ==
  ASSUME LedgerInv, NEW v \in Vehicles, NEW q \in Positive, HandOver(v, q)
  PROVE  LedgerInv'
<1>1. /\ q \in Nat /\ q <= SetAside(v) /\ reserved'[v] = reserved[v] - q
      /\ \A u \in Vehicles \ {v} : reserved'[u] = reserved[u]
      /\ UNCHANGED <<balance, net, booked, call, register, torn, moves>>
  BY HandOverIs
<1>2. TypeOK'
  BY HandOverIs DEF LedgerInv, TypeOK
<1>3. ReleasesAreCovered'
  <2> SUFFICES ASSUME NEW u \in Vehicles
               PROVE  SetAside(u)' >= 0
    BY DEF ReleasesAreCovered
  <2> DEFINE out == SumFunctionOnSet([d \in Calls |-> Leaving(call[d].rows, u)], Calls)
  <2>1. SetAside(u) = reserved[u] - out /\ SetAside(u)' = reserved'[u] - out
    BY <1>1 DEF SetAside
  <2>2. out \in Int
    <3> DEFINE leaving == [d \in Calls |-> Leaving(call[d].rows, u)]
    <3>1. \A d \in Calls : leaving[d] \in Int
      BY LeavingNat, CallType DEF LedgerInv, CallInv, RowsAreSound
    <3> HIDE DEF leaving
    <3>2. SumFunctionOnSet(leaving, Calls) \in Int
      BY <3>1, BoundsAssumption, SumInt
    <3> QED
      BY <3>2 DEF leaving
  <2>3. SetAside(u) >= 0 /\ reserved[u] \in Int
    BY DEF LedgerInv, CallInv, ReleasesAreCovered, TypeOK
  <2> HIDE DEF out
  <2>4. CASE u = v
    BY <1>1, <2>1, <2>2, <2>3, <2>4
  <2>5. CASE u # v
    BY <1>1, <2>1, <2>2, <2>3, <2>5
  <2> QED
    BY <2>4, <2>5
<1>4. CallInv'
  BY <1>1, <1>3 DEF LedgerInv, CallInv, RowsAreSound, WritesFollowRows, TwoWritersAreTorn,
     LedgerAddsUp, RegisterIsFresh
<1>5. \A d \in Calls : OnCount(d)'
  <2> TAKE d \in Calls
  <2>1. OnCount(d)
    BY DEF LedgerInv, CountInv
  <2> QED
    BY <1>1, <2>1, HandOverIs DEF OnCount, Variance
<1>6. OneCallPerCount' /\ CountsHaveCells' /\ BookedOnce'
  BY <1>1, HandOverIs
     DEF OneCallPerCount, CountsHaveCells, BookedOnce, Variance, LedgerInv, CountInv
<1>7. ASSUME NEW r \in Counts
      PROVE  CountHolds(r)'
  <2> SUFFICES ASSUME count[r].state \in {"recording", "pending"}, count[r].clean,
                      count[r].at \notin torn
               PROVE  balance[count[r].at[1]][count[r].at[2]] + Aside(count[r].at)'
                        = count[r].expected + count'[r].moved
    BY <1>1, HandOverIs DEF CountHolds
  <2>1. PICK l \in Locations, s \in Statuses : count[r].at = <<l, s>>
    BY DEF LedgerInv, CountInv, CountsHaveCells, Cells
  <2>2. balance[l][s] + Aside(<<l, s>>) = count[r].expected + count[r].moved
    BY <2>1 DEF LedgerInv, CountInv, CountHolds
  <2>3. /\ balance[l][s] \in Int /\ count[r].expected \in Int /\ count[r].moved \in Int
        /\ \A u \in Vehicles : reserved[u] \in Int
    BY DEF LedgerInv, TypeOK, CountTypes
  <2>4. /\ Aside(<<l, s>>) = If(l \in Vehicles /\ s = "filled", reserved[l])
        /\ Aside(count[r].at)' = If(l \in Vehicles /\ s = "filled", reserved'[l])
    BY <2>1, HandOverIs DEF Aside
  <2>5. CASE l = v /\ s = "filled"
    <3>1. count'[r].moved = count[r].moved - q
      BY <2>1, <2>5, HandOverIs
    <3>2. Aside(<<l, s>>) = reserved[v] /\ Aside(count[r].at)' = reserved[v] - q
      BY <1>1, <2>4, <2>5 DEF If
    <3> QED
      BY <1>1, <2>1, <2>2, <2>3, <3>1, <3>2
  <2>6. CASE ~(l = v /\ s = "filled")
    <3>1. count'[r].moved = count[r].moved
      BY <2>1, <2>6, HandOverIs
    <3>2. Aside(count[r].at)' = Aside(<<l, s>>)
      BY <1>1, <2>4, <2>6 DEF If
    <3> QED
      BY <2>1, <2>2, <3>1, <3>2
  <2> QED
    BY <2>5, <2>6
<1> QED
  BY <1>2, <1>4, <1>5, <1>6, <1>7 DEF LedgerInv, CountInv

-----------------------------------------------------------------------------
(* The ledger *)

LEMMA InitLedger == Init => LedgerInv
<1> SUFFICES ASSUME Init PROVE LedgerInv
  OBVIOUS
<1>1. TypeOK
  <2>1. NoRecord \in CountTypes /\ Idle \in CallTypes
    BY IdleType DEF NoRecord, CountTypes
  <2> QED
    BY <2>1, StockAssumption, BoundsAssumption DEF Init, TypeOK, RegisterTypes, NoRegister
<1>2. \A c \in Calls : call[c] = Idle
  BY DEF Init
<1>3. RowsAreSound /\ WritesFollowRows /\ TwoWritersAreTorn
  BY <1>2, IdleType, FS_EmptySet, NetNone
     DEF RowsAreSound, OneKind, WritesFollowRows, TwoWritersAreTorn, CellsOf
<1>4. ASSUME NEW v \in Vehicles
      PROVE  SetAside(v) >= 0
  <2> DEFINE out == [d \in Calls |-> Leaving(call[d].rows, v)]
  <2>1. \A d \in Calls : out[d] = 0
    BY <1>2, IdleType, FS_EmptySet, NothingLeaves
  <2> HIDE DEF out
  <2>2. SumFunctionOnSet(out, Calls) = 0
    BY <2>1, BoundsAssumption, SumZero
  <2>3. reserved[v] = 0
    BY DEF Init
  <2> QED
    BY <2>2, <2>3 DEF SetAside, out
<1>5. LedgerAddsUp /\ RegisterIsFresh
  BY <1>1 DEF Init, LedgerAddsUp, RegisterIsFresh, TypeOK
<1>6. \A r \in Counts : count[r].state = "none" /\ booked[r] = 0
  BY DEF Init, NoRecord
<1>7. CountInv
  BY <1>2, <1>6, IdleType
     DEF CountInv, OnCount, OneCallPerCount, CountsHaveCells, BookedOnce, CountHolds
<1> QED
  BY <1>1, <1>3, <1>4, <1>5, <1>7 DEF LedgerInv, CallInv, ReleasesAreCovered

LEMMA BegunStep ==
  ASSUME LedgerInv, NEW c \in Calls, Begun(c)
  PROVE  LedgerInv'
<1>1. PICK op \in {"move", "count", "approve", "reject"}, r \in Counts \cup {NoCount},
           changes \in SUBSET Changes, rows \in SUBSET Rows : Starts(c, op, r, changes, rows)
  BY DEF Begun
<1>2. TypeOK'
  BY <1>1, StartType
<1> QED
  BY <1>1, <1>2, StartCalls, StartCounts DEF LedgerInv

LEMMA LedgerStep == LedgerInv /\ [Next]_vars => LedgerInv'
<1> SUFFICES ASSUME LedgerInv, [Next]_vars PROVE LedgerInv'
  OBVIOUS
<1>1. ASSUME NEW c \in Calls, AtWarehouse(c) \/ OnVan(c) \/ Correct(c) \/ Counting(c)
      PROVE  LedgerInv'
  BY <1>1, MovesBegin, CountingBegins, BegunStep
<1>2. ASSUME NEW c \in Calls, Commit(c)
      PROVE  LedgerInv'
  BY <1>2, CommitType, CommitCalls, CommitCounts DEF LedgerInv
<1>3. ASSUME NEW c \in Calls, Rollback(c)
      PROVE  LedgerInv'
  BY <1>3, RollbackType, RollbackCalls, RollbackCounts DEF LedgerInv
<1>4. ASSUME NEW v \in Vehicles, NEW q \in Positive, HandOver(v, q)
      PROVE  LedgerInv'
  BY <1>4, HandOverStep
<1>5. ASSUME \/ UNCHANGED vars
             \/ ReadMovements
             \/ \E l \in Locations : ReadBalances(l)
      PROVE  LedgerInv'
  <2>1. UNCHANGED <<balance, net, reserved, count, booked, call, torn>>
    BY <1>5 DEF vars, ReadMovements, ReadBalances
  <2>5. moves' \in 0 .. MaxMoves
    BY <1>5, BoundsAssumption DEF vars, ReadMovements, ReadBalances, LedgerInv, TypeOK
  <2>6. \/ register' \in {register, NoRegister}
        \/ \E l \in Locations : register' = [at |-> l, read |-> balance[l], crossed |-> {}]
    BY <1>5 DEF vars, ReadMovements, ReadBalances
  <2>7. register' \in RegisterTypes /\ RegisterIsFresh'
    BY <2>1, <2>6 DEF LedgerInv, TypeOK, CallInv, RegisterTypes, RegisterIsFresh, NoRegister
  <2>2. TypeOK'
    BY <2>1, <2>5, <2>7 DEF LedgerInv, TypeOK
  <2>3. \A v \in Vehicles : SetAside(v)' = SetAside(v)
    BY <2>1 DEF SetAside
  <2>4. CallInv'
    BY <2>1, <2>3, <2>7 DEF LedgerInv, CallInv, RowsAreSound, WritesFollowRows,
       TwoWritersAreTorn, ReleasesAreCovered, LedgerAddsUp
  <2>8. CountInv'
    BY <2>1 DEF LedgerInv, CountInv, OnCount, OneCallPerCount, CountsHaveCells, BookedOnce,
       CountHolds, Variance, Aside
  <2> QED
    BY <2>2, <2>4, <2>8 DEF LedgerInv
<1> QED
  BY <1>1, <1>2, <1>3, <1>4, <1>5 DEF Next

LEMMA LedgerCorrect == Spec => []LedgerInv
BY InitLedger, LedgerStep, PTL DEF Spec

\* However many calls overlap, every variable keeps its type: no balance goes below
\* zero (InventoryLocation raises first), nor does what is set aside on a van.
THEOREM TypeCorrect == Spec => []TypeOK
<1>1. LedgerInv => TypeOK
  BY DEF LedgerInv
<1> QED
  BY <1>1, LedgerCorrect, PTL

\* For any warehouses and vans, the register opens every cell with what was there,
\* unless two calls at once changed that very cell, or one was committed to it
\* between the register's two reads (GetStockRegisterUseCase).
THEOREM RegisterOpensRightAlways == Spec => []RegisterOpensRight
<1>1. LedgerInv => RegisterOpensRight
  BY DEF LedgerInv, CallInv, LedgerAddsUp, RegisterIsFresh, RegisterOpensRight, Opening
<1> QED
  BY <1>1, LedgerCorrect, PTL

\* However many approve or reject a count at the same time, its variance is booked
\* once if it is approved and never otherwise (get_reconciliation, FOR UPDATE).
THEOREM BookedOnceAlways == Spec => []BookedOnce
<1>1. LedgerInv => BookedOnce
  BY DEF LedgerInv, CountInv
<1> QED
  BY <1>1, LedgerCorrect, PTL

\* Only a commit of its approval approves a count.
LEMMA ApprovedByCommit ==
  ASSUME LedgerInv, [Next]_vars, NEW r \in Counts, Approved(r)
  PROVE  \E c \in Calls : Commit(c) /\ call[c].op = "approve" /\ call[c].count = r
<1>1. count[r].state = "pending" /\ count'[r].state = "approved"
  BY DEF Approved
<1>2. ASSUME NEW c \in Calls, Begins(c)
      PROVE  FALSE
  <2>1. PICK op \in {"move", "count", "approve", "reject"}, q \in Counts \cup {NoCount},
             changes \in SUBSET Changes, rows \in SUBSET Rows : Starts(c, op, q, changes, rows)
    BY <1>2, MovesBegin, CountingBegins DEF Begins, Begun
  <2>2. CountSide(op, q, rows) /\ count \in [Counts -> CountTypes]
    BY <2>1 DEF Starts, LedgerInv, TypeOK
  <2>3. ~UNCHANGED count
    BY <1>1
  <2>4. count[q].state = "none" /\ q \in Counts
    BY <2>2, <2>3 DEF CountSide
  <2>5. count'[r] = count[r]
    BY <1>1, <2>2, <2>3, <2>4 DEF CountSide
  <2> QED
    BY <1>1, <2>5
<1>3. ASSUME NEW c \in Calls, Commit(c)
      PROVE  call[c].op = "approve" /\ call[c].count = r
  BY <1>1, <1>3, Recounted, CommitDecides
<1>4. ASSUME NEW c \in Calls, Rollback(c)
      PROVE  FALSE
  BY <1>1, <1>4, RollbackIs
<1>5. ASSUME NEW v \in Vehicles, NEW q \in Positive, HandOver(v, q)
      PROVE  FALSE
  BY <1>1, <1>5, HandOverIs
<1>6. CASE UNCHANGED vars \/ ReadMovements \/ \E l \in Locations : ReadBalances(l)
  BY <1>1, <1>6 DEF vars, ReadMovements, ReadBalances
<1> QED
  BY <1>2, <1>3, <1>4, <1>5, <1>6 DEF Next, Begins

\* What an approved count books makes the balance what was counted, with what has
\* moved since, whatever other calls ran (approve_reconciliation).
THEOREM CountedThenMovedAlways == Spec => CountedThenMoved
<1>1. LedgerInv /\ [Next]_vars => [ApprovedAsCounted]_vars
  <2> SUFFICES ASSUME LedgerInv, [Next]_vars, NEW r \in Counts, Approved(r), count[r].clean,
                      count[r].at \notin torn
               PROVE  balance'[count[r].at[1]][count[r].at[2]] + Aside(count[r].at)
                        = count[r].actual + count[r].moved
    BY DEF ApprovedAsCounted
  <2>1. PICK c \in Calls : Commit(c) /\ call[c].op = "approve" /\ call[c].count = r
    BY ApprovedByCommit
  <2>2. count[r].state = "pending"
    BY DEF Approved
  <2>3. PICK l \in Locations, s \in Statuses : count[r].at = <<l, s>>
    BY <2>2 DEF LedgerInv, CountInv, CountsHaveCells, Cells
  <2>4. Net(call[c].rows, l, s) = count[r].actual - count[r].expected
    BY <2>1, <2>3 DEF LedgerInv, CountInv, OnCount, Variance
  <2>5. balance'[l][s] = balance[l][s] + Net(call[c].rows, l, s)
    BY <2>1, <2>3, CommittedCell
  <2>6. balance[l][s] + Aside(<<l, s>>) = count[r].expected + count[r].moved
    BY <2>2, <2>3 DEF LedgerInv, CountInv, CountHolds
  <2>7. /\ balance[l][s] \in Int /\ count[r].expected \in Int /\ count[r].moved \in Int
        /\ count[r].actual \in Int
    BY DEF LedgerInv, TypeOK, CountTypes
  <2>8. Aside(<<l, s>>) \in Int
    BY <2>1, CommitAside
  <2>9. balance'[l][s] + Aside(<<l, s>>) = count[r].actual + count[r].moved
    BY <2>4, <2>5, <2>6, <2>7, <2>8
  <2> QED
    BY <2>3, <2>9
<1> QED
  BY <1>1, LedgerCorrect, PTL DEF Spec, CountedThenMoved

==============================================================================
