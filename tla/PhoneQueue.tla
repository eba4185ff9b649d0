------------------------------ MODULE PhoneQueue ------------------------------
(***************************************************************************)
(* SyncCoordinator: the queue a phone keeps of what its users do while     *)
(* there is no network, and drains in passes against the server.           *)
(*                                                                         *)
(* A pass reads the operations of the signed-in user once and then sends   *)
(* them one by one, waiting for each answer; meanwhile people sign in and  *)
(* out, the office moves and closes orders, the agency blocks the phone or *)
(* ends a session, answers get lost and the app is killed.  The server runs *)
(* each request under its idempotency key (Idempotency has the protocol of *)
(* one key; here a request is served in one step whose result may be lost, *)
(* at once or when it is as old as results get).                           *)
(*                                                                         *)
(* Time is abstracted: an operation in error may or may not be backing off *)
(* when a pass starts, and old rows may be pruned whenever they could be.  *)
(***************************************************************************)
EXTENDS Naturals, FiniteSets

CONSTANTS
    Ops,         \* operations, numbered in the order they are queued
    Kind,        \* "place" an order, "move" one, or "deliver" it
    OrderOf,     \* the order an operation is about
    Users,       \* who signs in on this phone
    MaxRetries,  \* maxRetries
    MaxFaults,   \* bound: how many things go wrong
    NoOp, NoUser, NoCall

ASSUME OpsAssumption == Ops \subseteq Nat /\ IsFiniteSet(Ops) /\ NoOp \notin Ops

ASSUME UsersAssumption == NoUser \notin Users

ASSUME KindAssumption == Kind \in [Ops -> {"place", "move", "deliver"}]

ASSUME NoCallAssumption ==
    NoCall \notin [op : Ops, as : Users \cup {NoUser},
                   reply : {"ok", "conflict", "denied", "expired", "refused", "trouble", "out"}]

ASSUME BoundsAssumption == MaxRetries \in Nat \ {0} /\ MaxFaults \in Nat

VARIABLES
    user,         \* currentOwner(): who is signed in
    status,       \* SyncOperation.status, or "new" (not yet done), "inline"
                  \* (delivered without the queue), "gone" (row deleted)
    owner,        \* SyncOperation.ownerId
    retries,      \* SyncOperation.retryCount
    running,      \* _isSyncing
    todo,         \* what the pass has yet to send
    call,         \* the request the pass is waiting for, and its answer
    screen,       \* the delivery a driver is submitting without the queue
    late,         \* requests nobody waits for that may still reach the server
    record,       \* the idempotency record of each key on the server
    applied,      \* how often the server carried out an operation
    lost,         \* how often it lost the record of that, or let it expire
    moved,        \* orders the office has moved on, before they were delivered
    closed,       \* orders the office has closed, after they were
    allowed,      \* whether the agency lets this phone in
    ended,        \* users whose session the server has ended
    interrupted,  \* operations the app was killed over
    switched,     \* whether somebody signed in or out during this pass
    faults        \* how many things have gone wrong

queueVars == <<status, owner, retries>>
passVars == <<running, todo, call>>
keyVars == <<record, applied, lost>>
worldVars == <<moved, closed, allowed, ended>>
ghosts == <<interrupted, switched>>

vars == <<user, queueVars, passVars, screen, late, keyVars, worldVars, ghosts, faults>>

\* A queued operation has its own key; the delivery screen has another.
Keys == {"queue", "screen"}
Results == {"ok", "conflict", "denied", "expired", "refused", "trouble"}
Requests == [op : Ops, key : Keys, as : Users \cup {NoUser}]

OnlyNew == {"pending"}
Pending == {"pending", "error"}            \* _retryableStatuses
Active == {"pending", "error", "syncing"}
Issues == {"failed", "conflict"}
Statuses == Active \cup Issues \cup {"new", "inline", "synced", "gone"}

Types ==
    /\ user \in Users \cup {NoUser}
    /\ status \in [Ops -> Statuses]
    /\ owner \in [Ops -> Users \cup {NoUser}]
    /\ retries \in [Ops -> Nat]
    /\ running \in BOOLEAN
    /\ todo \in SUBSET Ops
    /\ call \in {NoCall} \cup [op : Ops, as : Users \cup {NoUser},
                               reply : Results \cup {"out"}]
    /\ screen \in Ops \cup {NoOp}
    /\ late \in SUBSET Requests
    /\ record \in [Ops -> [Keys -> {"free", "claimed", "stored"}]]
    /\ applied \in [Ops -> Nat]
    /\ lost \in [Ops -> Nat]
    /\ moved \in SUBSET {OrderOf[o] : o \in Ops}
    /\ closed \in SUBSET {OrderOf[o] : o \in Ops}
    /\ allowed \in BOOLEAN
    /\ ended \in SUBSET Users
    /\ interrupted \in SUBSET Ops
    /\ switched \in BOOLEAN

TypeOK ==
    /\ Types
    /\ \A o \in Ops : retries[o] <= MaxRetries
    /\ faults \in 0..MaxFaults

\* The queue may hold operations from before owners existed.
Init ==
    /\ user = NoUser
    /\ status \in [Ops -> {"new", "pending"}]
    /\ \A o, p \in Ops : o < p /\ status[p] = "pending" => status[o] = "pending"
    /\ Cardinality({o \in Ops : status[o] = "pending"}) <= 1
    /\ owner = [o \in Ops |-> NoUser]
    /\ retries = [o \in Ops |-> 0]
    /\ running = FALSE
    /\ todo = {}
    /\ call = NoCall
    /\ screen = NoOp
    /\ late = {}
    /\ record = [o \in Ops |-> [k \in Keys |-> "free"]]
    /\ applied = [o \in Ops |-> 0]
    /\ lost = [o \in Ops |-> 0]
    /\ moved = {}
    /\ closed = {}
    /\ allowed = TRUE
    /\ ended = {}
    /\ interrupted = {}
    /\ switched = FALSE
    /\ faults = 0
-----------------------------------------------------------------------------
(* The server: one request under its key. *)

Delivered(a) == \E o \in Ops : Kind[o] = "deliver" /\ OrderOf[o] = a /\ applied[o] > 0

\* What the order's status machine lets happen: every earlier step of the order
\* is done, neither this one nor a later one is, and the office kept out of it.
Fits(o) ==
    /\ OrderOf[o] \notin moved
    /\ \A p \in Ops : OrderOf[p] = OrderOf[o] => (applied[p] > 0 <=> p < o)

\* Of an order that the office moved, back or forth, anything may fit or not
\* until it is delivered.
Accepts(o) ==
    \/ Kind[o] = "place"
    \/ Fits(o)
    \/ OrderOf[o] \in moved /\ ~Delivered(OrderOf[o])

Refuses(o) == Kind[o] # "place" /\ ~Fits(o)

NeverDone(o) == FALSE

\* A delivery that already went through is answered with what was recorded, as
\* long as the order is "delivered"; closed, it is refused like any other.
AlreadyDone(o) ==
    /\ Kind[o] = "deliver"
    /\ applied[o] > 0
    /\ OrderOf[o] \notin closed

SignedOut(as) == as = NoUser \/ as \in ended

\* An order of another driver is not found; an order is placed for whoever asks.
Theirs(o, as) == Kind[o] = "place" \/ owner[o] \in {as, NoUser}

Admits(o, as) == allowed /\ ~SignedOut(as) /\ Theirs(o, as)

TurnAway(o, as, reply) ==
    /\ \/ ~allowed /\ reply = "refused"
       \/ allowed /\ SignedOut(as) /\ reply = "expired"
       \/ allowed /\ ~SignedOut(as) /\ ~Theirs(o, as) /\ reply = "denied"
    /\ UNCHANGED keyVars

\* The key is known: the stored result, or 503 while a dead worker's claim lasts.
Replay(o, key, as, reply) ==
    /\ Admits(o, as)
    /\ \/ record[o][key] = "stored" /\ reply = "ok"
       \/ record[o][key] = "claimed" /\ reply = "trouble"
    /\ UNCHANGED keyVars

\* A 409; a delivery may get as far as its code, and 410 if that was used up.
Reject(o, key, as, reply) ==
    /\ Admits(o, as)
    /\ record[o][key] = "free"
    /\ Refuses(o)
    /\ ~AlreadyDone(o)
    /\ reply \in (IF Kind[o] = "deliver" THEN {"conflict", "denied"} ELSE {"conflict"})
    /\ UNCHANGED keyVars

PerformUnrecorded(o, key, as, reply) ==
    /\ Admits(o, as)
    /\ record[o][key] = "free"
    /\ Accepts(o)
    /\ applied' = [applied EXCEPT ![o] = @ + 1]
    /\ reply = "ok"
    /\ UNCHANGED <<record, lost>>

Perform(o, key, as, reply) ==
    /\ Admits(o, as)
    /\ record[o][key] = "free"
    /\ Accepts(o)
    /\ applied' = [applied EXCEPT ![o] = @ + 1]
    /\ record' = [record EXCEPT ![o][key] = "stored"]
    /\ reply = "ok"
    /\ UNCHANGED lost

Repeat(o, key, as, reply) ==
    /\ Admits(o, as)
    /\ record[o][key] = "free"
    /\ AlreadyDone(o)
    /\ record' = [record EXCEPT ![o][key] = "stored"]
    /\ reply = "ok"
    /\ UNCHANGED <<applied, lost>>

\* Committed, and then a subscriber of its events raises, or the worker dies.
PerformAndLose(o, key, as, reply) ==
    /\ Admits(o, as)
    /\ record[o][key] = "free"
    /\ Accepts(o)
    /\ applied' = [applied EXCEPT ![o] = @ + 1]
    /\ lost' = [lost EXCEPT ![o] = @ + 1]
    /\ \/ UNCHANGED record
       \/ record' = [record EXCEPT ![o][key] = "claimed"]
    /\ reply = "trouble"

FailBeforeCommit(o, key, as, reply) ==
    /\ Admits(o, as)
    /\ record[o][key] = "free"
    /\ reply = "trouble"
    /\ UNCHANGED keyVars

Serve(o, key, as, reply) ==
    \/ TurnAway(o, as, reply)
    \/ Replay(o, key, as, reply)
    \/ Reject(o, key, as, reply)
    \/ Perform(o, key, as, reply)
    \/ Repeat(o, key, as, reply)

ServeBadly(o, key, as, reply) ==
    FailBeforeCommit(o, key, as, reply) \/ PerformAndLose(o, key, as, reply)

\* A claim lasts 30 seconds, a stored result 72 hours.
KeyExpires(o, key) ==
    /\ \/ record[o][key] = "claimed" /\ UNCHANGED lost
       \/ record[o][key] = "stored" /\ lost' = [lost EXCEPT ![o] = @ + 1]
    /\ record' = [record EXCEPT ![o][key] = "free"]
    /\ UNCHANGED <<user, queueVars, passVars, screen, late, applied, worldVars, ghosts>>

ServeLate(r, Handle(_, _, _, _)) ==
    /\ late' = late \ {r}
    /\ \E reply \in Results : Handle(r.op, r.key, r.as, reply)
    /\ UNCHANGED <<user, queueVars, passVars, screen, worldVars, ghosts>>
-----------------------------------------------------------------------------
(* The phone. *)

\* What the users of the phone do, in order.
Upcoming(o) ==
    /\ screen = NoOp
    /\ status[o] = "new"
    /\ \A p \in Ops : p < o => status[p] # "new"

Queued(o) ==
    /\ status' = [status EXCEPT ![o] = "pending"]
    /\ owner' = [owner EXCEPT ![o] = user]
    /\ UNCHANGED retries

enqueueOperation(o) ==
    /\ user # NoUser
    /\ Upcoming(o)
    /\ Queued(o)
    /\ UNCHANGED <<user, passVars, screen, late, keyVars, worldVars, ghosts>>

\* With a network, a delivery is first tried past the queue.
deliverInline(o) ==
    /\ user # NoUser
    /\ Upcoming(o)
    /\ Kind[o] = "deliver"
    /\ screen' = o
    /\ owner' = [owner EXCEPT ![o] = user]
    /\ late' = late \cup {[op |-> o, key |-> "screen", as |-> user]}
    /\ UNCHANGED <<user, status, retries, passVars, keyVars, worldVars, ghosts>>

\* Whatever the server answers is shown at once: a refusal queues nothing.
InlineAnswer(r, Handle(_, _, _, _)) ==
    /\ r.key = "screen"
    /\ screen = r.op
    /\ late' = late \ {r}
    /\ screen' = NoOp
    /\ \E reply \in Results :
         /\ Handle(r.op, "screen", r.as, reply)
         /\ status' = [status EXCEPT ![r.op] = IF reply = "ok" THEN "inline" ELSE @]
    /\ UNCHANGED <<user, owner, retries, passVars, worldVars, ghosts>>

\* The network dropped: the delivery is queued, under a key of its own, for
\* whoever is signed in by now.
InlineDropped(o) ==
    /\ screen = o
    /\ screen' = NoOp
    /\ Queued(o)
    /\ UNCHANGED <<user, passVars, late, keyVars, worldVars, ghosts>>

Anybodys(adopted) == {o \in Ops : status[o] \in Pending}
Mine(adopted) == {o \in Ops : status[o] \in Pending /\ adopted[o] = user}

\* _adoptUnownedOperations
Adopted ==
    [o \in Ops |-> IF owner[o] = NoUser /\ status[o] \notin {"new", "gone"}
                   THEN user ELSE owner[o]]

\* The operations in error that are backing off are left for another pass; on
\* regained connectivity none is.
StartPass(backingOff) ==
    /\ user # NoUser
    /\ ~running
    /\ running' = TRUE
    /\ owner' = Adopted
    /\ backingOff \subseteq {o \in Mine(Adopted) : status[o] = "error"}
    /\ todo' = Mine(Adopted) \ backingOff
    /\ switched' = FALSE
    /\ UNCHANGED <<user, status, retries, call, screen, late, keyVars, worldVars, interrupted>>

\* The session is the one of this moment.
Send(o) ==
    /\ running
    /\ call = NoCall
    /\ o \in todo
    /\ \A p \in todo : o <= p
    /\ todo' = todo \ {o}
    /\ call' = [op |-> o, as |-> user, reply |-> "out"]
    /\ status' = [status EXCEPT ![o] = "syncing"]
    /\ UNCHANGED <<user, owner, retries, running, screen, late, keyVars, worldVars, ghosts>>

ServeCall(Handle(_, _, _, _)) ==
    /\ call # NoCall
    /\ call.reply = "out"
    /\ \E reply \in Results :
         /\ Handle(call.op, "queue", call.as, reply)
         /\ call' = [call EXCEPT !.reply = reply]
    /\ UNCHANGED <<user, queueVars, running, todo, screen, late, worldVars, ghosts>>

Written(o, s) == status' = [status EXCEPT ![o] = s]

\* _handleDioFailure, for a network error, a timeout or a 5xx.
Failing(o) ==
    /\ retries' = [retries EXCEPT ![o] = @ + 1]
    /\ Written(o, IF retries[o] + 1 >= MaxRetries THEN "failed" ELSE "error")

Answered(reply) == call # NoCall /\ call.reply = reply

OnSynced ==
    /\ Answered("ok")
    /\ Written(call.op, "synced")
    /\ call' = NoCall
    /\ UNCHANGED <<user, owner, retries, running, todo, screen, late, keyVars, worldVars, ghosts>>

ConflictAsSynced ==
    /\ Answered("conflict")
    /\ Written(call.op, "synced")
    /\ call' = NoCall
    /\ UNCHANGED <<user, owner, retries, running, todo, screen, late, keyVars, worldVars, ghosts>>

OnConflict ==
    /\ Answered("conflict")
    /\ Written(call.op, "conflict")
    /\ call' = NoCall
    /\ UNCHANGED <<user, owner, retries, running, todo, screen, late, keyVars, worldVars, ghosts>>

OnDenied ==
    /\ Answered("denied")
    /\ Written(call.op, "failed")
    /\ call' = NoCall
    /\ UNCHANGED <<user, owner, retries, running, todo, screen, late, keyVars, worldVars, ghosts>>

\* A 401: the session of now is refreshed and the request made again; if there
\* is none the session is over, and the 401 is what the queue sees.
OnExpiredResend ==
    /\ Answered("expired")
    /\ ~SignedOut(user)
    /\ call' = [call EXCEPT !.as = user, !.reply = "out"]
    /\ UNCHANGED <<user, queueVars, running, todo, screen, late, keyVars, worldVars, ghosts>>

OnExpired ==
    /\ Answered("expired")
    /\ SignedOut(user)
    /\ user' = NoUser
    /\ Written(call.op, "failed")
    /\ call' = NoCall
    /\ switched' = TRUE
    /\ UNCHANGED <<owner, retries, running, todo, screen, late, keyVars, worldVars, interrupted>>

\* The refresh cannot be tried without a network: the session stays, and the 401
\* of an access token that ran out is what the queue sees.
RefreshUnreachable ==
    /\ call # NoCall
    /\ call.reply \in {"out", "expired"}
    /\ Written(call.op, "failed")
    /\ call' = NoCall
    /\ UNCHANGED <<user, owner, retries, running, todo, screen, late, keyVars, worldVars, ghosts>>

RefusedAsItIs ==
    /\ Answered("refused")
    /\ call' = NoCall
    /\ todo' = {}
    /\ UNCHANGED <<user, queueVars, running, screen, late, keyVars, worldVars, ghosts>>

\* The phone is not let in: the operation is put back and the pass ends.
OnRefused ==
    /\ Answered("refused")
    /\ Written(call.op, "pending")
    /\ call' = NoCall
    /\ todo' = {}
    /\ UNCHANGED <<user, owner, retries, running, screen, late, keyVars, worldVars, ghosts>>

OnTrouble ==
    /\ Answered("trouble")
    /\ Failing(call.op)
    /\ call' = NoCall
    /\ UNCHANGED <<user, owner, running, todo, screen, late, keyVars, worldVars, ghosts>>

\* Whether or not the server has done it, or is yet to.
LateAfterCall ==
    IF call # NoCall /\ call.reply = "out"
    THEN late \cup {[op |-> call.op, key |-> "queue", as |-> call.as]}
    ELSE late

TimeOut ==
    /\ call # NoCall
    /\ Failing(call.op)
    /\ call' = NoCall
    /\ late' = LateAfterCall
    /\ UNCHANGED <<user, owner, running, todo, screen, keyVars, worldVars, ghosts>>

EndPass ==
    /\ running
    /\ todo = {}
    /\ call = NoCall
    /\ running' = FALSE
    /\ UNCHANGED <<user, queueVars, todo, call, screen, late, keyVars, worldVars, ghosts>>

\* The app is killed and started again: nothing looks for what was "syncing".
Kill ==
    /\ running \/ screen # NoOp
    /\ running' = FALSE
    /\ todo' = {}
    /\ call' = NoCall
    /\ late' = LateAfterCall
    /\ screen' = NoOp
    /\ interrupted' = interrupted \cup (IF call = NoCall THEN {} ELSE {call.op})
    /\ UNCHANGED <<user, queueVars, keyVars, worldVars, switched>>

\* The sync screen of the signed-in user.
retryOperation(o) ==
    /\ status[o] = "failed"
    /\ owner[o] = user
    /\ Written(o, "pending")
    /\ retries' = [retries EXCEPT ![o] = 0]
    /\ UNCHANGED <<user, owner, passVars, screen, late, keyVars, worldVars, ghosts>>

discardOperation(o) ==
    /\ status[o] \in Issues
    /\ owner[o] = user
    /\ Written(o, "gone")
    /\ UNCHANGED <<user, owner, retries, passVars, screen, late, keyVars, worldVars, ghosts>>

PruneWaiting(o) ==
    /\ status[o] \in Issues \cup {"synced", "error"}
    /\ Written(o, "gone")
    /\ UNCHANGED <<user, owner, retries, passVars, screen, late, keyVars, worldVars, ghosts>>

\* A week after it was sent, a month after it failed.
Prune(o) ==
    /\ status[o] \in Issues \cup {"synced"}
    /\ Written(o, "gone")
    /\ UNCHANGED <<user, owner, retries, passVars, screen, late, keyVars, worldVars, ghosts>>

SignIn(u) ==
    /\ user = NoUser
    /\ user' = u
    /\ ended' = ended \ {u}
    /\ switched' = (switched \/ running)
    /\ UNCHANGED <<queueVars, passVars, screen, late, keyVars, moved, closed, allowed, interrupted>>

SignOut ==
    /\ user # NoUser
    /\ user' = NoUser
    /\ switched' = (switched \/ running)
    /\ UNCHANGED <<queueVars, passVars, screen, late, keyVars, worldVars, interrupted>>

(* What happens around it. *)

EndSession(u) ==
    /\ u \notin ended
    /\ ended' = ended \cup {u}
    /\ UNCHANGED <<user, queueVars, passVars, screen, late, keyVars, moved, closed, allowed, ghosts>>

AllowPhone(yes) ==
    /\ allowed # yes
    /\ allowed' = yes
    /\ UNCHANGED <<user, queueVars, passVars, screen, late, keyVars, moved, closed, ended, ghosts>>

OfficeMoves(a) ==
    /\ a \notin moved
    /\ ~Delivered(a)
    /\ moved' = moved \cup {a}
    /\ UNCHANGED <<user, queueVars, passVars, screen, late, keyVars, closed, allowed, ended,
                   ghosts>>

OfficeCloses(a) ==
    /\ a \notin closed
    /\ Delivered(a)
    /\ closed' = closed \cup {a}
    /\ UNCHANGED <<user, queueVars, passVars, screen, late, keyVars, moved, allowed, ended,
                   ghosts>>

Phone ==
    \/ \E o \in Ops : Send(o)
    \/ ServeCall(Serve)
    \/ OnSynced \/ OnConflict \/ OnDenied \/ OnExpiredResend \/ OnExpired
    \/ OnRefused \/ OnTrouble
    \/ EndPass

Usual ==
    \/ Phone
    \/ \E backingOff \in SUBSET Ops : StartPass(backingOff)
    \/ \E o \in Ops : \/ enqueueOperation(o) \/ deliverInline(o)
                      \/ retryOperation(o) \/ discardOperation(o) \/ Prune(o)
    \/ \E o \in Ops, key \in Keys : KeyExpires(o, key)
    \/ \E r \in late : ServeLate(r, Serve) \/ InlineAnswer(r, Serve)
    \/ \E u \in Users : SignIn(u)
    \/ AllowPhone(TRUE)

Fault ==
    \/ ServeCall(ServeBadly) \/ TimeOut \/ RefreshUnreachable \/ Kill
    \/ \E o \in Ops : InlineDropped(o)
    \/ \E r \in late : ServeLate(r, ServeBadly) \/ InlineAnswer(r, ServeBadly)
    \/ SignOut
    \/ \E u \in Users : EndSession(u)
    \/ AllowPhone(FALSE)
    \/ \E a \in {OrderOf[o] : o \in Ops} : OfficeMoves(a) \/ OfficeCloses(a)

Next ==
    \/ Usual /\ UNCHANGED faults
    \/ Fault /\ faults < MaxFaults /\ faults' = faults + 1

\* Requests are answered or time out, the poll timer starts a pass every 30
\* seconds, and no operation backs off for longer than ten minutes.
Spec ==
    /\ Init
    /\ [][Next]_vars
    /\ WF_vars(Phone /\ UNCHANGED faults)
    /\ SF_vars(StartPass({}) /\ UNCHANGED faults)
-----------------------------------------------------------------------------
(* What the queue promises. *)

\* An operation is shown as sent only if the server carried it out.
SyncedIsDone ==
    \A o \in Ops : status[o] \in {"synced", "inline"} => applied[o] > 0

\* However often a request is repeated, an operation is carried out once; again
\* only where the server itself lost the record of having done it, or let it
\* expire, and a delivery not even then.
AppliedOncePerLoss ==
    \A o \in Ops : applied[o] <= 1 + (IF Kind[o] = "deliver" THEN 0 ELSE lost[o])

\* What is being sent is what the pass is waiting for, unless the app was killed
\* over it: nothing else may be left "syncing", which no pass ever looks for.
SyncingIsBeingSent ==
    \A o \in Ops : status[o] = "syncing" =>
        (call # NoCall /\ call.op = o) \/ o \in interrupted

\* "never sent under another person's session": as long as nobody signs in or
\* out during the pass.
OwnSessionUnlessSwitched ==
    call # NoCall /\ ~switched => call.as = owner[call.op]

\* Made past the queue, under the other key, and closed since.
ClosedOver(o) == OrderOf[o] \in closed /\ record[o]["screen"] = "stored"

IsRefused ==
    /\ call # NoCall /\ call.reply = "out"
    /\ call' # NoCall /\ call'.reply \in {"conflict", "denied"}
    /\ Theirs(call.op, call.as)

RefusalsAreOthers ==
    IsRefused =>
        applied[call.op] = 0 \/ lost[call.op] > 0 \/ ClosedOver(call.op)

\* A phone is refused work that somebody else overtook, never because of its own
\* earlier attempt; unless the server lost the record of that, or it went past the
\* queue under its other key and the office has closed the order since.
ConflictIsNotItself == [][RefusalsAreOthers]_vars

\* While its owner stays signed in and the phone stays allowed, whatever waits is
\* sent or reported as a problem in the end, unless the app was killed over it.
EveryOperationSettles ==
    \A o \in Ops :
        status[o] \in Active ~>
            \/ status[o] \notin Active \/ o \in interrupted
            \/ user # owner[o] \/ user = NoUser \/ ~allowed

\* What a user sees of an operation, and whether the server did it.
Shown(s) ==
    CASE s = "new" -> "new"
      [] s \in Active -> "waiting"
      [] s \in {"synced", "inline"} -> "sent"
      [] s \in Issues -> "problem"
      [] OTHER -> "forgotten"

Box == [o \in Ops |-> Shown(status[o])]
Done == {o \in Ops : applied[o] > 0}

Promise == INSTANCE Outbox WITH box <- Box, done <- Done

\* The protocol keeps the promise of the abstract queue.
ImplementsOutbox == Promise!Spec
=============================================================================
