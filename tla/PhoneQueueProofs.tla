--------------------------- MODULE PhoneQueueProofs ---------------------------
(***************************************************************************)
(* The promises of PhoneQueue, for every number of operations, users,      *)
(* retries and faults, and that it implements the abstract queue Outbox.   *)
(***************************************************************************)
EXTENDS PhoneQueue, TLAPS

-----------------------------------------------------------------------------
(* The server's answer to one request. *)

\* What counts as done was done.
StoredIsDone ==
    \A o \in Ops, k \in Keys : record[o][k] = "stored" => applied[o] > 0

\* Every time an order was placed or moved there is the record of it, or the server
\* lost it; the order's own status machine lets it be delivered once, and one of
\* its two keys has the record of that, or lost it.
Tally ==
    \A o \in Ops :
        IF Kind[o] = "deliver"
        THEN /\ applied[o] <= 1
             /\ applied[o] > 0 => lost[o] > 0 \/ \E k \in Keys : record[o][k] = "stored"
        ELSE /\ applied[o] = lost[o] + (IF record[o]["queue"] = "stored" THEN 1 ELSE 0)
             /\ record[o]["screen"] = "free"

\* Whatever the server makes of a request: it never takes back what it did, says
\* "ok" only to what it did, and keeps the tally.
LEMMA ServeEffect ==
    ASSUME Types, NEW o \in Ops, NEW key \in Keys, NEW as, NEW reply,
           Serve(o, key, as, reply) \/ ServeBadly(o, key, as, reply)
    PROVE  /\ record' \in [Ops -> [Keys -> {"free", "claimed", "stored"}]]
           /\ applied' \in [Ops -> Nat]
           /\ lost' \in [Ops -> Nat]
           /\ \A p \in Ops : applied'[p] >= applied[p] /\ lost'[p] >= lost[p]
           /\ \A p \in Ops : p # o => applied'[p] = applied[p]
           /\ StoredIsDone => StoredIsDone'
           /\ StoredIsDone /\ reply = "ok" => applied'[o] > 0
           /\ Tally /\ (key = "queue" \/ Kind[o] = "deliver") => Tally'
<1> USE OpsAssumption, KindAssumption
<1>1. CASE TurnAway(o, as, reply)
  <2>1. UNCHANGED <<record, applied, lost>> /\ reply # "ok"
    BY <1>1 DEF TurnAway, keyVars
  <2>2. (StoredIsDone => StoredIsDone') /\ (Tally => Tally')
    BY <2>1 DEF StoredIsDone, Tally
  <2> QED
    BY <2>1, <2>2 DEF Types
<1>2. CASE Replay(o, key, as, reply)
  BY <1>2, SMTT(30) DEF Types, Replay, keyVars, StoredIsDone, Tally, Keys
<1>3. CASE Reject(o, key, as, reply)
  BY <1>3, SMTT(30) DEF Types, Reject, keyVars, StoredIsDone, Tally, Keys
<1>4. CASE FailBeforeCommit(o, key, as, reply)
  BY <1>4, SMTT(30) DEF Types, FailBeforeCommit, keyVars, StoredIsDone, Tally, Keys
<1>5. CASE Perform(o, key, as, reply)
  BY <1>5, SMTT(30) DEF Types, Perform, Accepts, Fits, Delivered, keyVars, StoredIsDone, Tally, Keys
<1>6. CASE Repeat(o, key, as, reply)
  BY <1>6, SMTT(30) DEF Types, Repeat, AlreadyDone, keyVars, StoredIsDone, Tally, Keys
<1>7. CASE PerformAndLose(o, key, as, reply)
  BY <1>7, SMTT(30) DEF Types, PerformAndLose, Accepts, Fits, Delivered, keyVars, StoredIsDone, Tally, Keys
<1> QED
  BY <1>1, <1>2, <1>3, <1>4, <1>5, <1>6, <1>7 DEF Serve, ServeBadly

-----------------------------------------------------------------------------
(* Types. *)

\* Every step keeps the values of the variables in their types.
LEMMA TypeStep ==
    ASSUME Types, [Next]_vars
    PROVE  Types'
<1> USE BoundsAssumption DEF queueVars, passVars, keyVars, worldVars, ghosts, Statuses, Active,
      Issues, Pending, Requests, Keys, Results
<1>1. ASSUME NEW o \in Ops, Send(o) PROVE Types'
  BY <1>1 DEF Send, Types
<1>2. ASSUME ServeCall(Serve) PROVE Types'
  <2>1. PICK reply \in Results :
          /\ Serve(call.op, "queue", call.as, reply)
          /\ call' = [call EXCEPT !.reply = reply]
      BY <1>2 DEF ServeCall
  <2>2. call.op \in Ops /\ "queue" \in Keys
      BY <1>2 DEF ServeCall, Types
  <2>3. /\ record' \in [Ops -> [Keys -> {"free", "claimed", "stored"}]]
        /\ applied' \in [Ops -> Nat] /\ lost' \in [Ops -> Nat]
      BY <2>1, <2>2, ServeEffect
  <2> QED
      BY <1>2, <2>1, <2>2, <2>3 DEF ServeCall, Types
<1>3. ASSUME OnSynced PROVE Types'
  BY <1>3 DEF OnSynced, Answered, Written, Types
<1>4. ASSUME OnConflict PROVE Types'
  BY <1>4 DEF OnConflict, Answered, Written, Types
<1>5. ASSUME OnDenied PROVE Types'
  BY <1>5 DEF OnDenied, Answered, Written, Types
<1>6. ASSUME OnExpiredResend PROVE Types'
  BY <1>6 DEF OnExpiredResend, Answered, Types
<1>7. ASSUME OnExpired PROVE Types'
  BY <1>7 DEF OnExpired, Answered, Written, Types
<1>8. ASSUME OnRefused PROVE Types'
  BY <1>8 DEF OnRefused, Answered, Written, Types
<1>9. ASSUME OnTrouble PROVE Types'
  BY <1>9 DEF OnTrouble, Answered, Failing, Written, Types
<1>10. ASSUME EndPass PROVE Types'
  BY <1>10 DEF EndPass, Types
<1>11. ASSUME NEW b \in SUBSET Ops, StartPass(b) PROVE Types'
  BY <1>11 DEF StartPass, Adopted, Mine, Types
<1>12. ASSUME NEW o \in Ops, enqueueOperation(o) PROVE Types'
  BY <1>12 DEF enqueueOperation, Upcoming, Queued, Types
<1>13. ASSUME NEW o \in Ops, deliverInline(o) PROVE Types'
  BY <1>13 DEF deliverInline, Upcoming, Types
<1>14. ASSUME NEW o \in Ops, retryOperation(o) PROVE Types'
  BY <1>14 DEF retryOperation, Written, Types
<1>15. ASSUME NEW o \in Ops, discardOperation(o) PROVE Types'
  BY <1>15 DEF discardOperation, Written, Types
<1>16. ASSUME NEW o \in Ops, Prune(o) PROVE Types'
  BY <1>16 DEF Prune, Written, Types
<1>17. ASSUME NEW o \in Ops, NEW key \in Keys, KeyExpires(o, key) PROVE Types'
  BY <1>17 DEF KeyExpires, Types
<1>18. ASSUME NEW r \in late, ServeLate(r, Serve) PROVE Types'
  <2>1. PICK reply \in Results : Serve(r.op, r.key, r.as, reply)
      BY <1>18 DEF ServeLate
  <2>2. r.op \in Ops /\ r.key \in Keys
      BY <1>18 DEF ServeLate, Types
  <2>3. /\ record' \in [Ops -> [Keys -> {"free", "claimed", "stored"}]]
        /\ applied' \in [Ops -> Nat] /\ lost' \in [Ops -> Nat]
      BY <2>1, <2>2, ServeEffect
  <2> QED
      BY <1>18, <2>1, <2>2, <2>3 DEF ServeLate, Types
<1>19. ASSUME NEW r \in late, InlineAnswer(r, Serve) PROVE Types'
  <2>1. PICK reply \in Results :
          /\ Serve(r.op, "screen", r.as, reply)
          /\ status' = [status EXCEPT ![r.op] = IF reply = "ok" THEN "inline" ELSE status[r.op]]
      BY <1>19 DEF InlineAnswer
  <2>2. r.op \in Ops /\ "screen" \in Keys
      BY <1>19 DEF InlineAnswer, Types
  <2>3. /\ record' \in [Ops -> [Keys -> {"free", "claimed", "stored"}]]
        /\ applied' \in [Ops -> Nat] /\ lost' \in [Ops -> Nat]
      BY <2>1, <2>2, ServeEffect
  <2> QED
      BY <1>19, <2>1, <2>2, <2>3 DEF InlineAnswer, Types
<1>20. ASSUME NEW u \in Users, SignIn(u) PROVE Types'
  BY <1>20 DEF SignIn, Types
<1>21. ASSUME NEW yes \in BOOLEAN, AllowPhone(yes) PROVE Types'
  BY <1>21 DEF AllowPhone, Types
<1>22. ASSUME ServeCall(ServeBadly) PROVE Types'
  <2>1. PICK reply \in Results :
          /\ ServeBadly(call.op, "queue", call.as, reply)
          /\ call' = [call EXCEPT !.reply = reply]
      BY <1>22 DEF ServeCall
  <2>2. call.op \in Ops /\ "queue" \in Keys
      BY <1>22 DEF ServeCall, Types
  <2>3. /\ record' \in [Ops -> [Keys -> {"free", "claimed", "stored"}]]
        /\ applied' \in [Ops -> Nat] /\ lost' \in [Ops -> Nat]
      BY <2>1, <2>2, ServeEffect
  <2> QED
      BY <1>22, <2>1, <2>2, <2>3 DEF ServeCall, Types
<1>23. ASSUME TimeOut PROVE Types'
  BY <1>23 DEF TimeOut, Failing, Written, LateAfterCall, Types
<1>24. ASSUME RefreshUnreachable PROVE Types'
  BY <1>24 DEF RefreshUnreachable, Written, Types
<1>25. ASSUME Kill PROVE Types'
  <2>1. late' \in SUBSET Requests
    BY <1>25 DEF Kill, LateAfterCall, Types
  <2>2. interrupted' \in SUBSET Ops
    BY <1>25 DEF Kill, Types
  <2> QED
    BY <1>25, <2>1, <2>2 DEF Kill, Types
<1>26. ASSUME NEW o \in Ops, InlineDropped(o) PROVE Types'
  BY <1>26 DEF InlineDropped, Queued, Types
<1>27. ASSUME NEW r \in late, ServeLate(r, ServeBadly) PROVE Types'
  <2>1. PICK reply \in Results : ServeBadly(r.op, r.key, r.as, reply)
      BY <1>27 DEF ServeLate
  <2>2. r.op \in Ops /\ r.key \in Keys
      BY <1>27 DEF ServeLate, Types
  <2>3. /\ record' \in [Ops -> [Keys -> {"free", "claimed", "stored"}]]
        /\ applied' \in [Ops -> Nat] /\ lost' \in [Ops -> Nat]
      BY <2>1, <2>2, ServeEffect
  <2> QED
      BY <1>27, <2>1, <2>2, <2>3 DEF ServeLate, Types
<1>28. ASSUME NEW r \in late, InlineAnswer(r, ServeBadly) PROVE Types'
  <2>1. PICK reply \in Results :
          /\ ServeBadly(r.op, "screen", r.as, reply)
          /\ status' = [status EXCEPT ![r.op] = IF reply = "ok" THEN "inline" ELSE status[r.op]]
      BY <1>28 DEF InlineAnswer
  <2>2. r.op \in Ops /\ "screen" \in Keys
      BY <1>28 DEF InlineAnswer, Types
  <2>3. /\ record' \in [Ops -> [Keys -> {"free", "claimed", "stored"}]]
        /\ applied' \in [Ops -> Nat] /\ lost' \in [Ops -> Nat]
      BY <2>1, <2>2, ServeEffect
  <2> QED
      BY <1>28, <2>1, <2>2, <2>3 DEF InlineAnswer, Types
<1>29. ASSUME SignOut PROVE Types'
  BY <1>29 DEF SignOut, Types
<1>30. ASSUME NEW u \in Users, EndSession(u) PROVE Types'
  BY <1>30 DEF EndSession, Types
<1>31. ASSUME NEW a \in {OrderOf[o] : o \in Ops}, OfficeMoves(a) \/ OfficeCloses(a) PROVE Types'
  BY <1>31 DEF OfficeMoves, OfficeCloses, Types
<1>32. CASE UNCHANGED vars
  BY <1>32 DEF vars, Types
<1> QED
  BY <1>1, <1>2, <1>3, <1>4, <1>5, <1>6, <1>7, <1>8, <1>9, <1>10, <1>11, <1>12, <1>13, <1>14,
     <1>15, <1>16, <1>17, <1>18, <1>19, <1>20, <1>21, <1>22, <1>23, <1>24, <1>25, <1>26, <1>27,
     <1>28, <1>29, <1>30, <1>31, <1>32
  DEF Next, Usual, Fault, Phone

-----------------------------------------------------------------------------
(* The queue. *)

\* The pass waits for what it is sending, and has yet to send what still waits; a
\* delivery on the screen is not queued; only a failed operation has used up its
\* retries.
PassInv ==
    /\ call # NoCall => running /\ status[call.op] = "syncing"
    /\ todo # {} => running
    /\ \A o \in todo : status[o] \in Pending
    /\ screen # NoOp => status[screen] = "new"
    /\ \A o \in Ops : retries[o] <= MaxRetries
    /\ \A o \in Ops : status[o] \in Active \cup {"new"} => retries[o] < MaxRetries

\* Every step keeps the pass and the queue in line.
LEMMA PassStep ==
    ASSUME Types, PassInv, [Next]_vars
    PROVE  PassInv'
<1> USE OpsAssumption, NoCallAssumption, BoundsAssumption DEF queueVars, passVars, keyVars,
      worldVars, ghosts, Statuses, Active, Issues, Pending, Requests, Keys
<1>1. ASSUME NEW o \in Ops, Send(o) PROVE PassInv'
  BY <1>1 DEF Send, PassInv, Types
<1>2. ASSUME ServeCall(Serve) PROVE PassInv'
  <2>1. PICK reply \in Results :
          /\ Serve(call.op, "queue", call.as, reply)
          /\ call' = [call EXCEPT !.reply = reply]
      BY <1>2 DEF ServeCall
  <2>2. call.op \in Ops /\ "queue" \in Keys
      BY <1>2 DEF ServeCall, Types
  <2>4. UNCHANGED <<user, queueVars, running, todo, screen, late, interrupted, switched>>
    BY <1>2 DEF ServeCall
  <2>5. call # NoCall /\ call' # NoCall /\ call'.op = call.op /\ call'.as = call.as /\ call'.reply = reply
    BY <1>2, <2>1 DEF ServeCall, Types, Results
  <2> QED
    BY <2>2, <2>4, <2>5 DEF PassInv, Types
<1>3. ASSUME OnSynced PROVE PassInv'
  BY <1>3 DEF OnSynced, Answered, Written, PassInv, Types
<1>4. ASSUME OnConflict PROVE PassInv'
  BY <1>4 DEF OnConflict, Answered, Written, PassInv, Types
<1>5. ASSUME OnDenied PROVE PassInv'
  BY <1>5 DEF OnDenied, Answered, Written, PassInv, Types
<1>6. ASSUME OnExpiredResend PROVE PassInv'
  BY <1>6 DEF OnExpiredResend, Answered, PassInv, Types
<1>7. ASSUME OnExpired PROVE PassInv'
  BY <1>7 DEF OnExpired, Answered, Written, PassInv, Types
<1>8. ASSUME OnRefused PROVE PassInv'
  BY <1>8 DEF OnRefused, Answered, Written, PassInv, Types
<1>9. ASSUME OnTrouble PROVE PassInv'
  BY <1>9 DEF OnTrouble, Answered, Failing, Written, PassInv, Types
<1>10. ASSUME EndPass PROVE PassInv'
  BY <1>10 DEF EndPass, PassInv, Types
<1>11. ASSUME NEW b \in SUBSET Ops, StartPass(b) PROVE PassInv'
  BY <1>11 DEF StartPass, Adopted, Mine, PassInv, Types
<1>12. ASSUME NEW o \in Ops, enqueueOperation(o) PROVE PassInv'
  BY <1>12 DEF enqueueOperation, Upcoming, Queued, PassInv, Types
<1>13. ASSUME NEW o \in Ops, deliverInline(o) PROVE PassInv'
  BY <1>13 DEF deliverInline, Upcoming, PassInv, Types
<1>14. ASSUME NEW o \in Ops, retryOperation(o) PROVE PassInv'
  BY <1>14 DEF retryOperation, Written, PassInv, Types
<1>15. ASSUME NEW o \in Ops, discardOperation(o) PROVE PassInv'
  BY <1>15 DEF discardOperation, Written, PassInv, Types
<1>16. ASSUME NEW o \in Ops, Prune(o) PROVE PassInv'
  BY <1>16 DEF Prune, Written, PassInv, Types
<1>17. ASSUME NEW o \in Ops, NEW key \in Keys, KeyExpires(o, key) PROVE PassInv'
  BY <1>17 DEF KeyExpires, PassInv, Types
<1>18. ASSUME NEW r \in late, ServeLate(r, Serve) PROVE PassInv'
  <2>1. PICK reply \in Results : Serve(r.op, r.key, r.as, reply)
      BY <1>18 DEF ServeLate
  <2>2. r.op \in Ops /\ r.key \in Keys
      BY <1>18 DEF ServeLate, Types
  <2>4. UNCHANGED <<user, queueVars, passVars, screen, interrupted, switched>>
    BY <1>18 DEF ServeLate
  <2>5. late' \subseteq late
    BY <1>18 DEF ServeLate
  <2> QED
    BY <2>2, <2>4, <2>5 DEF PassInv, Types
<1>19. ASSUME NEW r \in late, InlineAnswer(r, Serve) PROVE PassInv'
  <2>1. PICK reply \in Results :
          /\ Serve(r.op, "screen", r.as, reply)
          /\ status' = [status EXCEPT ![r.op] = IF reply = "ok" THEN "inline" ELSE status[r.op]]
      BY <1>19 DEF InlineAnswer
  <2>2. r.op \in Ops /\ "screen" \in Keys
      BY <1>19 DEF InlineAnswer, Types
  <2>4. UNCHANGED <<user, owner, retries, passVars, interrupted, switched>> /\ screen = r.op /\ screen' = NoOp
    BY <1>19 DEF InlineAnswer
  <2>5. late' \subseteq late /\ (status' = status \/ (reply = "ok" /\ status' = [status EXCEPT ![r.op] = "inline"]))
    BY <1>19, <2>1 DEF InlineAnswer, Types
  <2> QED
    BY <2>2, <2>4, <2>5 DEF PassInv, Types
<1>20. ASSUME NEW u \in Users, SignIn(u) PROVE PassInv'
  BY <1>20 DEF SignIn, PassInv, Types
<1>21. ASSUME NEW yes \in BOOLEAN, AllowPhone(yes) PROVE PassInv'
  BY <1>21 DEF AllowPhone, PassInv, Types
<1>22. ASSUME ServeCall(ServeBadly) PROVE PassInv'
  <2>1. PICK reply \in Results :
          /\ ServeBadly(call.op, "queue", call.as, reply)
          /\ call' = [call EXCEPT !.reply = reply]
      BY <1>22 DEF ServeCall
  <2>2. call.op \in Ops /\ "queue" \in Keys
      BY <1>22 DEF ServeCall, Types
  <2>4. UNCHANGED <<user, queueVars, running, todo, screen, late, interrupted, switched>>
    BY <1>22 DEF ServeCall
  <2>5. call # NoCall /\ call' # NoCall /\ call'.op = call.op /\ call'.as = call.as /\ call'.reply = reply
    BY <1>22, <2>1 DEF ServeCall, Types, Results
  <2> QED
    BY <2>2, <2>4, <2>5 DEF PassInv, Types
<1>23. ASSUME TimeOut PROVE PassInv'
  BY <1>23 DEF TimeOut, Failing, Written, LateAfterCall, PassInv, Types
<1>24. ASSUME RefreshUnreachable PROVE PassInv'
  BY <1>24 DEF RefreshUnreachable, Written, PassInv, Types
<1>25. ASSUME Kill PROVE PassInv'
  BY <1>25 DEF Kill, LateAfterCall, PassInv, Types
<1>26. ASSUME NEW o \in Ops, InlineDropped(o) PROVE PassInv'
  BY <1>26 DEF InlineDropped, Queued, PassInv, Types
<1>27. ASSUME NEW r \in late, ServeLate(r, ServeBadly) PROVE PassInv'
  <2>1. PICK reply \in Results : ServeBadly(r.op, r.key, r.as, reply)
      BY <1>27 DEF ServeLate
  <2>2. r.op \in Ops /\ r.key \in Keys
      BY <1>27 DEF ServeLate, Types
  <2>4. UNCHANGED <<user, queueVars, passVars, screen, interrupted, switched>>
    BY <1>27 DEF ServeLate
  <2>5. late' \subseteq late
    BY <1>27 DEF ServeLate
  <2> QED
    BY <2>2, <2>4, <2>5 DEF PassInv, Types
<1>28. ASSUME NEW r \in late, InlineAnswer(r, ServeBadly) PROVE PassInv'
  <2>1. PICK reply \in Results :
          /\ ServeBadly(r.op, "screen", r.as, reply)
          /\ status' = [status EXCEPT ![r.op] = IF reply = "ok" THEN "inline" ELSE status[r.op]]
      BY <1>28 DEF InlineAnswer
  <2>2. r.op \in Ops /\ "screen" \in Keys
      BY <1>28 DEF InlineAnswer, Types
  <2>4. UNCHANGED <<user, owner, retries, passVars, interrupted, switched>> /\ screen = r.op /\ screen' = NoOp
    BY <1>28 DEF InlineAnswer
  <2>5. late' \subseteq late /\ (status' = status \/ (reply = "ok" /\ status' = [status EXCEPT ![r.op] = "inline"]))
    BY <1>28, <2>1 DEF InlineAnswer, Types
  <2> QED
    BY <2>2, <2>4, <2>5 DEF PassInv, Types
<1>29. ASSUME SignOut PROVE PassInv'
  BY <1>29 DEF SignOut, PassInv, Types
<1>30. ASSUME NEW u \in Users, EndSession(u) PROVE PassInv'
  BY <1>30 DEF EndSession, PassInv, Types
<1>31. ASSUME NEW a \in {OrderOf[o] : o \in Ops}, OfficeMoves(a) \/ OfficeCloses(a) PROVE PassInv'
  BY <1>31 DEF OfficeMoves, OfficeCloses, PassInv, Types
<1>32. CASE UNCHANGED vars
  BY <1>32 DEF vars, PassInv, Types
<1> QED
  BY <1>1, <1>2, <1>3, <1>4, <1>5, <1>6, <1>7, <1>8, <1>9, <1>10, <1>11, <1>12, <1>13, <1>14,
     <1>15, <1>16, <1>17, <1>18, <1>19, <1>20, <1>21, <1>22, <1>23, <1>24, <1>25, <1>26, <1>27,
     <1>28, <1>29, <1>30, <1>31, <1>32
  DEF Next, Usual, Fault, Phone

\* Nothing is left behind as being sent.
LEMMA SyncingStep ==
    ASSUME Types, PassInv, SyncingIsBeingSent, [Next]_vars
    PROVE  SyncingIsBeingSent'
<1> USE NoCallAssumption DEF queueVars, passVars, keyVars, worldVars, ghosts, Statuses, Active,
      Issues, Pending, Requests, Keys
<1>1. ASSUME NEW o \in Ops, Send(o) PROVE SyncingIsBeingSent'
  BY <1>1 DEF Send, PassInv, SyncingIsBeingSent, Types
<1>2. ASSUME ServeCall(Serve) PROVE SyncingIsBeingSent'
  <2>1. PICK reply \in Results :
          /\ Serve(call.op, "queue", call.as, reply)
          /\ call' = [call EXCEPT !.reply = reply]
      BY <1>2 DEF ServeCall
  <2>2. call.op \in Ops /\ "queue" \in Keys
      BY <1>2 DEF ServeCall, Types
  <2>4. UNCHANGED <<user, queueVars, running, todo, screen, late, interrupted, switched>>
    BY <1>2 DEF ServeCall
  <2>5. call # NoCall /\ call' # NoCall /\ call'.op = call.op /\ call'.as = call.as /\ call'.reply = reply
    BY <1>2, <2>1 DEF ServeCall, Types, Results
  <2> QED
    BY <2>2, <2>4, <2>5, OpsAssumption DEF PassInv, SyncingIsBeingSent, Types
<1>3. ASSUME OnSynced PROVE SyncingIsBeingSent'
  BY <1>3 DEF OnSynced, Answered, Written, PassInv, SyncingIsBeingSent, Types
<1>4. ASSUME OnConflict PROVE SyncingIsBeingSent'
  BY <1>4 DEF OnConflict, Answered, Written, PassInv, SyncingIsBeingSent, Types
<1>5. ASSUME OnDenied PROVE SyncingIsBeingSent'
  BY <1>5 DEF OnDenied, Answered, Written, PassInv, SyncingIsBeingSent, Types
<1>6. ASSUME OnExpiredResend PROVE SyncingIsBeingSent'
  BY <1>6 DEF OnExpiredResend, Answered, PassInv, SyncingIsBeingSent, Types
<1>7. ASSUME OnExpired PROVE SyncingIsBeingSent'
  BY <1>7 DEF OnExpired, Answered, Written, PassInv, SyncingIsBeingSent, Types
<1>8. ASSUME OnRefused PROVE SyncingIsBeingSent'
  BY <1>8 DEF OnRefused, Answered, Written, PassInv, SyncingIsBeingSent, Types
<1>9. ASSUME OnTrouble PROVE SyncingIsBeingSent'
  BY <1>9 DEF OnTrouble, Answered, Failing, Written, PassInv, SyncingIsBeingSent, Types
<1>10. ASSUME EndPass PROVE SyncingIsBeingSent'
  BY <1>10 DEF EndPass, PassInv, SyncingIsBeingSent, Types
<1>11. ASSUME NEW b \in SUBSET Ops, StartPass(b) PROVE SyncingIsBeingSent'
  BY <1>11 DEF StartPass, Adopted, Mine, PassInv, SyncingIsBeingSent, Types
<1>12. ASSUME NEW o \in Ops, enqueueOperation(o) PROVE SyncingIsBeingSent'
  BY <1>12 DEF enqueueOperation, Upcoming, Queued, PassInv, SyncingIsBeingSent, Types
<1>13. ASSUME NEW o \in Ops, deliverInline(o) PROVE SyncingIsBeingSent'
  BY <1>13 DEF deliverInline, Upcoming, PassInv, SyncingIsBeingSent, Types
<1>14. ASSUME NEW o \in Ops, retryOperation(o) PROVE SyncingIsBeingSent'
  BY <1>14 DEF retryOperation, Written, PassInv, SyncingIsBeingSent, Types
<1>15. ASSUME NEW o \in Ops, discardOperation(o) PROVE SyncingIsBeingSent'
  BY <1>15 DEF discardOperation, Written, PassInv, SyncingIsBeingSent, Types
<1>16. ASSUME NEW o \in Ops, Prune(o) PROVE SyncingIsBeingSent'
  BY <1>16 DEF Prune, Written, PassInv, SyncingIsBeingSent, Types
<1>17. ASSUME NEW o \in Ops, NEW key \in Keys, KeyExpires(o, key) PROVE SyncingIsBeingSent'
  BY <1>17 DEF KeyExpires, PassInv, SyncingIsBeingSent, Types
<1>18. ASSUME NEW r \in late, ServeLate(r, Serve) PROVE SyncingIsBeingSent'
  <2>1. PICK reply \in Results : Serve(r.op, r.key, r.as, reply)
      BY <1>18 DEF ServeLate
  <2>2. r.op \in Ops /\ r.key \in Keys
      BY <1>18 DEF ServeLate, Types
  <2>4. UNCHANGED <<user, queueVars, passVars, screen, interrupted, switched>>
    BY <1>18 DEF ServeLate
  <2>5. late' \subseteq late
    BY <1>18 DEF ServeLate
  <2> QED
    BY <2>2, <2>4, <2>5, OpsAssumption DEF PassInv, SyncingIsBeingSent, Types
<1>19. ASSUME NEW r \in late, InlineAnswer(r, Serve) PROVE SyncingIsBeingSent'
  <2>1. PICK reply \in Results :
          /\ Serve(r.op, "screen", r.as, reply)
          /\ status' = [status EXCEPT ![r.op] = IF reply = "ok" THEN "inline" ELSE status[r.op]]
      BY <1>19 DEF InlineAnswer
  <2>2. r.op \in Ops /\ "screen" \in Keys
      BY <1>19 DEF InlineAnswer, Types
  <2>4. UNCHANGED <<user, owner, retries, passVars, interrupted, switched>> /\ screen = r.op /\ screen' = NoOp
    BY <1>19 DEF InlineAnswer
  <2>5. late' \subseteq late /\ (status' = status \/ (reply = "ok" /\ status' = [status EXCEPT ![r.op] = "inline"]))
    BY <1>19, <2>1 DEF InlineAnswer, Types
  <2> QED
    BY <2>2, <2>4, <2>5, OpsAssumption DEF PassInv, SyncingIsBeingSent, Types
<1>20. ASSUME NEW u \in Users, SignIn(u) PROVE SyncingIsBeingSent'
  BY <1>20 DEF SignIn, PassInv, SyncingIsBeingSent, Types
<1>21. ASSUME NEW yes \in BOOLEAN, AllowPhone(yes) PROVE SyncingIsBeingSent'
  BY <1>21 DEF AllowPhone, PassInv, SyncingIsBeingSent, Types
<1>22. ASSUME ServeCall(ServeBadly) PROVE SyncingIsBeingSent'
  <2>1. PICK reply \in Results :
          /\ ServeBadly(call.op, "queue", call.as, reply)
          /\ call' = [call EXCEPT !.reply = reply]
      BY <1>22 DEF ServeCall
  <2>2. call.op \in Ops /\ "queue" \in Keys
      BY <1>22 DEF ServeCall, Types
  <2>4. UNCHANGED <<user, queueVars, running, todo, screen, late, interrupted, switched>>
    BY <1>22 DEF ServeCall
  <2>5. call # NoCall /\ call' # NoCall /\ call'.op = call.op /\ call'.as = call.as /\ call'.reply = reply
    BY <1>22, <2>1 DEF ServeCall, Types, Results
  <2> QED
    BY <2>2, <2>4, <2>5, OpsAssumption DEF PassInv, SyncingIsBeingSent, Types
<1>23. ASSUME TimeOut PROVE SyncingIsBeingSent'
  BY <1>23 DEF TimeOut, Failing, Written, LateAfterCall, PassInv, SyncingIsBeingSent, Types
<1>24. ASSUME RefreshUnreachable PROVE SyncingIsBeingSent'
  BY <1>24 DEF RefreshUnreachable, Written, PassInv, SyncingIsBeingSent, Types
<1>25. ASSUME Kill PROVE SyncingIsBeingSent'
  BY <1>25 DEF Kill, LateAfterCall, PassInv, SyncingIsBeingSent, Types
<1>26. ASSUME NEW o \in Ops, InlineDropped(o) PROVE SyncingIsBeingSent'
  BY <1>26 DEF InlineDropped, Queued, PassInv, SyncingIsBeingSent, Types
<1>27. ASSUME NEW r \in late, ServeLate(r, ServeBadly) PROVE SyncingIsBeingSent'
  <2>1. PICK reply \in Results : ServeBadly(r.op, r.key, r.as, reply)
      BY <1>27 DEF ServeLate
  <2>2. r.op \in Ops /\ r.key \in Keys
      BY <1>27 DEF ServeLate, Types
  <2>4. UNCHANGED <<user, queueVars, passVars, screen, interrupted, switched>>
    BY <1>27 DEF ServeLate
  <2>5. late' \subseteq late
    BY <1>27 DEF ServeLate
  <2> QED
    BY <2>2, <2>4, <2>5, OpsAssumption DEF PassInv, SyncingIsBeingSent, Types
<1>28. ASSUME NEW r \in late, InlineAnswer(r, ServeBadly) PROVE SyncingIsBeingSent'
  <2>1. PICK reply \in Results :
          /\ ServeBadly(r.op, "screen", r.as, reply)
          /\ status' = [status EXCEPT ![r.op] = IF reply = "ok" THEN "inline" ELSE status[r.op]]
      BY <1>28 DEF InlineAnswer
  <2>2. r.op \in Ops /\ "screen" \in Keys
      BY <1>28 DEF InlineAnswer, Types
  <2>4. UNCHANGED <<user, owner, retries, passVars, interrupted, switched>> /\ screen = r.op /\ screen' = NoOp
    BY <1>28 DEF InlineAnswer
  <2>5. late' \subseteq late /\ (status' = status \/ (reply = "ok" /\ status' = [status EXCEPT ![r.op] = "inline"]))
    BY <1>28, <2>1 DEF InlineAnswer, Types
  <2> QED
    BY <2>2, <2>4, <2>5, OpsAssumption DEF PassInv, SyncingIsBeingSent, Types
<1>29. ASSUME SignOut PROVE SyncingIsBeingSent'
  BY <1>29 DEF SignOut, PassInv, SyncingIsBeingSent, Types
<1>30. ASSUME NEW u \in Users, EndSession(u) PROVE SyncingIsBeingSent'
  BY <1>30 DEF EndSession, PassInv, SyncingIsBeingSent, Types
<1>31. ASSUME NEW a \in {OrderOf[o] : o \in Ops}, OfficeMoves(a) \/ OfficeCloses(a) PROVE SyncingIsBeingSent'
  BY <1>31 DEF OfficeMoves, OfficeCloses, PassInv, SyncingIsBeingSent, Types
<1>32. CASE UNCHANGED vars
  BY <1>32 DEF vars, PassInv, SyncingIsBeingSent, Types
<1> QED
  BY <1>1, <1>2, <1>3, <1>4, <1>5, <1>6, <1>7, <1>8, <1>9, <1>10, <1>11, <1>12, <1>13, <1>14,
     <1>15, <1>16, <1>17, <1>18, <1>19, <1>20, <1>21, <1>22, <1>23, <1>24, <1>25, <1>26, <1>27,
     <1>28, <1>29, <1>30, <1>31, <1>32
  DEF Next, Usual, Fault, Phone

\* What a pass still has to send, and what it is sending, belongs to the user who
\* is signed in.
OwnInv ==
    running /\ ~switched =>
        /\ \A o \in todo : owner[o] = user
        /\ call # NoCall => call.as = user /\ owner[call.op] = user

\* A pass stays with its user.
LEMMA OwnStep ==
    ASSUME Types, PassInv, OwnInv, [Next]_vars
    PROVE  OwnInv'
<1> USE NoCallAssumption DEF queueVars, passVars, keyVars, worldVars, ghosts, Statuses, Active,
      Issues, Pending, Requests, Keys
<1>1. ASSUME NEW o \in Ops, Send(o) PROVE OwnInv'
  BY <1>1 DEF Send, PassInv, OwnInv, Types
<1>2. ASSUME ServeCall(Serve) PROVE OwnInv'
  <2>1. PICK reply \in Results :
          /\ Serve(call.op, "queue", call.as, reply)
          /\ call' = [call EXCEPT !.reply = reply]
      BY <1>2 DEF ServeCall
  <2>2. call.op \in Ops /\ "queue" \in Keys
      BY <1>2 DEF ServeCall, Types
  <2>4. UNCHANGED <<user, queueVars, running, todo, screen, late, interrupted, switched>>
    BY <1>2 DEF ServeCall
  <2>5. call # NoCall /\ call' # NoCall /\ call'.op = call.op /\ call'.as = call.as /\ call'.reply = reply
    BY <1>2, <2>1 DEF ServeCall, Types, Results
  <2> QED
    BY <2>2, <2>4, <2>5, OpsAssumption DEF PassInv, OwnInv, Types
<1>3. ASSUME OnSynced PROVE OwnInv'
  BY <1>3 DEF OnSynced, Answered, Written, PassInv, OwnInv, Types
<1>4. ASSUME OnConflict PROVE OwnInv'
  BY <1>4 DEF OnConflict, Answered, Written, PassInv, OwnInv, Types
<1>5. ASSUME OnDenied PROVE OwnInv'
  BY <1>5 DEF OnDenied, Answered, Written, PassInv, OwnInv, Types
<1>6. ASSUME OnExpiredResend PROVE OwnInv'
  BY <1>6 DEF OnExpiredResend, Answered, PassInv, OwnInv, Types
<1>7. ASSUME OnExpired PROVE OwnInv'
  BY <1>7 DEF OnExpired, Answered, Written, PassInv, OwnInv, Types
<1>8. ASSUME OnRefused PROVE OwnInv'
  BY <1>8 DEF OnRefused, Answered, Written, PassInv, OwnInv, Types
<1>9. ASSUME OnTrouble PROVE OwnInv'
  BY <1>9 DEF OnTrouble, Answered, Failing, Written, PassInv, OwnInv, Types
<1>10. ASSUME EndPass PROVE OwnInv'
  BY <1>10 DEF EndPass, PassInv, OwnInv, Types
<1>11. ASSUME NEW b \in SUBSET Ops, StartPass(b) PROVE OwnInv'
  BY <1>11 DEF StartPass, Adopted, Mine, PassInv, OwnInv, Types
<1>12. ASSUME NEW o \in Ops, enqueueOperation(o) PROVE OwnInv'
  BY <1>12 DEF enqueueOperation, Upcoming, Queued, PassInv, OwnInv, Types
<1>13. ASSUME NEW o \in Ops, deliverInline(o) PROVE OwnInv'
  BY <1>13 DEF deliverInline, Upcoming, PassInv, OwnInv, Types
<1>14. ASSUME NEW o \in Ops, retryOperation(o) PROVE OwnInv'
  BY <1>14 DEF retryOperation, Written, PassInv, OwnInv, Types
<1>15. ASSUME NEW o \in Ops, discardOperation(o) PROVE OwnInv'
  BY <1>15 DEF discardOperation, Written, PassInv, OwnInv, Types
<1>16. ASSUME NEW o \in Ops, Prune(o) PROVE OwnInv'
  BY <1>16 DEF Prune, Written, PassInv, OwnInv, Types
<1>17. ASSUME NEW o \in Ops, NEW key \in Keys, KeyExpires(o, key) PROVE OwnInv'
  BY <1>17 DEF KeyExpires, PassInv, OwnInv, Types
<1>18. ASSUME NEW r \in late, ServeLate(r, Serve) PROVE OwnInv'
  <2>1. PICK reply \in Results : Serve(r.op, r.key, r.as, reply)
      BY <1>18 DEF ServeLate
  <2>2. r.op \in Ops /\ r.key \in Keys
      BY <1>18 DEF ServeLate, Types
  <2>4. UNCHANGED <<user, queueVars, passVars, screen, interrupted, switched>>
    BY <1>18 DEF ServeLate
  <2>5. late' \subseteq late
    BY <1>18 DEF ServeLate
  <2> QED
    BY <2>2, <2>4, <2>5, OpsAssumption DEF PassInv, OwnInv, Types
<1>19. ASSUME NEW r \in late, InlineAnswer(r, Serve) PROVE OwnInv'
  <2>1. PICK reply \in Results :
          /\ Serve(r.op, "screen", r.as, reply)
          /\ status' = [status EXCEPT ![r.op] = IF reply = "ok" THEN "inline" ELSE status[r.op]]
      BY <1>19 DEF InlineAnswer
  <2>2. r.op \in Ops /\ "screen" \in Keys
      BY <1>19 DEF InlineAnswer, Types
  <2>4. UNCHANGED <<user, owner, retries, passVars, interrupted, switched>> /\ screen = r.op /\ screen' = NoOp
    BY <1>19 DEF InlineAnswer
  <2>5. late' \subseteq late /\ (status' = status \/ (reply = "ok" /\ status' = [status EXCEPT ![r.op] = "inline"]))
    BY <1>19, <2>1 DEF InlineAnswer, Types
  <2> QED
    BY <2>2, <2>4, <2>5, OpsAssumption DEF PassInv, OwnInv, Types
<1>20. ASSUME NEW u \in Users, SignIn(u) PROVE OwnInv'
  BY <1>20 DEF SignIn, PassInv, OwnInv, Types
<1>21. ASSUME NEW yes \in BOOLEAN, AllowPhone(yes) PROVE OwnInv'
  BY <1>21 DEF AllowPhone, PassInv, OwnInv, Types
<1>22. ASSUME ServeCall(ServeBadly) PROVE OwnInv'
  <2>1. PICK reply \in Results :
          /\ ServeBadly(call.op, "queue", call.as, reply)
          /\ call' = [call EXCEPT !.reply = reply]
      BY <1>22 DEF ServeCall
  <2>2. call.op \in Ops /\ "queue" \in Keys
      BY <1>22 DEF ServeCall, Types
  <2>4. UNCHANGED <<user, queueVars, running, todo, screen, late, interrupted, switched>>
    BY <1>22 DEF ServeCall
  <2>5. call # NoCall /\ call' # NoCall /\ call'.op = call.op /\ call'.as = call.as /\ call'.reply = reply
    BY <1>22, <2>1 DEF ServeCall, Types, Results
  <2> QED
    BY <2>2, <2>4, <2>5, OpsAssumption DEF PassInv, OwnInv, Types
<1>23. ASSUME TimeOut PROVE OwnInv'
  BY <1>23 DEF TimeOut, Failing, Written, LateAfterCall, PassInv, OwnInv, Types
<1>24. ASSUME RefreshUnreachable PROVE OwnInv'
  BY <1>24 DEF RefreshUnreachable, Written, PassInv, OwnInv, Types
<1>25. ASSUME Kill PROVE OwnInv'
  BY <1>25 DEF Kill, LateAfterCall, PassInv, OwnInv, Types
<1>26. ASSUME NEW o \in Ops, InlineDropped(o) PROVE OwnInv'
  BY <1>26 DEF InlineDropped, Queued, PassInv, OwnInv, Types
<1>27. ASSUME NEW r \in late, ServeLate(r, ServeBadly) PROVE OwnInv'
  <2>1. PICK reply \in Results : ServeBadly(r.op, r.key, r.as, reply)
      BY <1>27 DEF ServeLate
  <2>2. r.op \in Ops /\ r.key \in Keys
      BY <1>27 DEF ServeLate, Types
  <2>4. UNCHANGED <<user, queueVars, passVars, screen, interrupted, switched>>
    BY <1>27 DEF ServeLate
  <2>5. late' \subseteq late
    BY <1>27 DEF ServeLate
  <2> QED
    BY <2>2, <2>4, <2>5, OpsAssumption DEF PassInv, OwnInv, Types
<1>28. ASSUME NEW r \in late, InlineAnswer(r, ServeBadly) PROVE OwnInv'
  <2>1. PICK reply \in Results :
          /\ ServeBadly(r.op, "screen", r.as, reply)
          /\ status' = [status EXCEPT ![r.op] = IF reply = "ok" THEN "inline" ELSE status[r.op]]
      BY <1>28 DEF InlineAnswer
  <2>2. r.op \in Ops /\ "screen" \in Keys
      BY <1>28 DEF InlineAnswer, Types
  <2>4. UNCHANGED <<user, owner, retries, passVars, interrupted, switched>> /\ screen = r.op /\ screen' = NoOp
    BY <1>28 DEF InlineAnswer
  <2>5. late' \subseteq late /\ (status' = status \/ (reply = "ok" /\ status' = [status EXCEPT ![r.op] = "inline"]))
    BY <1>28, <2>1 DEF InlineAnswer, Types
  <2> QED
    BY <2>2, <2>4, <2>5, OpsAssumption DEF PassInv, OwnInv, Types
<1>29. ASSUME SignOut PROVE OwnInv'
  BY <1>29 DEF SignOut, PassInv, OwnInv, Types
<1>30. ASSUME NEW u \in Users, EndSession(u) PROVE OwnInv'
  BY <1>30 DEF EndSession, PassInv, OwnInv, Types
<1>31. ASSUME NEW a \in {OrderOf[o] : o \in Ops}, OfficeMoves(a) \/ OfficeCloses(a) PROVE OwnInv'
  BY <1>31 DEF OfficeMoves, OfficeCloses, PassInv, OwnInv, Types
<1>32. CASE UNCHANGED vars
  BY <1>32 DEF vars, PassInv, OwnInv, Types
<1> QED
  BY <1>1, <1>2, <1>3, <1>4, <1>5, <1>6, <1>7, <1>8, <1>9, <1>10, <1>11, <1>12, <1>13, <1>14,
     <1>15, <1>16, <1>17, <1>18, <1>19, <1>20, <1>21, <1>22, <1>23, <1>24, <1>25, <1>26, <1>27,
     <1>28, <1>29, <1>30, <1>31, <1>32
  DEF Next, Usual, Fault, Phone

\* An answer "ok" is to what was done.
DoneInv ==
    /\ StoredIsDone
    /\ SyncedIsDone
    /\ call # NoCall /\ call.reply = "ok" => applied[call.op] > 0

\* What is reported as done stays done.
LEMMA DoneStep ==
    ASSUME Types, PassInv, DoneInv, [Next]_vars
    PROVE  DoneInv'
<1> USE DEF queueVars, passVars, keyVars, worldVars, ghosts, Statuses, Active, Issues, Pending,
      Requests, Keys
<1>1. ASSUME NEW o \in Ops, Send(o) PROVE DoneInv'
  BY <1>1 DEF Send, DoneInv, PassInv, SyncedIsDone, StoredIsDone, Types
<1>2. ASSUME ServeCall(Serve) PROVE DoneInv'
  <2>1. PICK reply \in Results :
          /\ Serve(call.op, "queue", call.as, reply)
          /\ call' = [call EXCEPT !.reply = reply]
      BY <1>2 DEF ServeCall
  <2>2. call.op \in Ops /\ "queue" \in Keys
      BY <1>2 DEF ServeCall, Types
  <2>3. /\ applied' \in [Ops -> Nat]
        /\ \A p \in Ops : applied'[p] >= applied[p]
        /\ StoredIsDone => StoredIsDone'
        /\ StoredIsDone /\ reply = "ok" => applied'[call.op] > 0
      BY <2>1, <2>2, ServeEffect
  <2>4. UNCHANGED <<user, queueVars, running, todo, screen, late, interrupted, switched>>
    BY <1>2 DEF ServeCall
  <2>5. call # NoCall /\ call' # NoCall /\ call'.op = call.op /\ call'.as = call.as /\ call'.reply = reply
    BY <1>2, <2>1, NoCallAssumption DEF ServeCall, Types, Results
  <2>6. StoredIsDone'
    BY <2>3 DEF DoneInv
  <2>7. SyncedIsDone'
    BY <2>2, <2>3, <2>4, <2>5 DEF DoneInv, SyncedIsDone, Types
  <2> QED
    BY <2>2, <2>3, <2>4, <2>5, <2>6, <2>7 DEF DoneInv, Types
<1>3. ASSUME OnSynced PROVE DoneInv'
  BY <1>3 DEF OnSynced, Answered, Written, DoneInv, PassInv, SyncedIsDone, StoredIsDone, Types
<1>4. ASSUME OnConflict PROVE DoneInv'
  BY <1>4 DEF OnConflict, Answered, Written, DoneInv, PassInv, SyncedIsDone, StoredIsDone, Types
<1>5. ASSUME OnDenied PROVE DoneInv'
  BY <1>5 DEF OnDenied, Answered, Written, DoneInv, PassInv, SyncedIsDone, StoredIsDone, Types
<1>6. ASSUME OnExpiredResend PROVE DoneInv'
  BY <1>6 DEF OnExpiredResend, Answered, DoneInv, PassInv, SyncedIsDone, StoredIsDone, Types
<1>7. ASSUME OnExpired PROVE DoneInv'
  BY <1>7 DEF OnExpired, Answered, Written, DoneInv, PassInv, SyncedIsDone, StoredIsDone, Types
<1>8. ASSUME OnRefused PROVE DoneInv'
  BY <1>8 DEF OnRefused, Answered, Written, DoneInv, PassInv, SyncedIsDone, StoredIsDone, Types
<1>9. ASSUME OnTrouble PROVE DoneInv'
  BY <1>9 DEF OnTrouble, Answered, Failing, Written, DoneInv, PassInv, SyncedIsDone,
     StoredIsDone, Types
<1>10. ASSUME EndPass PROVE DoneInv'
  BY <1>10 DEF EndPass, DoneInv, PassInv, SyncedIsDone, StoredIsDone, Types
<1>11. ASSUME NEW b \in SUBSET Ops, StartPass(b) PROVE DoneInv'
  BY <1>11 DEF StartPass, Adopted, Mine, DoneInv, PassInv, SyncedIsDone, StoredIsDone, Types
<1>12. ASSUME NEW o \in Ops, enqueueOperation(o) PROVE DoneInv'
  BY <1>12 DEF enqueueOperation, Upcoming, Queued, DoneInv, PassInv, SyncedIsDone, StoredIsDone,
     Types
<1>13. ASSUME NEW o \in Ops, deliverInline(o) PROVE DoneInv'
  BY <1>13 DEF deliverInline, Upcoming, DoneInv, PassInv, SyncedIsDone, StoredIsDone, Types
<1>14. ASSUME NEW o \in Ops, retryOperation(o) PROVE DoneInv'
  BY <1>14 DEF retryOperation, Written, DoneInv, PassInv, SyncedIsDone, StoredIsDone, Types
<1>15. ASSUME NEW o \in Ops, discardOperation(o) PROVE DoneInv'
  BY <1>15 DEF discardOperation, Written, DoneInv, PassInv, SyncedIsDone, StoredIsDone, Types
<1>16. ASSUME NEW o \in Ops, Prune(o) PROVE DoneInv'
  BY <1>16 DEF Prune, Written, DoneInv, PassInv, SyncedIsDone, StoredIsDone, Types
<1>17. ASSUME NEW o \in Ops, NEW key \in Keys, KeyExpires(o, key) PROVE DoneInv'
  BY <1>17 DEF KeyExpires, DoneInv, PassInv, SyncedIsDone, StoredIsDone, Types
<1>18. ASSUME NEW r \in late, ServeLate(r, Serve) PROVE DoneInv'
  <2>1. PICK reply \in Results : Serve(r.op, r.key, r.as, reply)
      BY <1>18 DEF ServeLate
  <2>2. r.op \in Ops /\ r.key \in Keys
      BY <1>18 DEF ServeLate, Types
  <2>3. /\ applied' \in [Ops -> Nat]
        /\ \A p \in Ops : applied'[p] >= applied[p]
        /\ StoredIsDone => StoredIsDone'
        /\ StoredIsDone /\ reply = "ok" => applied'[r.op] > 0
      BY <2>1, <2>2, ServeEffect
  <2>4. UNCHANGED <<user, queueVars, passVars, screen, interrupted, switched>>
    BY <1>18 DEF ServeLate
  <2>5. late' \subseteq late
    BY <1>18 DEF ServeLate
  <2>6. StoredIsDone'
    BY <2>3 DEF DoneInv
  <2>7. SyncedIsDone'
    BY <2>2, <2>3, <2>4, <2>5 DEF DoneInv, SyncedIsDone, Types
  <2> QED
    BY <2>2, <2>3, <2>4, <2>5, <2>6, <2>7 DEF DoneInv, Types
<1>19. ASSUME NEW r \in late, InlineAnswer(r, Serve) PROVE DoneInv'
  <2>1. PICK reply \in Results :
          /\ Serve(r.op, "screen", r.as, reply)
          /\ status' = [status EXCEPT ![r.op] = IF reply = "ok" THEN "inline" ELSE status[r.op]]
      BY <1>19 DEF InlineAnswer
  <2>2. r.op \in Ops /\ "screen" \in Keys
      BY <1>19 DEF InlineAnswer, Types
  <2>3. /\ applied' \in [Ops -> Nat]
        /\ \A p \in Ops : applied'[p] >= applied[p]
        /\ StoredIsDone => StoredIsDone'
        /\ StoredIsDone /\ reply = "ok" => applied'[r.op] > 0
      BY <2>1, <2>2, ServeEffect
  <2>4. UNCHANGED <<user, owner, retries, passVars, interrupted, switched>> /\ screen = r.op /\ screen' = NoOp
    BY <1>19 DEF InlineAnswer
  <2>5. late' \subseteq late /\ (status' = status \/ (reply = "ok" /\ status' = [status EXCEPT ![r.op] = "inline"]))
    BY <1>19, <2>1 DEF InlineAnswer, Types
  <2>6. StoredIsDone'
    BY <2>3 DEF DoneInv
  <2>7. SyncedIsDone'
    BY <2>2, <2>3, <2>4, <2>5 DEF DoneInv, SyncedIsDone, Types
  <2> QED
    BY <2>2, <2>3, <2>4, <2>5, <2>6, <2>7 DEF DoneInv, Types
<1>20. ASSUME NEW u \in Users, SignIn(u) PROVE DoneInv'
  BY <1>20 DEF SignIn, DoneInv, PassInv, SyncedIsDone, StoredIsDone, Types
<1>21. ASSUME NEW yes \in BOOLEAN, AllowPhone(yes) PROVE DoneInv'
  BY <1>21 DEF AllowPhone, DoneInv, PassInv, SyncedIsDone, StoredIsDone, Types
<1>22. ASSUME ServeCall(ServeBadly) PROVE DoneInv'
  <2>1. PICK reply \in Results :
          /\ ServeBadly(call.op, "queue", call.as, reply)
          /\ call' = [call EXCEPT !.reply = reply]
      BY <1>22 DEF ServeCall
  <2>2. call.op \in Ops /\ "queue" \in Keys
      BY <1>22 DEF ServeCall, Types
  <2>3. /\ applied' \in [Ops -> Nat]
        /\ \A p \in Ops : applied'[p] >= applied[p]
        /\ StoredIsDone => StoredIsDone'
        /\ StoredIsDone /\ reply = "ok" => applied'[call.op] > 0
      BY <2>1, <2>2, ServeEffect
  <2>4. UNCHANGED <<user, queueVars, running, todo, screen, late, interrupted, switched>>
    BY <1>22 DEF ServeCall
  <2>5. call # NoCall /\ call' # NoCall /\ call'.op = call.op /\ call'.as = call.as /\ call'.reply = reply
    BY <1>22, <2>1, NoCallAssumption DEF ServeCall, Types, Results
  <2>6. StoredIsDone'
    BY <2>3 DEF DoneInv
  <2>7. SyncedIsDone'
    BY <2>2, <2>3, <2>4, <2>5 DEF DoneInv, SyncedIsDone, Types
  <2> QED
    BY <2>2, <2>3, <2>4, <2>5, <2>6, <2>7 DEF DoneInv, Types
<1>23. ASSUME TimeOut PROVE DoneInv'
  BY <1>23 DEF TimeOut, Failing, Written, LateAfterCall, DoneInv, PassInv, SyncedIsDone,
     StoredIsDone, Types
<1>24. ASSUME RefreshUnreachable PROVE DoneInv'
  BY <1>24 DEF RefreshUnreachable, Written, DoneInv, PassInv, SyncedIsDone, StoredIsDone, Types
<1>25. ASSUME Kill PROVE DoneInv'
  BY <1>25 DEF Kill, LateAfterCall, DoneInv, PassInv, SyncedIsDone, StoredIsDone, Types
<1>26. ASSUME NEW o \in Ops, InlineDropped(o) PROVE DoneInv'
  BY <1>26 DEF InlineDropped, Queued, DoneInv, PassInv, SyncedIsDone, StoredIsDone, Types
<1>27. ASSUME NEW r \in late, ServeLate(r, ServeBadly) PROVE DoneInv'
  <2>1. PICK reply \in Results : ServeBadly(r.op, r.key, r.as, reply)
      BY <1>27 DEF ServeLate
  <2>2. r.op \in Ops /\ r.key \in Keys
      BY <1>27 DEF ServeLate, Types
  <2>3. /\ applied' \in [Ops -> Nat]
        /\ \A p \in Ops : applied'[p] >= applied[p]
        /\ StoredIsDone => StoredIsDone'
        /\ StoredIsDone /\ reply = "ok" => applied'[r.op] > 0
      BY <2>1, <2>2, ServeEffect
  <2>4. UNCHANGED <<user, queueVars, passVars, screen, interrupted, switched>>
    BY <1>27 DEF ServeLate
  <2>5. late' \subseteq late
    BY <1>27 DEF ServeLate
  <2>6. StoredIsDone'
    BY <2>3 DEF DoneInv
  <2>7. SyncedIsDone'
    BY <2>2, <2>3, <2>4, <2>5 DEF DoneInv, SyncedIsDone, Types
  <2> QED
    BY <2>2, <2>3, <2>4, <2>5, <2>6, <2>7 DEF DoneInv, Types
<1>28. ASSUME NEW r \in late, InlineAnswer(r, ServeBadly) PROVE DoneInv'
  <2>1. PICK reply \in Results :
          /\ ServeBadly(r.op, "screen", r.as, reply)
          /\ status' = [status EXCEPT ![r.op] = IF reply = "ok" THEN "inline" ELSE status[r.op]]
      BY <1>28 DEF InlineAnswer
  <2>2. r.op \in Ops /\ "screen" \in Keys
      BY <1>28 DEF InlineAnswer, Types
  <2>3. /\ applied' \in [Ops -> Nat]
        /\ \A p \in Ops : applied'[p] >= applied[p]
        /\ StoredIsDone => StoredIsDone'
        /\ StoredIsDone /\ reply = "ok" => applied'[r.op] > 0
      BY <2>1, <2>2, ServeEffect
  <2>4. UNCHANGED <<user, owner, retries, passVars, interrupted, switched>> /\ screen = r.op /\ screen' = NoOp
    BY <1>28 DEF InlineAnswer
  <2>5. late' \subseteq late /\ (status' = status \/ (reply = "ok" /\ status' = [status EXCEPT ![r.op] = "inline"]))
    BY <1>28, <2>1 DEF InlineAnswer, Types
  <2>6. StoredIsDone'
    BY <2>3 DEF DoneInv
  <2>7. SyncedIsDone'
    BY <2>2, <2>3, <2>4, <2>5 DEF DoneInv, SyncedIsDone, Types
  <2> QED
    BY <2>2, <2>3, <2>4, <2>5, <2>6, <2>7 DEF DoneInv, Types
<1>29. ASSUME SignOut PROVE DoneInv'
  BY <1>29 DEF SignOut, DoneInv, PassInv, SyncedIsDone, StoredIsDone, Types
<1>30. ASSUME NEW u \in Users, EndSession(u) PROVE DoneInv'
  BY <1>30 DEF EndSession, DoneInv, PassInv, SyncedIsDone, StoredIsDone, Types
<1>31. ASSUME NEW a \in {OrderOf[o] : o \in Ops}, OfficeMoves(a) \/ OfficeCloses(a) PROVE DoneInv'
  BY <1>31 DEF OfficeMoves, OfficeCloses, DoneInv, PassInv, SyncedIsDone, StoredIsDone, Types
<1>32. CASE UNCHANGED vars
  BY <1>32 DEF vars, DoneInv, PassInv, SyncedIsDone, StoredIsDone, Types
<1> QED
  BY <1>1, <1>2, <1>3, <1>4, <1>5, <1>6, <1>7, <1>8, <1>9, <1>10, <1>11, <1>12, <1>13, <1>14,
     <1>15, <1>16, <1>17, <1>18, <1>19, <1>20, <1>21, <1>22, <1>23, <1>24, <1>25, <1>26, <1>27,
     <1>28, <1>29, <1>30, <1>31, <1>32
  DEF Next, Usual, Fault, Phone

\* Only a delivery has two keys.
CountInv ==
    /\ Tally
    /\ \A r \in late : r.key = "queue" \/ Kind[r.op] = "deliver"

\* The tally is kept.
LEMMA CountStep ==
    ASSUME Types, CountInv, [Next]_vars
    PROVE  CountInv'
<1> USE DEF queueVars, passVars, keyVars, worldVars, ghosts, Statuses, Active, Issues, Pending,
      Requests, Keys
<1>1. ASSUME NEW o \in Ops, Send(o) PROVE CountInv'
  BY <1>1 DEF Send, CountInv, Tally, Types
<1>2. ASSUME ServeCall(Serve) PROVE CountInv'
  <2>1. PICK reply \in Results :
          /\ Serve(call.op, "queue", call.as, reply)
          /\ call' = [call EXCEPT !.reply = reply]
      BY <1>2 DEF ServeCall
  <2>2. call.op \in Ops /\ "queue" \in Keys
      BY <1>2 DEF ServeCall, Types
  <2>3. Tally /\ ("queue" = "queue" \/ Kind[call.op] = "deliver") => Tally'
      BY <2>1, <2>2, ServeEffect
  <2> QED
      BY <1>2, <2>1, <2>2, <2>3 DEF ServeCall, CountInv, Tally, Types
<1>3. ASSUME OnSynced PROVE CountInv'
  BY <1>3 DEF OnSynced, Answered, Written, CountInv, Tally, Types
<1>4. ASSUME OnConflict PROVE CountInv'
  BY <1>4 DEF OnConflict, Answered, Written, CountInv, Tally, Types
<1>5. ASSUME OnDenied PROVE CountInv'
  BY <1>5 DEF OnDenied, Answered, Written, CountInv, Tally, Types
<1>6. ASSUME OnExpiredResend PROVE CountInv'
  BY <1>6 DEF OnExpiredResend, Answered, CountInv, Tally, Types
<1>7. ASSUME OnExpired PROVE CountInv'
  BY <1>7 DEF OnExpired, Answered, Written, CountInv, Tally, Types
<1>8. ASSUME OnRefused PROVE CountInv'
  BY <1>8 DEF OnRefused, Answered, Written, CountInv, Tally, Types
<1>9. ASSUME OnTrouble PROVE CountInv'
  BY <1>9 DEF OnTrouble, Answered, Failing, Written, CountInv, Tally, Types
<1>10. ASSUME EndPass PROVE CountInv'
  BY <1>10 DEF EndPass, CountInv, Tally, Types
<1>11. ASSUME NEW b \in SUBSET Ops, StartPass(b) PROVE CountInv'
  BY <1>11 DEF StartPass, Adopted, Mine, CountInv, Tally, Types
<1>12. ASSUME NEW o \in Ops, enqueueOperation(o) PROVE CountInv'
  BY <1>12 DEF enqueueOperation, Upcoming, Queued, CountInv, Tally, Types
<1>13. ASSUME NEW o \in Ops, deliverInline(o) PROVE CountInv'
  BY <1>13 DEF deliverInline, Upcoming, CountInv, Tally, Types
<1>14. ASSUME NEW o \in Ops, retryOperation(o) PROVE CountInv'
  BY <1>14 DEF retryOperation, Written, CountInv, Tally, Types
<1>15. ASSUME NEW o \in Ops, discardOperation(o) PROVE CountInv'
  BY <1>15 DEF discardOperation, Written, CountInv, Tally, Types
<1>16. ASSUME NEW o \in Ops, Prune(o) PROVE CountInv'
  BY <1>16 DEF Prune, Written, CountInv, Tally, Types
<1>17. ASSUME NEW o \in Ops, NEW key \in Keys, KeyExpires(o, key) PROVE CountInv'
  BY <1>17 DEF KeyExpires, CountInv, Tally, Types
<1>18. ASSUME NEW r \in late, ServeLate(r, Serve) PROVE CountInv'
  <2>1. PICK reply \in Results : Serve(r.op, r.key, r.as, reply)
      BY <1>18 DEF ServeLate
  <2>2. r.op \in Ops /\ r.key \in Keys
      BY <1>18 DEF ServeLate, Types
  <2>3. Tally /\ (r.key = "queue" \/ Kind[r.op] = "deliver") => Tally'
      BY <2>1, <2>2, ServeEffect
  <2> QED
      BY <1>18, <2>1, <2>2, <2>3 DEF ServeLate, CountInv, Tally, Types
<1>19. ASSUME NEW r \in late, InlineAnswer(r, Serve) PROVE CountInv'
  <2>1. PICK reply \in Results :
          /\ Serve(r.op, "screen", r.as, reply)
          /\ status' = [status EXCEPT ![r.op] = IF reply = "ok" THEN "inline" ELSE status[r.op]]
      BY <1>19 DEF InlineAnswer
  <2>2. r.op \in Ops /\ "screen" \in Keys
      BY <1>19 DEF InlineAnswer, Types
  <2>3. Tally /\ ("screen" = "queue" \/ Kind[r.op] = "deliver") => Tally'
      BY <2>1, <2>2, ServeEffect
  <2> QED
      BY <1>19, <2>1, <2>2, <2>3 DEF InlineAnswer, CountInv, Tally, Types
<1>20. ASSUME NEW u \in Users, SignIn(u) PROVE CountInv'
  BY <1>20 DEF SignIn, CountInv, Tally, Types
<1>21. ASSUME NEW yes \in BOOLEAN, AllowPhone(yes) PROVE CountInv'
  BY <1>21 DEF AllowPhone, CountInv, Tally, Types
<1>22. ASSUME ServeCall(ServeBadly) PROVE CountInv'
  <2>1. PICK reply \in Results :
          /\ ServeBadly(call.op, "queue", call.as, reply)
          /\ call' = [call EXCEPT !.reply = reply]
      BY <1>22 DEF ServeCall
  <2>2. call.op \in Ops /\ "queue" \in Keys
      BY <1>22 DEF ServeCall, Types
  <2>3. Tally /\ ("queue" = "queue" \/ Kind[call.op] = "deliver") => Tally'
      BY <2>1, <2>2, ServeEffect
  <2> QED
      BY <1>22, <2>1, <2>2, <2>3 DEF ServeCall, CountInv, Tally, Types
<1>23. ASSUME TimeOut PROVE CountInv'
  BY <1>23 DEF TimeOut, Failing, Written, LateAfterCall, CountInv, Tally, Types
<1>24. ASSUME RefreshUnreachable PROVE CountInv'
  BY <1>24 DEF RefreshUnreachable, Written, CountInv, Tally, Types
<1>25. ASSUME Kill PROVE CountInv'
  BY <1>25 DEF Kill, LateAfterCall, CountInv, Tally, Types
<1>26. ASSUME NEW o \in Ops, InlineDropped(o) PROVE CountInv'
  BY <1>26 DEF InlineDropped, Queued, CountInv, Tally, Types
<1>27. ASSUME NEW r \in late, ServeLate(r, ServeBadly) PROVE CountInv'
  <2>1. PICK reply \in Results : ServeBadly(r.op, r.key, r.as, reply)
      BY <1>27 DEF ServeLate
  <2>2. r.op \in Ops /\ r.key \in Keys
      BY <1>27 DEF ServeLate, Types
  <2>3. Tally /\ (r.key = "queue" \/ Kind[r.op] = "deliver") => Tally'
      BY <2>1, <2>2, ServeEffect
  <2> QED
      BY <1>27, <2>1, <2>2, <2>3 DEF ServeLate, CountInv, Tally, Types
<1>28. ASSUME NEW r \in late, InlineAnswer(r, ServeBadly) PROVE CountInv'
  <2>1. PICK reply \in Results :
          /\ ServeBadly(r.op, "screen", r.as, reply)
          /\ status' = [status EXCEPT ![r.op] = IF reply = "ok" THEN "inline" ELSE status[r.op]]
      BY <1>28 DEF InlineAnswer
  <2>2. r.op \in Ops /\ "screen" \in Keys
      BY <1>28 DEF InlineAnswer, Types
  <2>3. Tally /\ ("screen" = "queue" \/ Kind[r.op] = "deliver") => Tally'
      BY <2>1, <2>2, ServeEffect
  <2> QED
      BY <1>28, <2>1, <2>2, <2>3 DEF InlineAnswer, CountInv, Tally, Types
<1>29. ASSUME SignOut PROVE CountInv'
  BY <1>29 DEF SignOut, CountInv, Tally, Types
<1>30. ASSUME NEW u \in Users, EndSession(u) PROVE CountInv'
  BY <1>30 DEF EndSession, CountInv, Tally, Types
<1>31. ASSUME NEW a \in {OrderOf[o] : o \in Ops}, OfficeMoves(a) \/ OfficeCloses(a) PROVE CountInv'
  BY <1>31 DEF OfficeMoves, OfficeCloses, CountInv, Tally, Types
<1>32. CASE UNCHANGED vars
  BY <1>32 DEF vars, CountInv, Tally, Types
<1> QED
  BY <1>1, <1>2, <1>3, <1>4, <1>5, <1>6, <1>7, <1>8, <1>9, <1>10, <1>11, <1>12, <1>13, <1>14,
     <1>15, <1>16, <1>17, <1>18, <1>19, <1>20, <1>21, <1>22, <1>23, <1>24, <1>25, <1>26, <1>27,
     <1>28, <1>29, <1>30, <1>31, <1>32
  DEF Next, Usual, Fault, Phone

-----------------------------------------------------------------------------
(* The theorems. *)

Inv == Types /\ PassInv /\ SyncingIsBeingSent /\ OwnInv /\ DoneInv /\ CountInv

LEMMA InvInit == Init => Inv
<1> SUFFICES ASSUME Init PROVE Inv
  OBVIOUS
<1>1. Types
  BY BoundsAssumption DEF Init, Types, Statuses, Active, Issues
<1>2. PassInv
  BY BoundsAssumption DEF Init, PassInv
<1>3. SyncingIsBeingSent /\ OwnInv
  BY DEF Init, SyncingIsBeingSent, OwnInv
<1>4. DoneInv
  BY DEF Init, DoneInv, StoredIsDone, SyncedIsDone
<1>5. CountInv
  BY DEF Init, CountInv, Tally, Keys
<1> QED
  BY <1>1, <1>2, <1>3, <1>4, <1>5 DEF Inv

LEMMA InvStep == Inv /\ [Next]_vars => Inv'
  BY TypeStep, PassStep, SyncingStep, OwnStep, DoneStep, CountStep DEF Inv

LEMMA Invariance == Spec => []Inv
  BY InvInit, InvStep, PTL DEF Spec

LEMMA FaultsBounded == Spec => [](faults \in 0..MaxFaults)
<1>1. Init => faults \in 0..MaxFaults
  BY BoundsAssumption DEF Init
<1>2. faults \in 0..MaxFaults /\ [Next]_vars => (faults \in 0..MaxFaults)'
  BY BoundsAssumption DEF Next, vars
<1> QED
  BY <1>1, <1>2, PTL DEF Spec

\* Every variable keeps its type, retries and faults their bounds.
THEOREM TypeCorrect == Spec => []TypeOK
<1>1. Inv /\ faults \in 0..MaxFaults => TypeOK
  BY DEF Inv, PassInv, TypeOK
<1> QED
  BY <1>1, Invariance, FaultsBounded, PTL

\* What the queue shows as sent, the server carried out.
THEOREM SentIsDone == Spec => []SyncedIsDone
<1>1. Inv => SyncedIsDone
  BY DEF Inv, DoneInv
<1> QED
  BY <1>1, Invariance, PTL

\* However often requests are repeated, lost, delayed or overtaken, an operation is
\* carried out once, and again only where the server lost the record of it or let
\* that expire; a delivery never.
THEOREM CarriedOutOnce == Spec => []AppliedOncePerLoss
<1>1. Inv => AppliedOncePerLoss
  BY DEF Inv, CountInv, Tally, Types, AppliedOncePerLoss
<1> QED
  BY <1>1, Invariance, PTL

\* Only an app that is killed leaves an operation behind as "syncing".
THEOREM NothingLeftSyncing == Spec => []SyncingIsBeingSent
<1>1. Inv => SyncingIsBeingSent
  BY DEF Inv
<1> QED
  BY <1>1, Invariance, PTL

\* Without a change of user during the pass, an operation travels under its owner's
\* session.
THEOREM SentByItsOwner == Spec => []OwnSessionUnlessSwitched
<1>1. Inv => OwnSessionUnlessSwitched
  BY DEF Inv, OwnInv, PassInv, OwnSessionUnlessSwitched
<1> QED
  BY <1>1, Invariance, PTL

\* A request of the operation's own user is answered "conflict" or "denied" only if
\* the server rejects it.  What it rejects was no order to place and has no record
\* under its key; a delivery made before was recorded under the other one, and the
\* order is closed.
LEMMA RejectedIsNotDone ==
    ASSUME Types, Tally, NEW o \in Ops, NEW as, NEW reply \in {"conflict", "denied"},
           Theirs(o, as),
           Serve(o, "queue", as, reply) \/ ServeBadly(o, "queue", as, reply)
    PROVE  applied[o] = 0 \/ lost[o] > 0 \/ ClosedOver(o)
<1>1. Reject(o, "queue", as, reply)
  BY DEF Serve, ServeBadly, TurnAway, Replay, Perform, Repeat, FailBeforeCommit, PerformAndLose
<1>2. record[o]["queue"] = "free" /\ Kind[o] # "place"
  BY <1>1 DEF Reject, Refuses
<1>3. applied[o] \in Nat /\ lost[o] \in Nat
  BY DEF Types
<1>4. CASE Kind[o] = "deliver"
  <2>1. applied[o] > 0 => OrderOf[o] \in closed
    BY <1>1, <1>4 DEF Reject, AlreadyDone
  <2>2. applied[o] > 0 => lost[o] > 0 \/ record[o]["screen"] = "stored"
    BY <1>2, <1>4 DEF Tally, Keys
  <2> QED
    BY <1>3, <2>1, <2>2 DEF ClosedOver
<1>5. CASE Kind[o] # "deliver"
  BY <1>2, <1>3, <1>5 DEF Tally
<1> QED
  BY <1>4, <1>5

\* The call gets that answer from the server alone.
LEMMA RefusalStep ==
    ASSUME Inv, [Next]_vars
    PROVE  RefusalsAreOthers
<1> SUFFICES ASSUME call # NoCall, call' # NoCall, call.reply = "out",
                    call'.reply \in {"conflict", "denied"}, Theirs(call.op, call.as)
             PROVE  applied[call.op] = 0 \/ lost[call.op] > 0 \/ ClosedOver(call.op)
  BY DEF RefusalsAreOthers, IsRefused
<1>1. call.op \in Ops /\ call.as \in Users \cup {NoUser}
  BY DEF Inv, Types
<1>2. ASSUME NEW reply \in Results, call' = [call EXCEPT !.reply = reply],
             \/ Serve(call.op, "queue", call.as, reply)
             \/ ServeBadly(call.op, "queue", call.as, reply)
      PROVE  applied[call.op] = 0 \/ lost[call.op] > 0 \/ ClosedOver(call.op)
  <2>1. reply \in {"conflict", "denied"}
    BY <1>2 DEF Inv, Types
  <2> QED
    BY <1>1, <1>2, <2>1, RejectedIsNotDone DEF Inv, CountInv
<1>3. CASE ServeCall(Serve)
  BY <1>2, <1>3 DEF ServeCall
<1>4. CASE ServeCall(ServeBadly)
  BY <1>2, <1>4 DEF ServeCall
<1>5. CASE UNCHANGED call
  BY <1>5
<1>6. ASSUME ~ServeCall(Serve), ~ServeCall(ServeBadly), ~UNCHANGED call
      PROVE  FALSE
  <2>1. ~OnExpiredResend
    BY DEF OnExpiredResend, Answered
  <2>2. ASSUME NEW o \in Ops PROVE ~Send(o)
    BY DEF Send
  <2>3. ~\/ OnSynced \/ OnConflict \/ OnDenied \/ OnExpired \/ OnRefused \/ OnTrouble
         \/ TimeOut \/ RefreshUnreachable \/ Kill
    BY DEF OnSynced, OnConflict, OnDenied, OnExpired, OnRefused, OnTrouble, TimeOut,
           RefreshUnreachable, Kill
  <2>4. ASSUME NEW o \in Ops
        PROVE  /\ ~enqueueOperation(o) /\ ~deliverInline(o) /\ ~retryOperation(o)
               /\ ~discardOperation(o) /\ ~Prune(o) /\ ~InlineDropped(o)
               /\ \A key \in Keys : ~KeyExpires(o, key)
    BY <1>6 DEF enqueueOperation, deliverInline, retryOperation, discardOperation, Prune,
                InlineDropped, KeyExpires, passVars
  <2>5. ASSUME NEW r \in late
        PROVE  /\ ~ServeLate(r, Serve) /\ ~InlineAnswer(r, Serve)
               /\ ~ServeLate(r, ServeBadly) /\ ~InlineAnswer(r, ServeBadly)
    BY <1>6 DEF ServeLate, InlineAnswer, passVars
  <2>6. ASSUME NEW u \in Users PROVE ~SignIn(u) /\ ~EndSession(u)
    BY <1>6 DEF SignIn, EndSession, passVars
  <2>7. /\ ~SignOut /\ ~EndPass /\ \A yes \in BOOLEAN : ~AllowPhone(yes)
        /\ \A b \in SUBSET Ops : ~StartPass(b)
        /\ \A a \in {OrderOf[o] : o \in Ops} : ~OfficeMoves(a) /\ ~OfficeCloses(a)
    BY <1>6 DEF SignOut, EndPass, AllowPhone, StartPass, OfficeMoves, OfficeCloses, passVars
  <2>8. ~UNCHANGED vars
    BY <1>6 DEF vars, passVars
  <2> QED
    BY <1>6, <2>1, <2>2, <2>3, <2>4, <2>5, <2>6, <2>7, <2>8 DEF Next, Usual, Fault, Phone
<1> QED
  BY <1>3, <1>4, <1>5, <1>6

\* A phone is refused work that somebody else overtook, never because of its own
\* earlier attempt; unless the server lost the record of that, or the delivery went
\* past the queue and the order was closed since.
THEOREM RefusalsComeFromOthers == Spec => ConflictIsNotItself
<1>1. Inv /\ [Next]_vars => [RefusalsAreOthers]_vars
  BY RefusalStep
<1> QED
  BY <1>1, Invariance, PTL DEF Spec, ConflictIsNotItself

-----------------------------------------------------------------------------
(* The protocol implements the abstract queue. *)

\* One operation gets another status.
LEMMA BoxUpdate ==
    ASSUME Types, NEW o \in Ops, NEW s, status' = [status EXCEPT ![o] = s]
    PROVE  Box' = [Box EXCEPT ![o] = Shown(s)]
  BY DEF Types, Box

LEMMA BoxSame == ASSUME UNCHANGED status PROVE Box' = Box
  BY DEF Box

LEMMA DoneSame == ASSUME UNCHANGED applied PROVE Done' = Done
  BY DEF Done

\* One operation may have been carried out.
LEMMA DoneGrows ==
    ASSUME Types, NEW o \in Ops, applied' \in [Ops -> Nat],
           \A p \in Ops : applied'[p] >= applied[p],
           \A p \in Ops : p # o => applied'[p] = applied[p]
    PROVE  Done' = Done \/ Done' = Done \cup {o}
  BY DEF Types, Done

\* What is shown of each status.
LEMMA ShownAs ==
    /\ Shown("new") = "new"
    /\ \A s \in Active : Shown(s) = "waiting"
    /\ Shown("synced") = "sent" /\ Shown("inline") = "sent"
    /\ \A s \in Issues : Shown(s) = "problem"
    /\ Shown("gone") = "forgotten"
    /\ "pending" \in Active /\ "error" \in Active /\ "syncing" \in Active
    /\ "failed" \in Issues /\ "conflict" \in Issues
    /\ Pending \subseteq Active
  BY DEF Shown, Active, Issues, Pending

\* Every step of the queue is a step of the abstract one, or none.
LEMMA Simulation ==
    ASSUME Inv, Types, [Next]_vars
    PROVE  [Promise!Next]_(Promise!vars)
<1> USE DEF queueVars, passVars, keyVars, worldVars, ghosts
<1>1. ASSUME NEW o \in Ops, Send(o) PROVE [Promise!Next]_(Promise!vars)
  <2>1. o \in Ops /\ status' = [status EXCEPT ![o] = "syncing"] /\ UNCHANGED applied
    BY <1>1 DEF Send, Types
  <2>2. Box' = [Box EXCEPT ![o] = Shown("syncing")] /\ Done' = Done
    BY <2>1, BoxUpdate, DoneSame
  <2>3. Box[o] = "waiting"
    BY <1>1, <2>1, ShownAs, OpsAssumption DEF Send, Box, Inv, PassInv, Types
  <2>4. Box' = Box
    BY <2>2, <2>3, ShownAs DEF Box
  <2> QED
    BY <2>2, <2>4 DEF Promise!vars
<1>2. ASSUME ServeCall(Serve) PROVE [Promise!Next]_(Promise!vars)
  <2>1. PICK reply \in Results : Serve(call.op, "queue", call.as, reply)
    BY <1>2 DEF ServeCall
  <2>2. call.op \in Ops /\ "queue" \in Keys
    BY <1>2 DEF ServeCall, Types, Requests, Keys
  <2>3. Done' = Done \/ Done' = Done \cup {call.op}
    BY <2>1, <2>2, ServeEffect, DoneGrows
  <2>4. Box' = Box
    BY <1>2, BoxSame DEF ServeCall
  <2>5. Promise!TakeEffect(call.op) \/ UNCHANGED Promise!vars
    BY <2>3, <2>4 DEF Promise!TakeEffect, Promise!vars
  <2> QED
    BY <2>2, <2>5 DEF Promise!Next
<1>3. ASSUME OnSynced PROVE [Promise!Next]_(Promise!vars)
  <2>1. call.op \in Ops /\ status' = [status EXCEPT ![call.op] = "synced"] /\ UNCHANGED applied
    BY <1>3, NoCallAssumption DEF OnSynced, Answered, Written, Types
  <2>2. Box' = [Box EXCEPT ![call.op] = Shown("synced")] /\ Done' = Done
    BY <2>1, BoxUpdate, DoneSame
  <2>3. Box[call.op] = "waiting" /\ call.op \in Done
    BY <1>3, <2>1, ShownAs, OpsAssumption DEF OnSynced, Answered, Written, Box, Inv, PassInv,
       Types, DoneInv, Done
  <2>4. Promise!ReportSent(call.op)
    BY <2>1, <2>2, <2>3, ShownAs DEF Promise!ReportSent
  <2> QED
    BY <2>1, <2>4 DEF Promise!Next
<1>4. ASSUME OnConflict PROVE [Promise!Next]_(Promise!vars)
  <2>1. call.op \in Ops /\ status' = [status EXCEPT ![call.op] = "conflict"] /\ UNCHANGED applied
    BY <1>4, NoCallAssumption DEF OnConflict, Answered, Written, Types
  <2>2. Box' = [Box EXCEPT ![call.op] = Shown("conflict")] /\ Done' = Done
    BY <2>1, BoxUpdate, DoneSame
  <2>3. Box[call.op] = "waiting"
    BY <1>4, <2>1, ShownAs, OpsAssumption DEF OnConflict, Answered, Written, Box, Inv, PassInv,
       Types
  <2>4. Promise!ReportProblem(call.op)
    BY <2>1, <2>2, <2>3, ShownAs DEF Promise!ReportProblem
  <2> QED
    BY <2>1, <2>4 DEF Promise!Next
<1>5. ASSUME OnDenied PROVE [Promise!Next]_(Promise!vars)
  <2>1. call.op \in Ops /\ status' = [status EXCEPT ![call.op] = "failed"] /\ UNCHANGED applied
    BY <1>5, NoCallAssumption DEF OnDenied, Answered, Written, Types
  <2>2. Box' = [Box EXCEPT ![call.op] = Shown("failed")] /\ Done' = Done
    BY <2>1, BoxUpdate, DoneSame
  <2>3. Box[call.op] = "waiting"
    BY <1>5, <2>1, ShownAs, OpsAssumption DEF OnDenied, Answered, Written, Box, Inv, PassInv,
       Types
  <2>4. Promise!ReportProblem(call.op)
    BY <2>1, <2>2, <2>3, ShownAs DEF Promise!ReportProblem
  <2> QED
    BY <2>1, <2>4 DEF Promise!Next
<1>6. ASSUME OnExpiredResend PROVE [Promise!Next]_(Promise!vars)
  BY <1>6, BoxSame, DoneSame DEF OnExpiredResend, Answered, Promise!vars
<1>7. ASSUME OnExpired PROVE [Promise!Next]_(Promise!vars)
  <2>1. call.op \in Ops /\ status' = [status EXCEPT ![call.op] = "failed"] /\ UNCHANGED applied
    BY <1>7, NoCallAssumption DEF OnExpired, Answered, Written, Types
  <2>2. Box' = [Box EXCEPT ![call.op] = Shown("failed")] /\ Done' = Done
    BY <2>1, BoxUpdate, DoneSame
  <2>3. Box[call.op] = "waiting"
    BY <1>7, <2>1, ShownAs, OpsAssumption DEF OnExpired, Answered, Written, Box, Inv, PassInv,
       Types
  <2>4. Promise!ReportProblem(call.op)
    BY <2>1, <2>2, <2>3, ShownAs DEF Promise!ReportProblem
  <2> QED
    BY <2>1, <2>4 DEF Promise!Next
<1>8. ASSUME OnRefused PROVE [Promise!Next]_(Promise!vars)
  <2>1. call.op \in Ops /\ status' = [status EXCEPT ![call.op] = "pending"] /\ UNCHANGED applied
    BY <1>8, NoCallAssumption DEF OnRefused, Answered, Written, Types
  <2>2. Box' = [Box EXCEPT ![call.op] = Shown("pending")] /\ Done' = Done
    BY <2>1, BoxUpdate, DoneSame
  <2>3. Box[call.op] = "waiting"
    BY <1>8, <2>1, ShownAs, OpsAssumption DEF OnRefused, Answered, Written, Box, Inv, PassInv,
       Types
  <2>4. Box' = Box
    BY <2>2, <2>3, ShownAs DEF Box
  <2> QED
    BY <2>2, <2>4 DEF Promise!vars
<1>9. ASSUME OnTrouble PROVE [Promise!Next]_(Promise!vars)
  <2>1. PICK s \in {"failed", "error"} : status' = [status EXCEPT ![call.op] = s]
    BY <1>9 DEF OnTrouble, Answered, Failing, Written
  <2>2. call.op \in Ops /\ UNCHANGED applied /\ Box[call.op] = "waiting"
    BY <1>9, NoCallAssumption, ShownAs DEF OnTrouble, Answered, Failing, Written, Types, Inv,
       PassInv, Box
  <2>3. Box' = [Box EXCEPT ![call.op] = Shown(s)] /\ Done' = Done
    BY <2>1, <2>2, BoxUpdate, DoneSame
  <2>4. CASE s = "failed"
    <3>1. Promise!ReportProblem(call.op)
      BY <2>2, <2>3, <2>4, ShownAs DEF Promise!ReportProblem
    <3> QED
      BY <2>2, <3>1 DEF Promise!Next
  <2>5. CASE s = "error"
    <3>1. Box' = Box
      BY <2>2, <2>3, <2>5, ShownAs DEF Box
    <3> QED
      BY <2>3, <3>1 DEF Promise!vars
  <2> QED
    BY <2>1, <2>4, <2>5
<1>10. ASSUME EndPass PROVE [Promise!Next]_(Promise!vars)
  BY <1>10, BoxSame, DoneSame DEF EndPass, Promise!vars
<1>11. ASSUME NEW b \in SUBSET Ops, StartPass(b) PROVE [Promise!Next]_(Promise!vars)
  BY <1>11, BoxSame, DoneSame DEF StartPass, Adopted, Mine, Promise!vars
<1>12. ASSUME NEW o \in Ops, enqueueOperation(o) PROVE [Promise!Next]_(Promise!vars)
  <2>1. o \in Ops /\ status' = [status EXCEPT ![o] = "pending"] /\ UNCHANGED applied
    BY <1>12 DEF enqueueOperation, Upcoming, Queued, Types
  <2>2. Box' = [Box EXCEPT ![o] = Shown("pending")] /\ Done' = Done
    BY <2>1, BoxUpdate, DoneSame
  <2>3. Box[o] = "new"
    BY <1>12, <2>1, ShownAs, OpsAssumption DEF enqueueOperation, Upcoming, Queued, Box, Inv,
       PassInv, Types
  <2>4. Promise!Put(o)
    BY <2>1, <2>2, <2>3, ShownAs DEF Promise!Put
  <2> QED
    BY <2>1, <2>4 DEF Promise!Next
<1>13. ASSUME NEW o \in Ops, deliverInline(o) PROVE [Promise!Next]_(Promise!vars)
  BY <1>13, BoxSame, DoneSame DEF deliverInline, Upcoming, Promise!vars
<1>14. ASSUME NEW o \in Ops, retryOperation(o) PROVE [Promise!Next]_(Promise!vars)
  <2>1. o \in Ops /\ status' = [status EXCEPT ![o] = "pending"] /\ UNCHANGED applied
    BY <1>14 DEF retryOperation, Written, Types
  <2>2. Box' = [Box EXCEPT ![o] = Shown("pending")] /\ Done' = Done
    BY <2>1, BoxUpdate, DoneSame
  <2>3. Box[o] = "problem"
    BY <1>14, <2>1, ShownAs, OpsAssumption DEF retryOperation, Written, Box, Inv, PassInv, Types
  <2>4. Promise!Retry(o)
    BY <2>1, <2>2, <2>3, ShownAs DEF Promise!Retry
  <2> QED
    BY <2>1, <2>4 DEF Promise!Next
<1>15. ASSUME NEW o \in Ops, discardOperation(o) PROVE [Promise!Next]_(Promise!vars)
  <2>1. o \in Ops /\ status' = [status EXCEPT ![o] = "gone"] /\ UNCHANGED applied
    BY <1>15 DEF discardOperation, Written, Types
  <2>2. Box' = [Box EXCEPT ![o] = Shown("gone")] /\ Done' = Done
    BY <2>1, BoxUpdate, DoneSame
  <2>3. Box[o] \in {"sent", "problem"}
    BY <1>15, <2>1, ShownAs, OpsAssumption DEF discardOperation, Written, Box, Inv, PassInv,
       Types
  <2>4. Promise!Forget(o)
    BY <2>1, <2>2, <2>3, ShownAs DEF Promise!Forget
  <2> QED
    BY <2>1, <2>4 DEF Promise!Next
<1>16. ASSUME NEW o \in Ops, Prune(o) PROVE [Promise!Next]_(Promise!vars)
  <2>1. o \in Ops /\ status' = [status EXCEPT ![o] = "gone"] /\ UNCHANGED applied
    BY <1>16 DEF Prune, Written, Types
  <2>2. Box' = [Box EXCEPT ![o] = Shown("gone")] /\ Done' = Done
    BY <2>1, BoxUpdate, DoneSame
  <2>3. Box[o] \in {"sent", "problem"}
    BY <1>16, <2>1, ShownAs, OpsAssumption DEF Prune, Written, Box, Inv, PassInv, Types
  <2>4. Promise!Forget(o)
    BY <2>1, <2>2, <2>3, ShownAs DEF Promise!Forget
  <2> QED
    BY <2>1, <2>4 DEF Promise!Next
<1>17. ASSUME NEW o \in Ops, NEW key \in Keys, KeyExpires(o, key) PROVE [Promise!Next]_(Promise!vars)
  BY <1>17, BoxSame, DoneSame DEF KeyExpires, Promise!vars
<1>18. ASSUME NEW r \in late, ServeLate(r, Serve) PROVE [Promise!Next]_(Promise!vars)
  <2>1. PICK reply \in Results : Serve(r.op, r.key, r.as, reply)
    BY <1>18 DEF ServeLate
  <2>2. r.op \in Ops /\ r.key \in Keys
    BY <1>18 DEF ServeLate, Types, Requests, Keys
  <2>3. Done' = Done \/ Done' = Done \cup {r.op}
    BY <2>1, <2>2, ServeEffect, DoneGrows
  <2>4. Box' = Box
    BY <1>18, BoxSame DEF ServeLate
  <2>5. Promise!TakeEffect(r.op) \/ UNCHANGED Promise!vars
    BY <2>3, <2>4 DEF Promise!TakeEffect, Promise!vars
  <2> QED
    BY <2>2, <2>5 DEF Promise!Next
<1>19. ASSUME NEW r \in late, InlineAnswer(r, Serve) PROVE [Promise!Next]_(Promise!vars)
  <2>1. PICK reply \in Results :
          /\ Serve(r.op, "screen", r.as, reply)
          /\ status' = [status EXCEPT ![r.op] = IF reply = "ok" THEN "inline" ELSE status[r.op]]
    BY <1>19 DEF InlineAnswer
  <2>2. r.op \in Ops /\ "screen" \in Keys
    BY <1>19 DEF InlineAnswer, Types, Requests, Keys
  <2>3. Done' = Done \/ Done' = Done \cup {r.op}
    BY <2>1, <2>2, ServeEffect, DoneGrows
  <2>4. CASE reply = "ok"
    <3>1. Done' = Done \cup {r.op}
      BY <2>1, <2>2, <2>3, <2>4, ServeEffect DEF Done, Inv, DoneInv
    <3>2. status' = [status EXCEPT ![r.op] = "inline"]
      BY <2>1, <2>4
    <3>5. Box' = [Box EXCEPT ![r.op] = Shown("inline")]
      BY <2>2, <3>2, BoxUpdate
    <3>3. Box[r.op] = "new"
      BY <1>19, <2>2, ShownAs, OpsAssumption DEF InlineAnswer, Inv, PassInv, Box
    <3>4. Promise!Answer(r.op)
      BY <3>1, <3>5, <3>3, ShownAs DEF Promise!Answer
    <3> QED
      BY <2>2, <3>4 DEF Promise!Next
  <2>5. CASE reply # "ok"
    <3>1. Box' = Box
      BY <2>1, <2>5 DEF Box, Types
    <3>2. Promise!TakeEffect(r.op) \/ UNCHANGED Promise!vars
      BY <2>3, <3>1 DEF Promise!TakeEffect, Promise!vars
    <3> QED
      BY <2>2, <3>2 DEF Promise!Next
  <2> QED
    BY <2>4, <2>5
<1>20. ASSUME NEW u \in Users, SignIn(u) PROVE [Promise!Next]_(Promise!vars)
  BY <1>20, BoxSame, DoneSame DEF SignIn, Promise!vars
<1>21. ASSUME NEW yes \in BOOLEAN, AllowPhone(yes) PROVE [Promise!Next]_(Promise!vars)
  BY <1>21, BoxSame, DoneSame DEF AllowPhone, Promise!vars
<1>22. ASSUME ServeCall(ServeBadly) PROVE [Promise!Next]_(Promise!vars)
  <2>1. PICK reply \in Results : ServeBadly(call.op, "queue", call.as, reply)
    BY <1>22 DEF ServeCall
  <2>2. call.op \in Ops /\ "queue" \in Keys
    BY <1>22 DEF ServeCall, Types, Requests, Keys
  <2>3. Done' = Done \/ Done' = Done \cup {call.op}
    BY <2>1, <2>2, ServeEffect, DoneGrows
  <2>4. Box' = Box
    BY <1>22, BoxSame DEF ServeCall
  <2>5. Promise!TakeEffect(call.op) \/ UNCHANGED Promise!vars
    BY <2>3, <2>4 DEF Promise!TakeEffect, Promise!vars
  <2> QED
    BY <2>2, <2>5 DEF Promise!Next
<1>23. ASSUME TimeOut PROVE [Promise!Next]_(Promise!vars)
  <2>1. PICK s \in {"failed", "error"} : status' = [status EXCEPT ![call.op] = s]
    BY <1>23 DEF TimeOut, Failing, Written, LateAfterCall
  <2>2. call.op \in Ops /\ UNCHANGED applied /\ Box[call.op] = "waiting"
    BY <1>23, NoCallAssumption, ShownAs DEF TimeOut, Failing, Written, LateAfterCall, Types,
       Inv, PassInv, Box
  <2>3. Box' = [Box EXCEPT ![call.op] = Shown(s)] /\ Done' = Done
    BY <2>1, <2>2, BoxUpdate, DoneSame
  <2>4. CASE s = "failed"
    <3>1. Promise!ReportProblem(call.op)
      BY <2>2, <2>3, <2>4, ShownAs DEF Promise!ReportProblem
    <3> QED
      BY <2>2, <3>1 DEF Promise!Next
  <2>5. CASE s = "error"
    <3>1. Box' = Box
      BY <2>2, <2>3, <2>5, ShownAs DEF Box
    <3> QED
      BY <2>3, <3>1 DEF Promise!vars
  <2> QED
    BY <2>1, <2>4, <2>5
<1>24. ASSUME RefreshUnreachable PROVE [Promise!Next]_(Promise!vars)
  <2>1. call.op \in Ops /\ status' = [status EXCEPT ![call.op] = "failed"] /\ UNCHANGED applied
    BY <1>24, NoCallAssumption DEF RefreshUnreachable, Written, Types
  <2>2. Box' = [Box EXCEPT ![call.op] = Shown("failed")] /\ Done' = Done
    BY <2>1, BoxUpdate, DoneSame
  <2>3. Box[call.op] = "waiting"
    BY <1>24, <2>1, ShownAs, OpsAssumption DEF RefreshUnreachable, Written, Box, Inv, PassInv,
       Types
  <2>4. Promise!ReportProblem(call.op)
    BY <2>1, <2>2, <2>3, ShownAs DEF Promise!ReportProblem
  <2> QED
    BY <2>1, <2>4 DEF Promise!Next
<1>25. ASSUME Kill PROVE [Promise!Next]_(Promise!vars)
  BY <1>25, BoxSame, DoneSame DEF Kill, LateAfterCall, Promise!vars
<1>26. ASSUME NEW o \in Ops, InlineDropped(o) PROVE [Promise!Next]_(Promise!vars)
  <2>1. o \in Ops /\ status' = [status EXCEPT ![o] = "pending"] /\ UNCHANGED applied
    BY <1>26 DEF InlineDropped, Queued, Types
  <2>2. Box' = [Box EXCEPT ![o] = Shown("pending")] /\ Done' = Done
    BY <2>1, BoxUpdate, DoneSame
  <2>3. Box[o] = "new"
    BY <1>26, <2>1, ShownAs, OpsAssumption DEF InlineDropped, Queued, Box, Inv, PassInv, Types
  <2>4. Promise!Put(o)
    BY <2>1, <2>2, <2>3, ShownAs DEF Promise!Put
  <2> QED
    BY <2>1, <2>4 DEF Promise!Next
<1>27. ASSUME NEW r \in late, ServeLate(r, ServeBadly) PROVE [Promise!Next]_(Promise!vars)
  <2>1. PICK reply \in Results : ServeBadly(r.op, r.key, r.as, reply)
    BY <1>27 DEF ServeLate
  <2>2. r.op \in Ops /\ r.key \in Keys
    BY <1>27 DEF ServeLate, Types, Requests, Keys
  <2>3. Done' = Done \/ Done' = Done \cup {r.op}
    BY <2>1, <2>2, ServeEffect, DoneGrows
  <2>4. Box' = Box
    BY <1>27, BoxSame DEF ServeLate
  <2>5. Promise!TakeEffect(r.op) \/ UNCHANGED Promise!vars
    BY <2>3, <2>4 DEF Promise!TakeEffect, Promise!vars
  <2> QED
    BY <2>2, <2>5 DEF Promise!Next
<1>28. ASSUME NEW r \in late, InlineAnswer(r, ServeBadly) PROVE [Promise!Next]_(Promise!vars)
  <2>1. PICK reply \in Results :
          /\ ServeBadly(r.op, "screen", r.as, reply)
          /\ status' = [status EXCEPT ![r.op] = IF reply = "ok" THEN "inline" ELSE status[r.op]]
    BY <1>28 DEF InlineAnswer
  <2>2. r.op \in Ops /\ "screen" \in Keys
    BY <1>28 DEF InlineAnswer, Types, Requests, Keys
  <2>3. Done' = Done \/ Done' = Done \cup {r.op}
    BY <2>1, <2>2, ServeEffect, DoneGrows
  <2>4. CASE reply = "ok"
    <3>1. Done' = Done \cup {r.op}
      BY <2>1, <2>2, <2>3, <2>4, ServeEffect DEF Done, Inv, DoneInv
    <3>2. status' = [status EXCEPT ![r.op] = "inline"]
      BY <2>1, <2>4
    <3>5. Box' = [Box EXCEPT ![r.op] = Shown("inline")]
      BY <2>2, <3>2, BoxUpdate
    <3>3. Box[r.op] = "new"
      BY <1>28, <2>2, ShownAs, OpsAssumption DEF InlineAnswer, Inv, PassInv, Box
    <3>4. Promise!Answer(r.op)
      BY <3>1, <3>5, <3>3, ShownAs DEF Promise!Answer
    <3> QED
      BY <2>2, <3>4 DEF Promise!Next
  <2>5. CASE reply # "ok"
    <3>1. Box' = Box
      BY <2>1, <2>5 DEF Box, Types
    <3>2. Promise!TakeEffect(r.op) \/ UNCHANGED Promise!vars
      BY <2>3, <3>1 DEF Promise!TakeEffect, Promise!vars
    <3> QED
      BY <2>2, <3>2 DEF Promise!Next
  <2> QED
    BY <2>4, <2>5
<1>29. ASSUME SignOut PROVE [Promise!Next]_(Promise!vars)
  BY <1>29, BoxSame, DoneSame DEF SignOut, Promise!vars
<1>30. ASSUME NEW u \in Users, EndSession(u) PROVE [Promise!Next]_(Promise!vars)
  BY <1>30, BoxSame, DoneSame DEF EndSession, Promise!vars
<1>31. ASSUME NEW a \in {OrderOf[o] : o \in Ops}, OfficeMoves(a) \/ OfficeCloses(a) PROVE [Promise!Next]_(Promise!vars)
  BY <1>31, BoxSame, DoneSame DEF OfficeMoves, OfficeCloses, Promise!vars
<1>32. CASE UNCHANGED vars
  BY <1>32, BoxSame, DoneSame DEF vars, Promise!vars
<1> QED
  BY <1>1, <1>2, <1>3, <1>4, <1>5, <1>6, <1>7, <1>8, <1>9, <1>10, <1>11, <1>12, <1>13, <1>14,
     <1>15, <1>16, <1>17, <1>18, <1>19, <1>20, <1>21, <1>22, <1>23, <1>24, <1>25, <1>26, <1>27,
     <1>28, <1>29, <1>30, <1>31, <1>32
  DEF Next, Usual, Fault, Phone

\* An operation is reported as sent only if it took effect, leaves the phone only
\* after it was reported, and no report is taken back: SyncCoordinator implements
\* the abstract queue.
THEOREM QueueIsAnOutbox == Spec => ImplementsOutbox
<1>1. Init => Promise!Init
  <2> SUFFICES ASSUME Init PROVE Promise!Init
    OBVIOUS
  <2>1. Box \in [Ops -> {"new", "waiting"}]
    BY ShownAs DEF Init, Box
  <2>2. Done = {}
    BY DEF Init, Done
  <2> QED
    BY <2>1, <2>2 DEF Promise!Init
<1>2. Inv /\ [Next]_vars => [Promise!Next]_(Promise!vars)
  BY Simulation DEF Inv
<1> QED
  BY <1>1, <1>2, Invariance, PTL DEF Spec, ImplementsOutbox, Promise!Spec
=============================================================================
