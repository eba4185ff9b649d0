----------------------------- MODULE Idempotency -----------------------------
(***************************************************************************)
(* IdempotencyService.execute: the calls that arrive with one              *)
(* Idempotency-Key.  The first claims the key in Redis, runs its           *)
(* operation and stores the result for the others to replay.  The record   *)
(* in Redis names no owner: whoever ran an operation deletes or overwrites *)
(* whatever is there.                                                      *)
(*                                                                         *)
(* An operation is one use case, whose transaction commits before its      *)
(* domain events are handed to their subscribers; it may still fail after  *)
(* the commit.  The calls here come within the 72 hours a stored result is *)
(* kept; those that come later are in PhoneQueue (KeyExpires).             *)
(***************************************************************************)
EXTENDS FiniteSets

CONSTANTS
    Calls,      \* HTTP requests with the key
    Requests,   \* request fingerprints
    Faults,     \* what may go wrong
    NoCall

ASSUME FaultsAssumption == Faults \subseteq {"crash", "handler", "slow"}

ASSUME NoCallAssumption == NoCall \notin Calls

VARIABLES
    key,       \* the record in Redis
    pc,        \* how far each call has come
    asks,      \* the fingerprint of each call
    applied,   \* the calls whose transaction committed
    answer     \* the call whose result a caller was given

vars == <<key, pc, asks, applied, answer>>

Free == [status |-> "free"]
Claimed(req) == [status |-> "in_progress", request |-> req]
Stored(req, c) == [status |-> "completed", request |-> req, result |-> c]

Keys == {Free} \cup [status : {"in_progress"}, request : Requests]
               \cup [status : {"completed"}, request : Requests, result : Calls]

\* The calls that claimed the key and have not let go of it.
Executing == {c \in Calls : pc[c] \in {"running", "committed", "failed"}}

TypeOK ==
    /\ key \in Keys
    /\ pc \in [Calls -> {"new", "running", "committed", "failed", "waiting",
                         "answered", "refused", "dead"}]
    /\ asks \in [Calls -> Requests]
    /\ applied \in SUBSET Calls
    /\ answer \in [Calls -> Calls \cup {NoCall}]

Init ==
    /\ key = Free
    /\ pc = [c \in Calls |-> "new"]
    /\ asks \in [Calls -> Requests]
    /\ applied = {}
    /\ answer = [c \in Calls |-> NoCall]
-----------------------------------------------------------------------------
\* SET NX with a 30 second lifetime.
Claim(c) ==
    /\ pc[c] = "new"
    /\ key = Free
    /\ key' = Claimed(asks[c])
    /\ pc' = [pc EXCEPT ![c] = "running"]
    /\ UNCHANGED <<asks, applied, answer>>

FindTaken(c) ==
    /\ pc[c] = "new"
    /\ key # Free
    /\ pc' = [pc EXCEPT ![c] = "waiting"]
    /\ UNCHANGED <<key, asks, applied, answer>>

Commit(c) ==
    /\ pc[c] = "running"
    /\ applied' = applied \cup {c}
    /\ pc' = [pc EXCEPT ![c] = "committed"]
    /\ UNCHANGED <<key, asks, answer>>

\* The operation raises: before its commit, or, where a subscriber of its
\* events fails, after it.
Fail(c) ==
    /\ \/ pc[c] = "running"
       \/ pc[c] = "committed" /\ "handler" \in Faults
    /\ pc' = [pc EXCEPT ![c] = "failed"]
    /\ UNCHANGED <<key, asks, applied, answer>>

Release(c) ==
    /\ pc[c] = "failed"
    /\ key' = Free
    /\ pc' = [pc EXCEPT ![c] = "refused"]
    /\ UNCHANGED <<asks, applied, answer>>

StoreAndRelease(c) ==
    /\ pc[c] = "committed"
    /\ key' = Free
    /\ answer' = [answer EXCEPT ![c] = c]
    /\ pc' = [pc EXCEPT ![c] = "answered"]
    /\ UNCHANGED <<asks, applied>>

\* The result takes the place of whatever the record is by now.
Store(c) ==
    /\ pc[c] = "committed"
    /\ key' = Stored(asks[c], c)
    /\ answer' = [answer EXCEPT ![c] = c]
    /\ pc' = [pc EXCEPT ![c] = "answered"]
    /\ UNCHANGED <<asks, applied>>

\* The worker is killed, the request is cancelled or Redis is out of reach: no
\* except clause runs, and the record stays.
Die(c) ==
    /\ "crash" \in Faults
    /\ c \in Executing
    /\ pc' = [pc EXCEPT ![c] = "dead"]
    /\ UNCHANGED <<key, asks, applied, answer>>

\* Only a slow operation outlives the 30 seconds.
ClaimNeverExpires == FALSE /\ UNCHANGED vars

ClaimExpiresAnytime ==
    /\ key.status = "in_progress"
    /\ key' = Free
    /\ UNCHANGED <<pc, asks, applied, answer>>

ClaimExpires ==
    /\ key.status = "in_progress"
    /\ Executing = {} \/ "slow" \in Faults
    /\ key' = Free
    /\ UNCHANGED <<pc, asks, applied, answer>>

\* _await_existing reads the record every 100 ms.
AnyRequest(c) == TRUE
SameRequest(c) == key.request = asks[c]

Replay(c) ==
    /\ pc[c] = "waiting"
    /\ key.status = "completed"
    /\ SameRequest(c)
    /\ answer' = [answer EXCEPT ![c] = key.result]
    /\ pc' = [pc EXCEPT ![c] = "answered"]
    /\ UNCHANGED <<key, asks, applied>>

GiveUpLate(c) ==
    /\ pc[c] = "waiting"
    /\ key # Free
    /\ ~SameRequest(c) \/ key.status = "in_progress"
    /\ pc' = [pc EXCEPT ![c] = "refused"]
    /\ UNCHANGED <<key, asks, applied, answer>>

\* Nothing to replay, a conflict, or the deadline while still in progress.
GiveUp(c) ==
    /\ pc[c] = "waiting"
    /\ \/ key = Free
       \/ key # Free /\ ~SameRequest(c)
       \/ key.status = "in_progress"
    /\ pc' = [pc EXCEPT ![c] = "refused"]
    /\ UNCHANGED <<key, asks, applied, answer>>

Arrive(c) == Claim(c) \/ FindTaken(c)

Proceed(c) ==
    Commit(c) \/ Fail(c) \/ Release(c) \/ Store(c) \/ Replay(c) \/ GiveUp(c)

Next == ClaimExpires \/ \E c \in Calls : Arrive(c) \/ Proceed(c) \/ Die(c)

\* Redis expires keys, and the event loop gets round to every request that has
\* arrived: its operation ends, and a waiting one polls to a deadline.
Spec == /\ Init
        /\ [][Next]_vars
        /\ WF_vars(ClaimExpires)
        /\ \A c \in Calls : WF_vars(Proceed(c))
-----------------------------------------------------------------------------
(* What the service promises. *)

\* "Concurrent identical requests serialize to one execution": no two calls are
\* inside their operation at the same time.
OneAtATime == \A c, d \in Executing : c = d

\* A caller is only ever given the result of a run that committed, for the very
\* request it made.
AnswerIsMine ==
    \A c \in Calls : answer[c] # NoCall =>
        answer[c] \in applied /\ asks[answer[c]] = asks[c]

\* Everybody who gets an answer under one key gets the same one.
AnswersAgree ==
    \A c, d \in Calls : answer[c] # NoCall /\ answer[d] # NoCall => answer[c] = answer[d]

\* An operation is applied again only where the result of its earlier run is
\* lost: its caller saw an error or nothing at all.
AppliedAgainOnlyIfLost ==
    \A c, d \in applied : c # d =>
        pc[c] \in {"failed", "refused", "dead"} \/ pc[d] \in {"failed", "refused", "dead"}

\* "Run ``operation`` at most once for this key".
AtMostOnce == \A c, d \in applied : c = d

\* A stored result is never overwritten and never taken away by another call.
ResultStays == [][key.status = "completed" => key' = key]_vars

\* "a crashed request doesn't wedge the key forever".
KeyIsNotWedged == []<>(key.status # "in_progress")

\* Every request that arrived gets an answer or an error, unless its worker dies.
EveryCallReturns ==
    \A c \in Calls :
        pc[c] # "new" ~> pc[c] \in {"answered", "refused", "dead"}
=============================================================================
