-------------------------- MODULE IdempotencyProofs --------------------------
(***************************************************************************)
(* What IdempotencyService guarantees for every number of calls.  Whatever *)
(* goes wrong, an answer is the caller's own.  As long as no operation     *)
(* outlives its claim, the record in Redis is only ever written by the one *)
(* call that holds it, and everything else follows from that.              *)
(***************************************************************************)
EXTENDS Idempotency, TLAPS

Lost(c) == pc[c] \in {"failed", "refused", "dead"}

\* A call that has committed is past its operation, and a caller with an answer
\* of its own run had that run committed.
RunsAreApplied ==
    /\ \A c \in Calls : pc[c] = "committed" => c \in applied
    /\ \A c \in applied : pc[c] \in {"committed", "answered"} \/ Lost(c)

\* A stored result is of a committed run of the request it is stored under.
StoredIsApplied ==
    key.status = "completed" => key.result \in applied /\ asks[key.result] = key.request

\* Holds whatever goes wrong.
AnswerInv == TypeOK /\ RunsAreApplied /\ StoredIsApplied /\ AnswerIsMine

\* Redis records are told apart by their status.
LEMMA Records ==
    ASSUME TypeOK, NEW c \in Calls
    PROVE  /\ Free \in Keys /\ Free.status = "free"
           /\ Claimed(asks[c]) \in Keys
           /\ Claimed(asks[c]).status = "in_progress"
           /\ Claimed(asks[c]).request = asks[c]
           /\ Stored(asks[c], c) \in Keys
           /\ Stored(asks[c], c).status = "completed"
           /\ Stored(asks[c], c).request = asks[c]
           /\ Stored(asks[c], c).result = c
           /\ key = Free \/ key.status \in {"in_progress", "completed"}
           /\ key # Free => key.request \in Requests
           /\ key.status = "completed" => key.result \in Calls
<1>1. asks[c] \in Requests
  BY DEF TypeOK
<1>2. key \in Keys
  BY DEF TypeOK
<1> QED
  BY <1>1, <1>2 DEF Keys, Free, Claimed, Stored

\* Every step keeps the values of the variables in their types.
LEMMA TypeStep ==
    ASSUME TypeOK, [Next]_vars
    PROVE  TypeOK'
<1>1. ASSUME NEW c \in Calls, Claim(c) PROVE TypeOK'
  BY <1>1, Records DEF Claim, TypeOK
<1>2. ASSUME NEW c \in Calls, FindTaken(c) PROVE TypeOK'
  BY <1>2 DEF FindTaken, TypeOK
<1>3. ASSUME NEW c \in Calls, Commit(c) PROVE TypeOK'
  BY <1>3 DEF Commit, TypeOK
<1>4. ASSUME NEW c \in Calls, Fail(c) PROVE TypeOK'
  BY <1>4 DEF Fail, TypeOK
<1>5. ASSUME NEW c \in Calls, Release(c) PROVE TypeOK'
  BY <1>5, Records DEF Release, TypeOK
<1>6. ASSUME NEW c \in Calls, Store(c) PROVE TypeOK'
  BY <1>6, Records DEF Store, TypeOK
<1>7. ASSUME NEW c \in Calls, Replay(c) PROVE TypeOK'
  BY <1>7, Records DEF Replay, TypeOK
<1>8. ASSUME NEW c \in Calls, GiveUp(c) PROVE TypeOK'
  BY <1>8 DEF GiveUp, TypeOK
<1>9. ASSUME NEW c \in Calls, Die(c) PROVE TypeOK'
  BY <1>9 DEF Die, TypeOK
<1>10. ASSUME ClaimExpires PROVE TypeOK'
  BY <1>10 DEF ClaimExpires, TypeOK, Keys, Free
<1>11. ASSUME UNCHANGED vars PROVE TypeOK'
  BY <1>11 DEF vars, TypeOK
<1> QED
  BY <1>1, <1>2, <1>3, <1>4, <1>5, <1>6, <1>7, <1>8, <1>9, <1>10, <1>11
     DEF Next, Arrive, Proceed
-----------------------------------------------------------------------------
(* Whatever goes wrong *)

\* The key is free at first and nothing has been answered.
LEMMA AnswerInit ==
    ASSUME Init
    PROVE  AnswerInv
BY NoCallAssumption
   DEF Init, AnswerInv, TypeOK, RunsAreApplied, StoredIsApplied, AnswerIsMine, Keys, Free

\* A result is stored by the run it is of and replayed for the same request.
LEMMA AnswerStep ==
    ASSUME AnswerInv, [Next]_vars
    PROVE  AnswerInv'
<1> USE DEF AnswerInv
<1>0. TypeOK'
  BY TypeStep
<1>1. ASSUME NEW c \in Calls, Claim(c) PROVE (RunsAreApplied /\ StoredIsApplied /\ AnswerIsMine)'
  BY <1>1, Records DEF Claim, TypeOK, RunsAreApplied, StoredIsApplied, AnswerIsMine, Lost
<1>2. ASSUME NEW c \in Calls, FindTaken(c)
      PROVE (RunsAreApplied /\ StoredIsApplied /\ AnswerIsMine)'
  BY <1>2 DEF FindTaken, TypeOK, RunsAreApplied, StoredIsApplied, AnswerIsMine, Lost
<1>3. ASSUME NEW c \in Calls, Commit(c) PROVE (RunsAreApplied /\ StoredIsApplied /\ AnswerIsMine)'
  BY <1>3 DEF Commit, TypeOK, RunsAreApplied, StoredIsApplied, AnswerIsMine, Lost
<1>4. ASSUME NEW c \in Calls, Fail(c) PROVE (RunsAreApplied /\ StoredIsApplied /\ AnswerIsMine)'
  BY <1>4 DEF Fail, TypeOK, RunsAreApplied, StoredIsApplied, AnswerIsMine, Lost
<1>5. ASSUME NEW c \in Calls, Release(c) PROVE (RunsAreApplied /\ StoredIsApplied /\ AnswerIsMine)'
  BY <1>5, Records DEF Release, TypeOK, RunsAreApplied, StoredIsApplied, AnswerIsMine, Lost
<1>6. ASSUME NEW c \in Calls, Store(c) PROVE (RunsAreApplied /\ StoredIsApplied /\ AnswerIsMine)'
  BY <1>6, Records DEF Store, TypeOK, RunsAreApplied, StoredIsApplied, AnswerIsMine, Lost
<1>7. ASSUME NEW c \in Calls, Replay(c) PROVE (RunsAreApplied /\ StoredIsApplied /\ AnswerIsMine)'
  BY <1>7, Records
     DEF Replay, SameRequest, TypeOK, RunsAreApplied, StoredIsApplied, AnswerIsMine, Lost
<1>8. ASSUME NEW c \in Calls, GiveUp(c) PROVE (RunsAreApplied /\ StoredIsApplied /\ AnswerIsMine)'
  BY <1>8 DEF GiveUp, TypeOK, RunsAreApplied, StoredIsApplied, AnswerIsMine, Lost
<1>9. ASSUME NEW c \in Calls, Die(c) PROVE (RunsAreApplied /\ StoredIsApplied /\ AnswerIsMine)'
  BY <1>9 DEF Die, Executing, TypeOK, RunsAreApplied, StoredIsApplied, AnswerIsMine, Lost
<1>10. ASSUME ClaimExpires PROVE (RunsAreApplied /\ StoredIsApplied /\ AnswerIsMine)'
  BY <1>10 DEF ClaimExpires, Free, RunsAreApplied, StoredIsApplied, AnswerIsMine, Lost
<1>11. ASSUME UNCHANGED vars PROVE (RunsAreApplied /\ StoredIsApplied /\ AnswerIsMine)'
  BY <1>11 DEF vars, RunsAreApplied, StoredIsApplied, AnswerIsMine, Lost
<1> QED
  BY <1>0, <1>1, <1>2, <1>3, <1>4, <1>5, <1>6, <1>7, <1>8, <1>9, <1>10, <1>11
     DEF Next, Arrive, Proceed

\* A caller is only ever given the result of a committed run of its own request
\* (IdempotencyService.execute), whatever crashes, fails or takes too long.
THEOREM AnswerIsMineAlways == Spec => []AnswerIsMine
<1>1. Init => AnswerInv
  BY AnswerInit
<1>2. AnswerInv /\ [Next]_vars => AnswerInv'
  BY AnswerStep
<1>3. AnswerInv => AnswerIsMine
  BY DEF AnswerInv
<1> QED
  BY <1>1, <1>2, <1>3, PTL DEF Spec
-----------------------------------------------------------------------------
(* As long as no operation outlives its claim *)

\* A call inside its operation holds the record.
KeyIsHeld == \A c \in Executing : key.status = "in_progress"

\* An answer given is the result stored, and the run it is of gave it itself.
AnswersAreStored ==
    \A c \in Calls :
        /\ answer[c] # NoCall <=> pc[c] = "answered"
        /\ pc[c] = "answered" => key.status = "completed" /\ answer[c] = key.result
        /\ pc[c] = "answered" /\ c \in applied => answer[c] = c

\* Without a crash or a failing subscriber, no committed run is lost.
NothingIsLost ==
    {"crash", "handler"} \cap Faults = {} => \A c \in applied : ~Lost(c)

Held == KeyIsHeld /\ OneAtATime /\ AnswersAreStored /\ NothingIsLost

HeldInv == AnswerInv /\ Held

\* No call is under way at first.
LEMMA HeldInit ==
    ASSUME Init
    PROVE  HeldInv
<1>1. AnswerInv
  BY AnswerInit
<1>2. Held
  BY DEF Init, Held, KeyIsHeld, Executing, OneAtATime, AnswersAreStored, NothingIsLost
<1> QED
  BY <1>1, <1>2 DEF HeldInv

\* The record is written by its holder, or by nobody's leave once it is free.
LEMMA HeldStep ==
    ASSUME HeldInv, "slow" \notin Faults, [Next]_vars
    PROVE  HeldInv'
<1> USE DEF HeldInv
<1> USE DEF AnswerInv, Held, KeyIsHeld, Executing, OneAtATime, AnswersAreStored,
            NothingIsLost, RunsAreApplied, Lost
<1>0. AnswerInv'
  BY AnswerStep
<1>1. ASSUME NEW c \in Calls, Claim(c) PROVE Held'
  BY <1>1, Records, NoCallAssumption DEF Claim, TypeOK
<1>2. ASSUME NEW c \in Calls, FindTaken(c) PROVE Held'
  BY <1>2, Records, NoCallAssumption DEF FindTaken, TypeOK
<1>3. ASSUME NEW c \in Calls, Commit(c) PROVE Held'
  BY <1>3, Records, NoCallAssumption DEF Commit, TypeOK
<1>4. ASSUME NEW c \in Calls, Fail(c) PROVE Held'
  BY <1>4, Records, NoCallAssumption DEF Fail, TypeOK
<1>5. ASSUME NEW c \in Calls, Release(c) PROVE Held'
  BY <1>5, Records, NoCallAssumption DEF Release, TypeOK
<1>6. ASSUME NEW c \in Calls, Store(c) PROVE Held'
  BY <1>6, Records, NoCallAssumption DEF Store, TypeOK
<1>7. ASSUME NEW c \in Calls, Replay(c) PROVE Held'
  BY <1>7, Records, NoCallAssumption DEF Replay, SameRequest, TypeOK
<1>8. ASSUME NEW c \in Calls, GiveUp(c) PROVE Held'
  BY <1>8, Records, NoCallAssumption DEF GiveUp, TypeOK
<1>9. ASSUME NEW c \in Calls, Die(c) PROVE Held'
  BY <1>9, Records, NoCallAssumption DEF Die, TypeOK
<1>10. ASSUME ClaimExpires PROVE Held'
  BY <1>10, Records DEF ClaimExpires
<1>11. ASSUME UNCHANGED vars PROVE Held'
  BY <1>11 DEF vars
<1> QED
  BY <1>0, <1>1, <1>2, <1>3, <1>4, <1>5, <1>6, <1>7, <1>8, <1>9, <1>10, <1>11
     DEF Next, Arrive, Proceed

\* The invariant, once and for all that follows from it.
LEMMA HeldAlways ==
    ASSUME "slow" \notin Faults
    PROVE  Spec => []HeldInv
<1>1. Init => HeldInv
  BY HeldInit
<1>2. HeldInv /\ [Next]_vars => HeldInv'
  BY HeldStep
<1> QED
  BY <1>1, <1>2, PTL DEF Spec

\* "Concurrent identical requests serialize to one execution": no two calls are
\* inside their operation at once.
THEOREM OneAtATimeUnlessSlow ==
    ASSUME "slow" \notin Faults
    PROVE  Spec => []OneAtATime
<1>1. HeldInv => OneAtATime
  BY DEF HeldInv, Held
<1> QED
  BY <1>1, HeldAlways, PTL

\* Every caller who gets an answer under a key gets the same one.
THEOREM AnswersAgreeUnlessSlow ==
    ASSUME "slow" \notin Faults
    PROVE  Spec => []AnswersAgree
<1>1. HeldInv => AnswersAgree
  BY DEF HeldInv, Held, AnswersAreStored, AnswersAgree
<1> QED
  BY <1>1, HeldAlways, PTL

\* The operation is applied again only where the result of its earlier run was
\* lost to a crash or to a failure after its commit.
THEOREM AppliedAgainOnlyIfLostUnlessSlow ==
    ASSUME "slow" \notin Faults
    PROVE  Spec => []AppliedAgainOnlyIfLost
<1>1. ASSUME HeldInv, NEW c \in applied, NEW d \in applied, ~Lost(c), ~Lost(d)
      PROVE  c = d
  <2>1. c \in Calls /\ d \in Calls
    BY <1>1 DEF HeldInv, AnswerInv, TypeOK
  <2>2. pc[c] \in {"committed", "answered"} /\ pc[d] \in {"committed", "answered"}
    BY <1>1 DEF HeldInv, AnswerInv, RunsAreApplied
  <2>3. CASE pc[c] = "committed" /\ pc[d] = "committed"
    BY <1>1, <2>1, <2>3 DEF HeldInv, Held, OneAtATime, Executing
  <2>4. CASE pc[c] = "answered" /\ pc[d] = "answered"
    BY <1>1, <2>1, <2>4 DEF HeldInv, Held, AnswersAreStored
  <2>5. CASE pc[c] # pc[d]   \* the key cannot be held and answered from
    BY <1>1, <2>1, <2>2, <2>5
       DEF HeldInv, Held, AnswersAreStored, KeyIsHeld, Executing
  <2> QED
    BY <2>2, <2>3, <2>4, <2>5
<1>2. HeldInv => AppliedAgainOnlyIfLost
  BY <1>1 DEF AppliedAgainOnlyIfLost, Lost
<1> QED
  BY <1>2, HeldAlways, PTL

\* "Run ``operation`` at most once for this key": true where nothing goes wrong
\* between the commit and the storing of the result.
THEOREM AtMostOnceWithoutFaults ==
    ASSUME Faults = {}
    PROVE  Spec => []AtMostOnce
<1>1. HeldInv /\ AppliedAgainOnlyIfLost => AtMostOnce
  BY DEF HeldInv, Held, NothingIsLost, Lost, AppliedAgainOnlyIfLost, AtMostOnce
<1>2. "slow" \notin Faults
  OBVIOUS
<1>3. Spec => []HeldInv
  BY <1>2, HeldAlways
<1>4. Spec => []AppliedAgainOnlyIfLost
  BY <1>2, AppliedAgainOnlyIfLostUnlessSlow
<1> QED
  BY <1>1, <1>3, <1>4, PTL

\* A stored result is never overwritten or taken away by another call.
THEOREM ResultStaysUnlessSlow ==
    ASSUME "slow" \notin Faults
    PROVE  Spec => ResultStays
<1>1. ASSUME HeldInv, [Next]_vars, key.status = "completed"
      PROVE  key' = key
  <2>1. Executing = {}
    BY <1>1 DEF HeldInv, Held, KeyIsHeld
  <2>2. key # Free
    BY <1>1 DEF Free
  <2> QED
    BY <1>1, <2>1, <2>2
       DEF Next, Arrive, Proceed, Claim, FindTaken, Commit, Fail, Release, Store, Replay,
           GiveUp, Die, ClaimExpires, vars, Executing
<1>2. HeldInv /\ [Next]_vars => [key.status = "completed" => key' = key]_vars
  BY <1>1
<1> QED
  BY <1>2, HeldAlways, PTL DEF Spec, ResultStays
=============================================================================
