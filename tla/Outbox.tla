-------------------------------- MODULE Outbox --------------------------------
(***************************************************************************)
(* What the offline queue of a phone promises of each operation the user   *)
(* queues: it waits, it may take effect on the server, and it ends as sent *)
(* only if it did.  Work that never was sent leaves the phone only after   *)
(* it was reported to the user as a problem.  SyncCoordinator's own        *)
(* protocol is PhoneQueue, which implements this.                          *)
(***************************************************************************)
CONSTANTS
    Ops       \* what users do on one phone, in the order they do it

VARIABLES
    box,      \* what the phone shows of each operation
    done      \* the operations that took effect on the server

vars == <<box, done>>

Init == /\ box \in [Ops -> {"new", "waiting"}]
        /\ done = {}

Put(o) == /\ box[o] = "new"
          /\ box' = [box EXCEPT ![o] = "waiting"]
          /\ UNCHANGED done

\* The server may act on any request it was sent, however late: also on one the
\* phone has stopped waiting for.
TakeEffect(o) == /\ done' = done \cup {o}
                 /\ UNCHANGED box

ReportSent(o) == /\ box[o] \in {"new", "waiting"}
                 /\ o \in done
                 /\ box' = [box EXCEPT ![o] = "sent"]
                 /\ UNCHANGED done

ReportProblem(o) == /\ box[o] = "waiting"
                    /\ box' = [box EXCEPT ![o] = "problem"]
                    /\ UNCHANGED done

Retry(o) == /\ box[o] = "problem"
            /\ box' = [box EXCEPT ![o] = "waiting"]
            /\ UNCHANGED done

Forget(o) == /\ box[o] \in {"sent", "problem"}
             /\ box' = [box EXCEPT ![o] = "forgotten"]
             /\ UNCHANGED done

\* An answer both applies an operation and reports it.
Answer(o) == /\ box[o] \in {"new", "waiting"}
             /\ box' = [box EXCEPT ![o] = "sent"]
             /\ done' = done \cup {o}

Next == \E o \in Ops : \/ Put(o) \/ TakeEffect(o) \/ ReportSent(o) \/ Answer(o)
                       \/ ReportProblem(o) \/ Retry(o) \/ Forget(o)

Spec == Init /\ [][Next]_vars
=============================================================================
