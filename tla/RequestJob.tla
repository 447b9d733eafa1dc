----------------------------- MODULE RequestJob -----------------------------
(***************************************************************************)
(* What a RabbitMQ consumer of the AI server promises the backend, with no *)
(* broker, tracker or task in sight: a request message ends as "done" or   *)
(* "failed" and stays so, and "done" is only ever claimed of a request     *)
(* whose result was produced.  A result may appear without, or after, the  *)
(* verdict: the promise is at-least-once.                                  *)
(***************************************************************************)
CONSTANTS Events,     \* identities of requests (eventId)
          Messages,   \* copies of requests; several may carry one event
          EventOf     \* the event each message carries

VARIABLES status,     \* status[m]: the verdict on message m
          results     \* events whose result was produced

jobVars == <<status, results>>

Statuses == {"absent", "pending", "done", "failed"}

JobTypeOK == /\ status \in [Messages -> Statuses]
             /\ results \in SUBSET Events

JobInit == /\ status = [m \in Messages |-> "absent"]
           /\ results = {}

Submit(m) == /\ status[m] = "absent"
             /\ status' = [status EXCEPT ![m] = "pending"]
             /\ UNCHANGED results

\* A result is produced only on request.
Produce(m) == /\ status[m] # "absent"
              /\ results' = results \cup {EventOf[m]}
              /\ UNCHANGED status

Complete(m) == /\ status[m] = "pending"
               /\ EventOf[m] \in results
               /\ status' = [status EXCEPT ![m] = "done"]
               /\ UNCHANGED results

GiveUp(m) == /\ status[m] = "pending"
             /\ status' = [status EXCEPT ![m] = "failed"]
             /\ UNCHANGED results

JobNext == \E m \in Messages : Submit(m) \/ Produce(m) \/ Complete(m) \/ GiveUp(m)

JobSpec == JobInit /\ [][JobNext]_jobVars
=============================================================================
