------------------------------ MODULE Webhooks ------------------------------
(***************************************************************************)
(* The server's GitHub webhook (github_webhook, record_webhook): requests  *)
(* of one server process, which share a set of deliveries behind a mutex.  *)
(*                                                                         *)
(* A request enters its delivery into the set, looks for it in the signed  *)
(* ledger and appends it there; the mutex is held until it has answered.   *)
(* A request that fails takes the delivery out of the set again.  The      *)
(* process may die at any moment: the ledger stays, the set does not.      *)
(*                                                                         *)
(* Requests that are refused before the mutex (a bad signature, a body     *)
(* that cannot be parsed, an unknown repository) change nothing and are    *)
(* left out.  The forge sends a delivery again until it is answered.       *)
(***************************************************************************)
EXTENDS OnceLog, FiniteSets

CONSTANTS
    Requests,       \* slots for requests in flight
    MaxTrouble,     \* bound on failed requests and deaths of the process
    MaxRepeat       \* bound on deliveries of what was answered already

VARIABLES
    deliveries,     \* github_deliveries: the process-local retry set
    mutex,          \* the request that holds it: {} or {request}
    step,           \* where each request is
    delivery,       \* what it carries: {} or {delivery}
    trouble,
    repeats

served == <<deliveries, mutex, step, delivery>>
webhookVars == <<onceVars, served, trouble, repeats>>

ASSUME WebhookAssumption == MaxTrouble \in Nat /\ MaxRepeat \in Nat

WebhookInit ==
    /\ OnceInit
    /\ deliveries = {} /\ mutex = {}
    /\ step = [r \in Requests |-> "free"]
    /\ delivery = [r \in Requests |-> {}]
    /\ trouble = 0 /\ repeats = 0

To(r, s) == step' = [step EXCEPT ![r] = s]

Finish(r) ==
    /\ mutex' = {}
    /\ delivery' = [delivery EXCEPT ![r] = {}]
    /\ To(r, "free")

\* A signed, well-formed request arrives.
Receive(r, d) ==
    /\ step[r] = "free"
    /\ d \in confirmed => repeats < MaxRepeat
    /\ repeats' = IF d \in confirmed THEN repeats + 1 ELSE repeats
    /\ delivery' = [delivery EXCEPT ![r] = {d}]
    /\ To(r, "received")
    /\ UNCHANGED <<onceVars, deliveries, mutex, trouble>>

\* The mutex; a delivery in the set is answered as done.
LockDeliveries(r) ==
    /\ step[r] = "received"
    /\ mutex = {}
    /\ mutex' = {r}
    /\ deliveries' = deliveries \cup delivery[r]
    /\ To(r, IF delivery[r] \subseteq deliveries THEN "answer" ELSE "locked")
    /\ UNCHANGED <<onceVars, delivery, trouble, repeats>>

\* Taking a delivery that an earlier process recorded for an error.
ReadLedgerRefusing(r) ==
    /\ step[r] = "locked"
    /\ To(r, IF delivery[r] \subseteq Recorded THEN "failed" ELSE "append")
    /\ UNCHANGED <<onceVars, deliveries, mutex, delivery, trouble, repeats>>

\* record_webhook: the ledger may hold the delivery from an earlier process.
ReadLedger(r) ==
    /\ step[r] = "locked"
    /\ To(r, IF delivery[r] \subseteq Recorded THEN "answer" ELSE "append")
    /\ UNCHANGED <<onceVars, deliveries, mutex, delivery, trouble, repeats>>

\* The event is signed and appended.
AppendWebhook(r) ==
    /\ step[r] = "append"
    /\ \E d \in delivery[r] : events' = Append(events, d)
    /\ To(r, "answer")
    /\ UNCHANGED <<confirmed, deliveries, mutex, delivery, trouble, repeats>>

\* The ledger cannot be read, the key not be loaded or the event not be stored.
FailRequest(r) ==
    /\ step[r] \in {"locked", "append"}
    /\ trouble < MaxTrouble
    /\ trouble' = trouble + 1
    /\ To(r, "failed")
    /\ UNCHANGED <<onceVars, deliveries, mutex, delivery, repeats>>

\* Service unavailable, with the delivery left in the retry set.
RefuseForgotten(r) ==
    /\ step[r] = "failed"
    /\ Finish(r)
    /\ UNCHANGED <<onceVars, deliveries, trouble, repeats>>

\* Service unavailable: the delivery is taken out of the set.
Refuse(r) ==
    /\ step[r] = "failed"
    /\ deliveries' = deliveries \ delivery[r]
    /\ Finish(r)
    /\ UNCHANGED <<onceVars, trouble, repeats>>

\* No content for a duplicate, Accepted for a new event.
Answer(r) ==
    /\ step[r] = "answer"
    /\ confirmed' = confirmed \cup delivery[r]
    /\ Finish(r)
    /\ UNCHANGED <<events, deliveries, trouble, repeats>>

\* The process dies and is started again.
Restart ==
    /\ trouble < MaxTrouble
    /\ trouble' = trouble + 1
    /\ deliveries' = {} /\ mutex' = {}
    /\ step' = [r \in Requests |-> "free"]
    /\ delivery' = [r \in Requests |-> {}]
    /\ UNCHANGED <<onceVars, repeats>>

Work(r) == LockDeliveries(r) \/ ReadLedger(r) \/ AppendWebhook(r) \/ Refuse(r) \/ Answer(r)

WebhookNext ==
    \/ \E r \in Requests :
        \/ \E d \in Deliveries : Receive(r, d)
        \/ LockDeliveries(r) \/ ReadLedger(r) \/ AppendWebhook(r) \/ FailRequest(r)
        \/ Refuse(r) \/ Answer(r)
    \/ Restart

\* The server runs what it has received; the forge delivers again what it has no
\* success for.
Redeliver(d) == d \notin confirmed /\ \E r \in Requests : Receive(r, d)

WebhookSpec ==
    /\ WebhookInit /\ [][WebhookNext]_webhookVars
    /\ \A r \in Requests : WF_webhookVars(Work(r))
    /\ \A d \in Deliveries : WF_webhookVars(Redeliver(d))

-----------------------------------------------------------------------------
\* The endpoint keeps the promise of OnceLog, whatever fails, dies or is
\* delivered again: one ledger event for a delivery, and none acknowledged that
\* the ledger does not hold.
RecordsOnce == OnceSpec

\* Every delivery that has arrived is answered with success in the end, also the
\* one whose process died after recording it: a retry is recognised, not refused.
EveryDeliveryAcknowledged ==
    \A d \in Deliveries : (\E r \in Requests : d \in delivery[r]) ~> d \in confirmed
=============================================================================
