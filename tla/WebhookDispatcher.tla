-------------------------- MODULE WebhookDispatcher --------------------------
(***************************************************************************)
(* The outbound webhook queue: the transactional outbox that appends one   *)
(* row per subscribed Destination (services/webhooks/delivery.ts and       *)
(* outbox.ts), the per-Destination drain that sends the rows in `seq`      *)
(* order (services/webhooks/dispatcher.ts), and the staff routes that      *)
(* pause, delete, ping and requeue (routes/admin.ts).                      *)
(*                                                                         *)
(* The database is one SQLite connection, so a statement or a transaction  *)
(* is one step.  A drain is an asynchronous function: it is cut where it   *)
(* awaits, and any other step may come in between.                         *)
(***************************************************************************)
EXTENDS Naturals, FiniteSets

CONSTANTS
    Dest,        \* the WebhookDestination rows that exist when the run starts
    Drainers,    \* drain promises that may be alive at the same time
    MaxSeq,      \* bound: rows one Destination ever gets
    Legacy,      \* rows each Destination already holds at start-up
    MaxFaults,   \* bound: crashes, outages and database errors in one behaviour
    MaxRequeues  \* bound: requeue requests in one behaviour

ASSUME ConstantsAssumption ==
    /\ MaxSeq \in Nat /\ Legacy \in 0..MaxSeq /\ MaxFaults \in Nat /\ MaxRequeues \in Nat

Seqs == 1..MaxSeq
NoRow == 0

VARIABLES
    dest,       \* [Dest -> {"active", "paused", "deleted"}]
    lastSeq,    \* WebhookDestinationSeq.seq
    row,        \* WebhookDelivery.status, "NONE" when there is no such row
    body,       \* what the stored payload is: parseable, damaged, never built
    due,        \* next_attempt_at has passed
    pc,         \* where each drain promise stands
    job,        \* what it works on: Destination, row, outcome of the attempt
    inflight,   \* keys of the inflight map
    rerun,      \* the rerun set
    waking,     \* Destinations some caller is about to wake
    requeuing,  \* the row a single-row requeue request has read as FAILED
    up,         \* the endpoint answers
    delivered,  \* history: the rows the endpoint accepted at least once
    requeued,   \* history: the rows staff put back in the queue
    excused,    \* history: only the safety tick can restart this Destination
    faults,     \* faults so far
    requests    \* requeue requests so far

dbVars == <<dest, lastSeq, row, body, due>>
memVars == <<pc, job, inflight, rerun, waking, requeuing>>
envVars == <<up, delivered, requeued, excused, faults, requests>>
vars == <<dest, lastSeq, row, body, due, pc, job, inflight, rerun, waking,
          requeuing, up, delivered, requeued, excused, faults, requests>>

Work(d, s, res) == [d |-> d, s |-> s, res |-> res]
Idle == Work("none", NoRow, "none")

TypeOK ==
    /\ dest \in [Dest -> {"active", "paused", "deleted"}]
    /\ lastSeq \in [Dest -> 0..MaxSeq]
    /\ row \in [Dest -> [Seqs -> {"NONE", "PENDING", "SUCCESS", "FAILED"}]]
    /\ body \in [Dest -> [Seqs -> {"json", "damaged", "unbuilt"}]]
    /\ due \in [Dest -> [Seqs -> BOOLEAN]]
    /\ pc \in [Drainers -> {"idle", "query", "send", "save", "passEnd"}]
    /\ job \in [Drainers -> [d : Dest \cup {"none"}, s : 0..MaxSeq,
                             res : {"none", "ok", "fail", "bad"}]]
    /\ \A k \in Drainers : /\ pc[k] # "idle" => job[k].d \in Dest
                           /\ pc[k] \in {"send", "save"} => job[k].s \in Seqs
    /\ inflight \subseteq Dest /\ rerun \subseteq Dest /\ waking \subseteq Dest
    /\ requeuing \in [Dest -> 0..MaxSeq]
    /\ up \in [Dest -> BOOLEAN]
    /\ delivered \in [Dest -> SUBSET Seqs]
    /\ requeued \in [Dest -> SUBSET Seqs]
    /\ excused \subseteq Dest
    /\ faults \in 0..MaxFaults
    /\ requests \in 0..MaxRequeues

(***************************************************************************)
(* Start-up on a database that already holds rows: the message_id          *)
(* migration copies every row with its status, so rows the older code      *)
(* FAILED after five attempts are here with a good payload.                *)
(***************************************************************************)
Init ==
    /\ dest = [d \in Dest |-> "active"]
    /\ lastSeq = [d \in Dest |-> Legacy]
    /\ \E st \in [Dest -> [1..Legacy -> {"PENDING", "FAILED"}]] :
          row = [d \in Dest |-> [s \in Seqs |-> IF s <= Legacy THEN st[d][s] ELSE "NONE"]]
    /\ \E pl \in [Dest -> [1..Legacy -> {"json", "damaged"}]] :
          body = [d \in Dest |-> [s \in Seqs |-> IF s <= Legacy THEN pl[d][s] ELSE "json"]]
    /\ due = [d \in Dest |-> [s \in Seqs |-> TRUE]]
    /\ pc = [k \in Drainers |-> "idle"]
    /\ job = [k \in Drainers |-> Idle]
    /\ inflight = {} /\ rerun = {}
    /\ waking = Dest                      \* startWebhookDispatcher wakes at once
    /\ requeuing = [d \in Dest |-> NoRow]
    /\ up = [d \in Dest |-> TRUE]
    /\ delivered = [d \in Dest |-> {}]
    /\ requeued = [d \in Dest |-> {}]
    /\ excused = {}
    /\ faults = 0 /\ requests = 0

Exists(d) == dest[d] # "deleted"
Pending(d) == {s \in Seqs : row[d][s] = "PENDING"}

\* Mutant: the head query filters on next_attempt_at, as it did before ADR-0007.
IsHead_DueOnly(d, s) ==
    /\ s \in Pending(d) /\ due[d][s]
    /\ \A t \in Pending(d) : due[d][t] => s <= t

\* The head: lowest `seq` that is PENDING, with no filter on next_attempt_at.
IsHead(d, s) == s \in Pending(d) /\ \A t \in Pending(d) : s <= t

-----------------------------------------------------------------------------
(* The outbox: rows commit with the change that caused them.               *)

\* enqueueDelivery: next `seq` and its row, for every Destination of D.
Enqueue(D, st, pl) ==
    /\ \A d \in D : lastSeq[d] < MaxSeq
    /\ lastSeq' = [d \in Dest |-> IF d \in D THEN lastSeq[d] + 1 ELSE lastSeq[d]]
    /\ row' = [d \in Dest |-> IF d \in D
                              THEN [row[d] EXCEPT ![lastSeq[d] + 1] = st] ELSE row[d]]
    /\ body' = [d \in Dest |-> IF d \in D
                               THEN [body[d] EXCEPT ![lastSeq[d] + 1] = pl] ELSE body[d]]
    /\ due' = [d \in Dest |-> IF d \in D
                              THEN [due[d] EXCEPT ![lastSeq[d] + 1] = TRUE] ELSE due[d]]

\* withWebhooks around a change whose message type D is subscribed to; paused
\* Destinations get nothing.  After the commit the caller wakes D.
Emit(D) ==
    /\ D # {} /\ \A d \in D : dest[d] = "active"
    /\ \/ Enqueue(D, "PENDING", "json")
       \/ Enqueue(D, "FAILED", "unbuilt")         \* the payload builder threw
    /\ waking' = waking \cup D
    /\ UNCHANGED <<dest, pc, job, inflight, rerun, requeuing, envVars>>

\* POST /destinations/:id/test queues a ping, on a paused Destination too.
Ping(d) ==
    /\ Exists(d)
    /\ Enqueue({d}, "PENDING", "json")
    /\ waking' = waking \cup {d}
    /\ UNCHANGED <<dest, pc, job, inflight, rerun, requeuing, envVars>>

-----------------------------------------------------------------------------
(* The drain.                                                              *)

\* Mutant: overlapping ticks each start a drain.
Joins_Never(d) == FALSE

\* A drain of d is in flight, so the wake joins it.
Joins(d) == d \in inflight

\* Mutant: the finally block is missing.
Released_Never(d) == inflight

Released(d) == inflight \ {d}

\* Mutant: a wake during a drain is dropped.
RunsAgain_Never(d) == FALSE

\* The do/while condition.
RunsAgain(d) == d \in rerun

\* drainDestination: join the running drain and ask for one more pass, or start one.
Wake(d) ==
    /\ d \in waking
    /\ waking' = waking \ {d}
    /\ IF Joins(d)
       THEN /\ rerun' = rerun \cup {d}
            /\ UNCHANGED <<pc, job, inflight, excused>>
       ELSE \E k \in Drainers :
            /\ pc[k] = "idle"
            /\ pc' = [pc EXCEPT ![k] = "query"]
            /\ job' = [job EXCEPT ![k] = Work(d, NoRow, "none")]
            /\ inflight' = inflight \cup {d}
            /\ rerun' = rerun \ {d}
            /\ excused' = excused \ {d}
    /\ UNCHANGED <<dbVars, requeuing, up, delivered, requeued, faults, requests>>

\* drainOnce reads the head and, from that snapshot, decides what to do with it.
FindHead(k) ==
    LET d == job[k].d IN
    /\ pc[k] = "query"
    /\ \/ \E s \in Seqs :
          /\ IsHead(d, s) /\ dest[d] = "active" /\ due[d][s]
          /\ IF body[d][s] = "json"
             THEN /\ pc' = [pc EXCEPT ![k] = "send"]
                  /\ job' = [job EXCEPT ![k] = Work(d, s, "none")]
             ELSE /\ pc' = [pc EXCEPT ![k] = "save"]
                  /\ job' = [job EXCEPT ![k] = Work(d, s, "bad")]
       \/ /\ ~\E s \in Seqs : IsHead(d, s) /\ dest[d] = "active" /\ due[d][s]
          /\ pc' = [pc EXCEPT ![k] = "passEnd"]
          /\ UNCHANGED job
    /\ UNCHANGED <<dbVars, inflight, rerun, waking, requeuing, envVars>>

\* deliver.  An endpoint in trouble fails the attempt, and may have taken the
\* message all the same: its answer or its publisher confirm came too late.
Send(k) ==
    LET d == job[k].d
        s == job[k].s
        accepted == [delivered EXCEPT ![d] = @ \cup {s}]
    IN
    /\ pc[k] = "send"
    /\ pc' = [pc EXCEPT ![k] = "save"]
    /\ \/ /\ up[d]
          /\ job' = [job EXCEPT ![k] = Work(d, s, "ok")]
          /\ delivered' = accepted
       \/ /\ ~up[d]
          /\ job' = [job EXCEPT ![k] = Work(d, s, "fail")]
          /\ delivered' \in {delivered, accepted}
    /\ UNCHANGED <<dbVars, inflight, rerun, waking, requeuing, up, requeued,
                   excused, faults, requests>>

\* Mutant: an outage is a failure, as it was before ADR-0007.
StatusAfter_GivesUp(res) ==
    IF res = "ok" THEN "SUCCESS" ELSE "FAILED"

\* Mutant: a retry gets a status no query knows.
StatusAfter_Retrying(res) ==
    IF res = "ok" THEN "SUCCESS" ELSE IF res = "bad" THEN "FAILED" ELSE "RETRYING"

StatusAfter(res) ==
    IF res = "ok" THEN "SUCCESS" ELSE IF res = "bad" THEN "FAILED" ELSE "PENDING"

\* The update that records the attempt; an endpoint failure ends the pass.
Save(k) ==
    LET d == job[k].d
        s == job[k].s
        res == job[k].res
    IN
    /\ pc[k] = "save"
    /\ row[d][s] # "NONE"
    /\ row' = [row EXCEPT ![d][s] = StatusAfter(res)]
    /\ due' = [due EXCEPT ![d][s] = IF res = "fail" THEN FALSE ELSE @]
    /\ pc' = [pc EXCEPT ![k] = IF res = "fail" THEN "passEnd" ELSE "query"]
    /\ job' = [job EXCEPT ![k] = Work(d, NoRow, "none")]
    /\ UNCHANGED <<dest, lastSeq, body, inflight, rerun, waking, requeuing, envVars>>

\* The do/while test and, when no wake came in, the finally block.
PassEnd(k) ==
    LET d == job[k].d IN
    /\ pc[k] = "passEnd"
    /\ IF RunsAgain(d)
       THEN /\ rerun' = rerun \ {d}
            /\ pc' = [pc EXCEPT ![k] = "query"]
            /\ UNCHANGED <<job, inflight>>
       ELSE /\ inflight' = Released(d)
            /\ pc' = [pc EXCEPT ![k] = "idle"]
            /\ job' = [job EXCEPT ![k] = Idle]
            /\ UNCHANGED rerun
    /\ UNCHANGED <<dbVars, waking, requeuing, envVars>>

\* The drain promise rejects: only `finally` runs, a requested rerun is forgotten.
Reject(k) ==
    /\ inflight' = Released(job[k].d)
    /\ pc' = [pc EXCEPT ![k] = "idle"]
    /\ job' = [job EXCEPT ![k] = Idle]
    /\ excused' = excused \cup {job[k].d}
    /\ UNCHANGED <<dbVars, rerun, waking, requeuing, up, delivered, requeued, requests>>

\* The row is gone, deleted with its Destination while the attempt was out.
SaveMissingRow(k) ==
    /\ pc[k] = "save" /\ row[job[k].d][job[k].s] = "NONE"
    /\ Reject(k)
    /\ UNCHANGED faults

\* A statement of the drain fails (a connection-pool timeout under load).
DbError(k) ==
    /\ pc[k] \in {"query", "save"}
    /\ faults < MaxFaults /\ faults' = faults + 1
    /\ Reject(k)

-----------------------------------------------------------------------------
(* Timers.                                                                 *)

\* next_attempt_at passes for a row that is backing off.
BackoffElapses(d, s) ==
    /\ ~due[d][s]
    /\ due' = [due EXCEPT ![d][s] = TRUE]
    /\ excused' = excused \cup {d}
    /\ UNCHANGED <<dest, lastSeq, row, body, memVars, up, delivered, requeued, faults, requests>>

\* wakeDispatcher(): the five-second safety tick, and the wake at start-up.
SafetyTick ==
    /\ waking' = waking \cup {d \in Dest : dest[d] = "active"}
    /\ UNCHANGED <<dbVars, pc, job, inflight, rerun, requeuing, envVars>>

Sweepable(d, st) == {s \in Seqs : row[d][s] = st}

\* sweepRetention: one deleteMany per status, of the rows past that status's age.
Sweep(d) ==
    /\ \E st \in {"SUCCESS", "FAILED"} : \E old \in SUBSET Sweepable(d, st) :
          row' = [row EXCEPT ![d] = [s \in Seqs |-> IF s \in old THEN "NONE" ELSE @[s]]]
    /\ UNCHANGED <<dest, lastSeq, body, due, memVars, envVars>>

-----------------------------------------------------------------------------
(* Staff routes.                                                           *)

\* PUT /destinations/:id; wakes the Destination when it ends up active.
SetActive(d, on) ==
    /\ Exists(d)
    /\ dest' = [dest EXCEPT ![d] = IF on THEN "active" ELSE "paused"]
    /\ waking' = IF on THEN waking \cup {d} ELSE waking
    /\ UNCHANGED <<lastSeq, row, body, due, pc, job, inflight, rerun, requeuing, envVars>>

\* DELETE /destinations/:id cascades to its rows and its counter.
Delete(d) ==
    /\ Exists(d)
    /\ dest' = [dest EXCEPT ![d] = "deleted"]
    /\ row' = [row EXCEPT ![d] = [s \in Seqs |-> "NONE"]]
    /\ UNCHANGED <<lastSeq, body, due, memVars, envVars>>

Requeueable(d) == {s \in Seqs : row[d][s] = "FAILED" /\ body[d][s] # "unbuilt"}

\* requeueData, written to the rows of S.
PutBack(d, S) ==
    /\ row' = [row EXCEPT ![d] = [s \in Seqs |-> IF s \in S THEN "PENDING" ELSE @[s]]]
    /\ due' = [due EXCEPT ![d] = [s \in Seqs |-> IF s \in S THEN TRUE ELSE @[s]]]
    /\ requeued' = [requeued EXCEPT ![d] = @ \cup S]
    /\ waking' = waking \cup {d}

\* POST .../deliveries/:deliveryId/requeue, the checks ...
RequeueRead(d, s) ==
    /\ requests < MaxRequeues /\ requests' = requests + 1
    /\ requeuing[d] = NoRow
    /\ s \in Requeueable(d)
    /\ requeuing' = [requeuing EXCEPT ![d] = s]
    /\ UNCHANGED <<dbVars, pc, job, inflight, rerun, waking, up, delivered, requeued,
                   excused, faults>>

\* ... and the update by id, which looks at nothing the checks looked at.
RequeueWrite(d) ==
    /\ requeuing[d] # NoRow
    /\ requeuing' = [requeuing EXCEPT ![d] = NoRow]
    /\ IF row[d][requeuing[d]] # "NONE"
       THEN PutBack(d, {requeuing[d]})
       ELSE UNCHANGED <<row, due, requeued, waking>>
    /\ UNCHANGED <<dest, lastSeq, body, pc, job, inflight, rerun,
                   up, delivered, excused, faults, requests>>

\* POST /destinations/:id/requeue-failed is a single updateMany.
RequeueFailed(d) ==
    /\ requests < MaxRequeues /\ requests' = requests + 1
    /\ Exists(d)
    /\ PutBack(d, Requeueable(d))
    /\ UNCHANGED <<dest, lastSeq, body, pc, job, inflight, rerun, requeuing,
                   up, delivered, excused, faults>>

-----------------------------------------------------------------------------
(* The world.                                                              *)

\* The process dies and restarts: the tables survive, every promise is gone.
Crash ==
    /\ faults < MaxFaults /\ faults' = faults + 1
    /\ pc' = [k \in Drainers |-> "idle"]
    /\ job' = [k \in Drainers |-> Idle]
    /\ inflight' = {} /\ rerun' = {} /\ waking' = {}
    /\ requeuing' = [d \in Dest |-> NoRow]
    /\ excused' = Dest
    /\ UNCHANGED <<dbVars, up, delivered, requeued, requests>>

Outage(d) ==
    /\ up[d] /\ faults < MaxFaults /\ faults' = faults + 1
    /\ up' = [up EXCEPT ![d] = FALSE]
    /\ UNCHANGED <<dbVars, memVars, delivered, requeued, excused, requests>>

Recovery(d) ==
    /\ ~up[d]
    /\ up' = [up EXCEPT ![d] = TRUE]
    /\ UNCHANGED <<dbVars, memVars, delivered, requeued, excused, faults, requests>>

-----------------------------------------------------------------------------
DrainStep(k) == FindHead(k) \/ Send(k) \/ Save(k) \/ PassEnd(k) \/ SaveMissingRow(k)

Next ==
    \/ \E D \in SUBSET Dest : Emit(D)
    \/ \E k \in Drainers : DrainStep(k) \/ DbError(k)
    \/ \E d \in Dest :
          \/ Ping(d) \/ Wake(d) \/ Sweep(d) \/ Delete(d)
          \/ RequeueWrite(d) \/ RequeueFailed(d) \/ Outage(d) \/ Recovery(d)
          \/ \E on \in BOOLEAN : SetActive(d, on)
          \/ \E s \in Seqs : BackoffElapses(d, s) \/ RequeueRead(d, s)
    \/ SafetyTick
    \/ Crash

Spec == Init /\ [][Next]_vars

(***************************************************************************)
(* Weak fairness on what the process does by itself: promises run to       *)
(* their next await, timers fire, and a caller that committed reaches its  *)
(* wake.  None on staff, on traffic, on faults or on the endpoint.         *)
(***************************************************************************)
Fairness ==
    /\ \A k \in Drainers : WF_vars(DrainStep(k))
    /\ \A d \in Dest : WF_vars(Wake(d)) /\ \A s \in Seqs : WF_vars(BackoffElapses(d, s))
    /\ WF_vars(SafetyTick)

FairSpec == Spec /\ Fairness

-----------------------------------------------------------------------------
Busy(k) == pc[k] # "idle"

\* ADR-0007 decision 5, "one in-flight drain per Destination": no two drain
\* promises ever work on the same Destination.
SingleFlight ==
    \A k1, k2 \in Drainers : k1 # k2 /\ Busy(k1) /\ Busy(k2) => job[k1].d # job[k2].d

\* ADR-0007 decision 2, strict FIFO with a stall: once the endpoint has taken a
\* row, no row before it is still waiting, unless staff requeued that one.
NoOvertaking ==
    \A d \in Dest : \A s \in delivered[d] : \A t \in Pending(d) :
        t < s => t \in requeued[d]

\* "Dropping a message is never acceptable": a row queued with a sound payload is
\* waiting or was accepted, whatever crashes, sweeps and requeues did.
NothingLost ==
    \A d \in Dest : Exists(d) =>
        \A s \in (Legacy + 1)..lastSeq[d] :
            body[d][s] = "json" => row[d][s] = "PENDING" \/ s \in delivered[d]

\* While an attempt is out its row stays PENDING (or goes with its Destination):
\* no sweep, requeue or other drain settles a row under the drain that sends it.
AttemptOwnsRow ==
    \A k \in Drainers : pc[k] \in {"send", "save"} =>
        \/ row[job[k].d][job[k].s] = "PENDING"
        \/ dest[job[k].d] = "deleted"

\* ADR-0007 decision 5, a wake during a drain "is not lost": a due head of an
\* active Destination has a drain running, a wake on its way, or has just had a
\* crash, a rejected drain or a backoff, for which the safety tick exists.
NoLostWake ==
    \A d \in Dest :
        dest[d] = "active" /\ (\E s \in Seqs : IsHead(d, s) /\ due[d][s]) =>
            d \in inflight \/ d \in waking \/ d \in excused

(***************************************************************************)
(* The inductive strengthening of the invariants above.                    *)
(***************************************************************************)

\* A busy drain holds the inflight entry of its Destination, and holds it alone.
FlightInv ==
    /\ \A k \in Drainers : Busy(k) => job[k].d \in inflight
    /\ SingleFlight

\* Rows have numbers the counter has given out; a deleted Destination has none.
RowInv ==
    \A d \in Dest :
        /\ \A s \in Seqs : row[d][s] # "NONE" => s <= lastSeq[d] /\ Exists(d)
        /\ \A s \in delivered[d] : s <= lastSeq[d]

\* The attempt a drain is making, from reading the head to recording the outcome:
\* its row still waits, nothing older waits that was not put back meanwhile, and
\* the outcome it is about to record is what happened.
AttemptOK(k) ==
    LET d == job[k].d
        s == job[k].s
    IN  /\ s <= lastSeq[d]
        /\ row[d][s] = "PENDING" \/ ~Exists(d)
        /\ \A t \in Pending(d) : t < s => t \in requeued[d]
        /\ pc[k] = "send" => body[d][s] = "json"
        /\ pc[k] = "save" => \/ job[k].res = "bad" /\ body[d][s] # "json"
                             \/ job[k].res = "ok" /\ s \in delivered[d]
                             \/ job[k].res = "fail"

AttemptInv == \A k \in Drainers : pc[k] \in {"send", "save"} => AttemptOK(k)

QueueInv == RowInv /\ AttemptInv /\ NoOvertaking /\ NothingLost

\* A drain of d that still looks at the head before it ends its pass.
Looking(d) ==
    \E k \in Drainers : pc[k] \in {"query", "send", "save"} /\ job[k].d = d

\* The wake a Destination can count on: a due head has a drain that will still look
\* at it; and when a row older than the one being tried waits, its wake is on the
\* way, because the failure of this attempt ends the pass with a head that is due.
WakeInv ==
    /\ \A d \in Dest :
          dest[d] = "active" /\ (\E s \in Seqs : IsHead(d, s) /\ due[d][s]) =>
              \/ d \in waking \/ d \in excused
              \/ d \in inflight /\ (d \in rerun \/ Looking(d))
    /\ \A k \in Drainers :
          pc[k] \in {"send", "save"} /\ (\E t \in Pending(job[k].d) : t < job[k].s) =>
              job[k].d \in waking \cup excused \cup rerun

\* The requeue route says "Only FAILED deliveries can be requeued": no step puts
\* a delivered row back in the queue.  It does not hold (README, divergences).
OnlyFailedRequeued ==
    [][\A d \in Dest : \A s \in Seqs :
          row[d][s] = "SUCCESS" => row'[d][s] # "PENDING"]_vars

(***************************************************************************)
(* The dispatcher implements the queue a consumer is promised.             *)
(***************************************************************************)
Queue == INSTANCE WebhookQueue WITH
    open <- {d \in Dest : Exists(d)},
    last <- lastSeq,
    sound <- [d \in Dest |-> {s \in Seqs : body[d][s] = "json"}],
    wait <- [d \in Dest |-> Pending(d)],
    accepted <- delivered,
    again <- requeued

\* docs/outbound-events.md: every step of the outbox, of a drain and of staff is
\* a step of the per-Destination at-least-once FIFO queue, or invisible to it.
ImplementsQueue == Queue!Spec

\* Endpoint failures retry for ever and a stall ends by itself: when a Destination
\* stays active and its endpoint stays healthy, every waiting row is settled.
QueueDrains ==
    \A d \in Dest :
        <>[](dest[d] = "active" /\ up[d]) =>
            \A s \in Seqs : [](row[d][s] = "PENDING" => <>(row[d][s] # "PENDING"))
=============================================================================
