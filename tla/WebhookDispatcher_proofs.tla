---------------------- MODULE WebhookDispatcher_proofs ----------------------
(***************************************************************************)
(* Proofs about WebhookDispatcher for every set of Destinations, every     *)
(* number of drain promises and every bound.                               *)
(***************************************************************************)
EXTENDS WebhookDispatcher, TLAPS

\* The steps of Next one by one, which the step proofs split on.
LEMMA NextCases ==
    ASSUME NEW P, [Next]_vars,
           \A D \in SUBSET Dest : Emit(D) => P,
           \A k \in Drainers : FindHead(k) => P,
           \A k \in Drainers : Send(k) => P,
           \A k \in Drainers : Save(k) => P,
           \A k \in Drainers : PassEnd(k) => P,
           \A k \in Drainers : SaveMissingRow(k) => P,
           \A k \in Drainers : DbError(k) => P,
           \A d \in Dest : Ping(d) => P,
           \A d \in Dest : Wake(d) => P,
           \A d \in Dest : Sweep(d) => P,
           \A d \in Dest : Delete(d) => P,
           \A d \in Dest : RequeueWrite(d) => P,
           \A d \in Dest : RequeueFailed(d) => P,
           \A d \in Dest : Outage(d) => P,
           \A d \in Dest : Recovery(d) => P,
           \A d \in Dest, on \in BOOLEAN : SetActive(d, on) => P,
           \A d \in Dest, s \in Seqs : BackoffElapses(d, s) => P,
           \A d \in Dest, s \in Seqs : RequeueRead(d, s) => P,
           SafetyTick => P,
           Crash => P,
           UNCHANGED vars => P
    PROVE  P
  BY DEF Next, DrainStep

LEMMA EnqueueTypes ==
    ASSUME TypeOK, NEW D \in SUBSET Dest, NEW st \in {"PENDING", "FAILED"},
           NEW pl \in {"json", "unbuilt"}, Enqueue(D, st, pl)
    PROVE  /\ lastSeq' \in [Dest -> 0..MaxSeq]
           /\ row' \in [Dest -> [Seqs -> {"NONE", "PENDING", "SUCCESS", "FAILED"}]]
           /\ body' \in [Dest -> [Seqs -> {"json", "damaged", "unbuilt"}]]
           /\ due' \in [Dest -> [Seqs -> BOOLEAN]]
  BY ConstantsAssumption DEF TypeOK, Enqueue, Seqs

LEMMA PutBackTypes ==
    ASSUME TypeOK, NEW d \in Dest, NEW S \in SUBSET Seqs, PutBack(d, S)
    PROVE  /\ row' \in [Dest -> [Seqs -> {"NONE", "PENDING", "SUCCESS", "FAILED"}]]
           /\ due' \in [Dest -> [Seqs -> BOOLEAN]]
           /\ requeued' \in [Dest -> SUBSET Seqs]
           /\ waking' \subseteq Dest
<1>1. row' \in [Dest -> [Seqs -> {"NONE", "PENDING", "SUCCESS", "FAILED"}]]
  BY DEF TypeOK, PutBack
<1>2. due' \in [Dest -> [Seqs -> BOOLEAN]]
  <2>1. due \in [Dest -> [Seqs -> BOOLEAN]]
    BY DEF TypeOK
  <2>2. [s \in Seqs |-> IF s \in S THEN TRUE ELSE due[d][s]] \in [Seqs -> BOOLEAN]
    BY <2>1
  <2> QED
    BY <2>1, <2>2 DEF PutBack
<1>3. requeued' \in [Dest -> SUBSET Seqs]
  BY DEF TypeOK, PutBack
<1> QED
  BY <1>1, <1>2, <1>3 DEF TypeOK, PutBack

LEMMA RejectTypes ==
    ASSUME TypeOK, NEW k \in Drainers, pc[k] # "idle", Reject(k),
           faults' \in 0..MaxFaults
    PROVE  TypeOK'
<1>1. job[k].d \in Dest
  BY DEF TypeOK
<1>2. job' \in [Drainers -> [d : Dest \cup {"none"}, s : 0..MaxSeq,
                             res : {"none", "ok", "fail", "bad"}]]
  BY ConstantsAssumption DEF TypeOK, Reject, Idle, Work, NoRow
<1>3. pc' \in [Drainers -> {"idle", "query", "send", "save", "passEnd"}]
  BY DEF TypeOK, Reject
<1>4. \A j \in Drainers : /\ pc'[j] # "idle" => job'[j].d \in Dest
                          /\ pc'[j] \in {"send", "save"} => job'[j].s \in Seqs
  BY DEF TypeOK, Reject
<1>5. inflight' \subseteq Dest /\ excused' \subseteq Dest
  BY <1>1 DEF TypeOK, Reject, Released
<1> QED
  BY <1>2, <1>3, <1>4, <1>5 DEF TypeOK, Reject, dbVars

LEMMA TypeInit == Init => TypeOK
  BY ConstantsAssumption DEF Init, TypeOK, Seqs, NoRow, Idle, Work

LEMMA TypeStep ==
    ASSUME TypeOK, [Next]_vars
    PROVE  TypeOK'
<1> USE ConstantsAssumption
<1> DEFINE JobOK(k) == /\ pc[k] # "idle" => job[k].d \in Dest
                       /\ pc[k] \in {"send", "save"} => job[k].s \in Seqs
           JobType == [d : Dest \cup {"none"}, s : 0..MaxSeq,
                       res : {"none", "ok", "fail", "bad"}]
           PcType == {"idle", "query", "send", "save", "passEnd"}
<1>1. \A D \in SUBSET Dest : Emit(D) => TypeOK'
  <2> SUFFICES ASSUME NEW D \in SUBSET Dest, Emit(D) PROVE TypeOK'
    OBVIOUS
  <2>1. PICK st \in {"PENDING", "FAILED"}, pl \in {"json", "unbuilt"} : Enqueue(D, st, pl)
    BY DEF Emit
  <2> QED
    BY <2>1, EnqueueTypes DEF Emit, TypeOK, envVars
<1>2. \A k \in Drainers : FindHead(k) => TypeOK'
  <2> SUFFICES ASSUME NEW k \in Drainers, FindHead(k) PROVE TypeOK'
    OBVIOUS
  <2>1. job[k].d \in Dest
    BY DEF FindHead, TypeOK
  <2>2. \/ \E s \in Seqs, res \in {"none", "bad"}, p \in {"send", "save"} :
             /\ job' = [job EXCEPT ![k] = Work(job[k].d, s, res)]
             /\ pc' = [pc EXCEPT ![k] = p]
        \/ job' = job /\ pc' = [pc EXCEPT ![k] = "passEnd"]
    BY DEF FindHead
  <2>3. job' \in [Drainers -> JobType] /\ pc' \in [Drainers -> PcType]
    <3>1. \A s \in Seqs, res \in {"none", "bad"} : Work(job[k].d, s, res) \in JobType
      BY <2>1 DEF Work, Seqs
    <3>2. job \in [Drainers -> JobType] /\ pc \in [Drainers -> PcType]
      BY DEF TypeOK
    <3> HIDE DEF JobType
    <3> QED
      BY <2>2, <3>1, <3>2
  <2>4. \A j \in Drainers : JobOK(j)'
    BY <2>1, <2>2 DEF TypeOK, Work, Seqs
  <2> QED
    BY <2>3, <2>4 DEF FindHead, TypeOK, dbVars, envVars
<1>3. \A k \in Drainers : Send(k) => TypeOK'
  <2> SUFFICES ASSUME NEW k \in Drainers, Send(k) PROVE TypeOK'
    OBVIOUS
  <2>1. job[k].d \in Dest /\ job[k].s \in Seqs
    BY DEF Send, TypeOK
  <2>2. PICK res \in {"ok", "fail"} : job' = [job EXCEPT ![k] = Work(job[k].d, job[k].s, res)]
    BY DEF Send
  <2>3. job' \in [Drainers -> JobType] /\ pc' \in [Drainers -> PcType]
    <3>1. Work(job[k].d, job[k].s, res) \in JobType
      BY <2>1 DEF Work, Seqs
    <3>2. job \in [Drainers -> JobType] /\ pc \in [Drainers -> PcType]
      BY DEF TypeOK
    <3> HIDE DEF JobType
    <3> QED
      BY <2>2, <3>1, <3>2 DEF Send
  <2>4. \A j \in Drainers : JobOK(j)'
    BY <2>1, <2>2 DEF TypeOK, Work, Seqs, Send
  <2>5. delivered' \in [Dest -> SUBSET Seqs]
    <3>1. \/ delivered' = delivered
          \/ delivered' = [delivered EXCEPT ![job[k].d] = @ \cup {job[k].s}]
      BY DEF Send
    <3>2. delivered \in [Dest -> SUBSET Seqs]
      BY DEF TypeOK
    <3>3. delivered[job[k].d] \cup {job[k].s} \in SUBSET Seqs
      BY <2>1, <3>2
    <3> QED
      BY <2>1, <3>1, <3>2, <3>3
  <2> QED
    BY <2>3, <2>4, <2>5 DEF Send, TypeOK, dbVars
<1>4. \A k \in Drainers : Save(k) => TypeOK'
  <2> SUFFICES ASSUME NEW k \in Drainers, Save(k) PROVE TypeOK'
    OBVIOUS
  <2>1. job[k].d \in Dest /\ job[k].s \in Seqs
    BY DEF Save, TypeOK
  <2>2. row' \in [Dest -> [Seqs -> {"NONE", "PENDING", "SUCCESS", "FAILED"}]]
    <3>1. StatusAfter(job[k].res) \in {"NONE", "PENDING", "SUCCESS", "FAILED"}
      BY DEF StatusAfter
    <3>2. row' = [row EXCEPT ![job[k].d][job[k].s] = StatusAfter(job[k].res)]
      BY DEF Save
    <3>3. row \in [Dest -> [Seqs -> {"NONE", "PENDING", "SUCCESS", "FAILED"}]]
      BY DEF TypeOK
    <3> QED
      BY <2>1, <3>1, <3>2, <3>3
  <2>3. due' \in [Dest -> [Seqs -> BOOLEAN]]
    <3>1. due \in [Dest -> [Seqs -> BOOLEAN]]
      BY DEF TypeOK
    <3>2. due' = [due EXCEPT ![job[k].d][job[k].s] =
                     IF job[k].res = "fail" THEN FALSE ELSE @]
      BY DEF Save
    <3>3. (IF job[k].res = "fail" THEN FALSE ELSE due[job[k].d][job[k].s]) \in BOOLEAN
      BY <2>1, <3>1
    <3> QED
      BY <2>1, <3>1, <3>2, <3>3
  <2>4. job' \in [Drainers -> JobType] /\ pc' \in [Drainers -> PcType]
    <3>1. Work(job[k].d, NoRow, "none") \in JobType
      BY <2>1 DEF Work, NoRow
    <3>2. job \in [Drainers -> JobType] /\ pc \in [Drainers -> PcType]
      BY DEF TypeOK
    <3> HIDE DEF JobType
    <3> QED
      BY <3>1, <3>2 DEF Save
  <2>5. \A j \in Drainers : JobOK(j)'
    BY <2>1 DEF TypeOK, Work, Save
  <2> QED
    BY <2>2, <2>3, <2>4, <2>5 DEF Save, TypeOK, envVars
<1>5. \A k \in Drainers : PassEnd(k) => TypeOK'
  <2> SUFFICES ASSUME NEW k \in Drainers, PassEnd(k) PROVE TypeOK'
    OBVIOUS
  <2>1. job[k].d \in Dest
    BY DEF PassEnd, TypeOK
  <2>2. job' \in [Drainers -> JobType] /\ pc' \in [Drainers -> PcType]
    <3>1. Idle \in JobType
      BY DEF Idle, Work, NoRow
    <3>2. job \in [Drainers -> JobType] /\ pc \in [Drainers -> PcType]
      BY DEF TypeOK
    <3> HIDE DEF JobType
    <3> QED
      BY <3>1, <3>2 DEF PassEnd
  <2>3. \A j \in Drainers : JobOK(j)'
    BY <2>1 DEF TypeOK, Work, Idle, PassEnd
  <2>4. inflight' \subseteq Dest /\ rerun' \subseteq Dest
    BY DEF TypeOK, PassEnd, Released
  <2> QED
    BY <2>2, <2>3, <2>4 DEF PassEnd, TypeOK, dbVars, envVars
<1>6. \A k \in Drainers : SaveMissingRow(k) => TypeOK'
  <2> SUFFICES ASSUME NEW k \in Drainers, SaveMissingRow(k) PROVE TypeOK'
    OBVIOUS
  <2>1. faults' \in 0..MaxFaults /\ pc[k] # "idle" /\ Reject(k)
    BY DEF SaveMissingRow, TypeOK
  <2> QED
    BY <2>1, RejectTypes
<1>7. \A k \in Drainers : DbError(k) => TypeOK'
  <2> SUFFICES ASSUME NEW k \in Drainers, DbError(k) PROVE TypeOK'
    OBVIOUS
  <2>1. faults' \in 0..MaxFaults /\ pc[k] # "idle" /\ Reject(k)
    BY DEF DbError, TypeOK
  <2> QED
    BY <2>1, RejectTypes
<1>8. \A d \in Dest : Ping(d) => TypeOK'
  <2> SUFFICES ASSUME NEW d \in Dest, Ping(d) PROVE TypeOK'
    OBVIOUS
  <2> QED
    BY EnqueueTypes DEF Ping, TypeOK, envVars
<1>9. \A d \in Dest : Wake(d) => TypeOK'
  <2> SUFFICES ASSUME NEW d \in Dest, Wake(d) PROVE TypeOK'
    OBVIOUS
  <2>1. job' \in [Drainers -> JobType] /\ pc' \in [Drainers -> PcType]
    <3>1. Work(d, NoRow, "none") \in JobType
      BY DEF Work, NoRow
    <3>2. job \in [Drainers -> JobType] /\ pc \in [Drainers -> PcType]
      BY DEF TypeOK
    <3> HIDE DEF JobType
    <3> QED
      BY <3>1, <3>2 DEF Wake
  <2>2. \A j \in Drainers : JobOK(j)'
    BY DEF TypeOK, Work, Wake
  <2> QED
    BY <2>1, <2>2 DEF Wake, TypeOK, dbVars
<1>10. \A d \in Dest : Sweep(d) => TypeOK'
  BY DEF TypeOK, Sweep, Sweepable, Seqs, memVars, envVars
<1>11. \A d \in Dest : Delete(d) => TypeOK'
  BY DEF TypeOK, Delete, Seqs, memVars, envVars
<1>12. \A d \in Dest : RequeueWrite(d) => TypeOK'
  <2> SUFFICES ASSUME NEW d \in Dest, RequeueWrite(d) PROVE TypeOK'
    OBVIOUS
  <2>1. requeuing[d] \in Seqs
    BY DEF TypeOK, RequeueWrite, Seqs, NoRow
  <2>2. CASE row[d][requeuing[d]] # "NONE"
    BY <2>1, <2>2, PutBackTypes DEF RequeueWrite, TypeOK, NoRow
  <2>3. CASE row[d][requeuing[d]] = "NONE"
    BY <2>3 DEF RequeueWrite, TypeOK, NoRow
  <2> QED
    BY <2>2, <2>3
<1>13. \A d \in Dest : RequeueFailed(d) => TypeOK'
  <2> SUFFICES ASSUME NEW d \in Dest, RequeueFailed(d) PROVE TypeOK'
    OBVIOUS
  <2>1. PutBack(d, Requeueable(d)) /\ Requeueable(d) \in SUBSET Seqs
    BY DEF RequeueFailed, Requeueable
  <2> QED
    BY <2>1, PutBackTypes DEF RequeueFailed, TypeOK
<1>14. \A d \in Dest : Outage(d) => TypeOK'
  BY DEF TypeOK, Outage, dbVars, memVars
<1>15. \A d \in Dest : Recovery(d) => TypeOK'
  BY DEF TypeOK, Recovery, dbVars, memVars
<1>16. \A d \in Dest, on \in BOOLEAN : SetActive(d, on) => TypeOK'
  BY DEF TypeOK, SetActive, envVars
<1>17. \A d \in Dest, s \in Seqs : BackoffElapses(d, s) => TypeOK'
  BY DEF TypeOK, BackoffElapses, memVars
<1>18. \A d \in Dest, s \in Seqs : RequeueRead(d, s) => TypeOK'
  BY DEF TypeOK, RequeueRead, Requeueable, Seqs, dbVars
<1>19. SafetyTick => TypeOK'
  BY DEF TypeOK, SafetyTick, dbVars, envVars
<1>20. Crash => TypeOK'
  BY DEF TypeOK, Crash, Idle, Work, NoRow, dbVars
<1>21. UNCHANGED vars => TypeOK'
  BY DEF TypeOK, vars
<1> QED
  BY <1>1, <1>2, <1>3, <1>4, <1>5, <1>6, <1>7, <1>8, <1>9, <1>10, <1>11, <1>12,
     <1>13, <1>14, <1>15, <1>16, <1>17, <1>18, <1>19, <1>20, <1>21, NextCases

\* Every variable keeps its type, and a busy drain works on a real Destination
\* and a real row number.
THEOREM TypeCorrect == Spec => []TypeOK
  BY TypeInit, TypeStep, PTL DEF Spec

-----------------------------------------------------------------------------
(* Single flight.                                                          *)

\* A step that leaves drains and the inflight map alone keeps FlightInv.
LEMMA FlightFrame ==
    ASSUME FlightInv, UNCHANGED <<pc, job, inflight>>
    PROVE  FlightInv'
  BY DEF FlightInv, SingleFlight, Busy

\* A busy drain that stays on its Destination keeps FlightInv.
LEMMA FlightAdvance ==
    ASSUME TypeOK, FlightInv, NEW k \in Drainers, Busy(k), NEW p,
           pc' = [pc EXCEPT ![k] = p], UNCHANGED inflight,
           job' \in [Drainers -> [d : Dest \cup {"none"}, s : 0..MaxSeq,
                                 res : {"none", "ok", "fail", "bad"}]],
           \A j \in Drainers : job'[j].d = job[j].d
    PROVE  FlightInv'
  BY DEF TypeOK, FlightInv, SingleFlight, Busy

\* A drain that ends gives up the entry it held alone.
LEMMA FlightRelease ==
    ASSUME TypeOK, FlightInv, NEW k \in Drainers, Busy(k),
           pc' = [pc EXCEPT ![k] = "idle"], job' = [job EXCEPT ![k] = Idle],
           inflight' = Released(job[k].d)
    PROVE  FlightInv'
  BY DEF TypeOK, FlightInv, SingleFlight, Busy, Released

\* No two drain promises ever work on the same Destination, whatever wakes,
\* crashes, rejected drains and deletions come in between (dispatcher.ts
\* drainDestination).
THEOREM FlightCorrect == Spec => []FlightInv
<1>1. Init => FlightInv
  BY DEF Init, FlightInv, SingleFlight, Busy
<1>2. TypeOK /\ FlightInv /\ [Next]_vars => FlightInv'
  <2> SUFFICES ASSUME TypeOK, FlightInv, [Next]_vars PROVE FlightInv'
    OBVIOUS
  <2>1. \A D \in SUBSET Dest : Emit(D) => FlightInv'
    BY FlightFrame DEF Emit
  <2>2. \A k \in Drainers : FindHead(k) => FlightInv'
    <3> SUFFICES ASSUME NEW k \in Drainers, FindHead(k) PROVE FlightInv'
      OBVIOUS
    <3>1. PICK p \in {"send", "save", "passEnd"} : pc' = [pc EXCEPT ![k] = p]
      BY DEF FindHead
    <3>2. \A j \in Drainers : job'[j].d = job[j].d
      <4>1. \/ \E s, res : job' = [job EXCEPT ![k] = Work(job[k].d, s, res)]
            \/ job' = job
        BY DEF FindHead
      <4>2. DOMAIN job = Drainers
        BY DEF TypeOK
      <4>3. CASE job' = job
        BY <4>3
      <4>4. CASE \E s, res : job' = [job EXCEPT ![k] = Work(job[k].d, s, res)]
        BY <4>2, <4>4 DEF Work
      <4> QED
        BY <4>1, <4>3, <4>4
    <3>3. TypeOK' /\ Busy(k) /\ UNCHANGED inflight
      BY TypeStep DEF FindHead, Busy, Next, DrainStep
    <3> QED
      BY <3>1, <3>2, <3>3, FlightAdvance DEF TypeOK
  <2>3. \A k \in Drainers : Send(k) => FlightInv'
    <3> SUFFICES ASSUME NEW k \in Drainers, Send(k) PROVE FlightInv'
      OBVIOUS
    <3>1. pc' = [pc EXCEPT ![k] = "save"]
      BY DEF Send
    <3>2. \A j \in Drainers : job'[j].d = job[j].d
      <4>1. PICK res \in {"ok", "fail"} :
                job' = [job EXCEPT ![k] = Work(job[k].d, job[k].s, res)]
        BY DEF Send
      <4> QED
        BY <4>1 DEF TypeOK, Work
    <3>3. TypeOK' /\ Busy(k) /\ UNCHANGED inflight
      BY TypeStep DEF Send, Busy, Next, DrainStep
    <3> QED
      BY <3>1, <3>2, <3>3, FlightAdvance DEF TypeOK
  <2>4. \A k \in Drainers : Save(k) => FlightInv'
    <3> SUFFICES ASSUME NEW k \in Drainers, Save(k) PROVE FlightInv'
      OBVIOUS
    <3>1. PICK p \in {"query", "passEnd"} : pc' = [pc EXCEPT ![k] = p]
      BY DEF Save
    <3>2. \A j \in Drainers : job'[j].d = job[j].d
      BY DEF Save, TypeOK, Work
    <3>3. TypeOK' /\ Busy(k) /\ UNCHANGED inflight
      BY TypeStep DEF Save, Busy, Next, DrainStep
    <3> QED
      BY <3>1, <3>2, <3>3, FlightAdvance DEF TypeOK
  <2>5. \A k \in Drainers : PassEnd(k) => FlightInv'
    <3> SUFFICES ASSUME NEW k \in Drainers, PassEnd(k) PROVE FlightInv'
      OBVIOUS
    <3>1. Busy(k)
      BY DEF PassEnd, Busy
    <3>2. CASE RunsAgain(job[k].d)
      BY <3>1, <3>2, FlightAdvance DEF PassEnd, TypeOK
    <3>3. CASE ~RunsAgain(job[k].d)
      BY <3>1, <3>3, FlightRelease DEF PassEnd
    <3> QED
      BY <3>2, <3>3
  <2>6. \A k \in Drainers : SaveMissingRow(k) => FlightInv'
    BY FlightRelease DEF SaveMissingRow, Reject, Busy
  <2>7. \A k \in Drainers : DbError(k) => FlightInv'
    BY FlightRelease DEF DbError, Reject, Busy
  <2>8. \A d \in Dest : Ping(d) => FlightInv'
    BY FlightFrame DEF Ping
  <2>9. \A d \in Dest : Wake(d) => FlightInv'
    <3> SUFFICES ASSUME NEW d \in Dest, Wake(d) PROVE FlightInv'
      OBVIOUS
    <3>1. CASE Joins(d)
      BY <3>1, FlightFrame DEF Wake
    <3>2. CASE ~Joins(d)
      <4>1. PICK k \in Drainers : /\ pc[k] = "idle"
                                  /\ pc' = [pc EXCEPT ![k] = "query"]
                                  /\ job' = [job EXCEPT ![k] = Work(d, NoRow, "none")]
                                  /\ inflight' = inflight \cup {d}
        BY <3>2 DEF Wake
      <4>2. d \notin inflight
        BY <3>2 DEF Joins
      <4>3. \A j \in Drainers : Busy(j)' => j = k \/ (Busy(j) /\ job'[j] = job[j])
        BY <4>1 DEF TypeOK, Busy
      <4>4. job'[k].d = d
        BY <4>1 DEF TypeOK, Work
      <4> QED
        BY <4>1, <4>2, <4>3, <4>4 DEF FlightInv, SingleFlight, TypeOK
    <3> QED
      BY <3>1, <3>2
  <2>10. \A d \in Dest : Sweep(d) => FlightInv'
    BY FlightFrame DEF Sweep, memVars
  <2>11. \A d \in Dest : Delete(d) => FlightInv'
    BY FlightFrame DEF Delete, memVars
  <2>12. \A d \in Dest : RequeueWrite(d) => FlightInv'
    BY FlightFrame DEF RequeueWrite
  <2>13. \A d \in Dest : RequeueFailed(d) => FlightInv'
    BY FlightFrame DEF RequeueFailed
  <2>14. \A d \in Dest : Outage(d) => FlightInv'
    BY FlightFrame DEF Outage, memVars
  <2>15. \A d \in Dest : Recovery(d) => FlightInv'
    BY FlightFrame DEF Recovery, memVars
  <2>16. \A d \in Dest, on \in BOOLEAN : SetActive(d, on) => FlightInv'
    BY FlightFrame DEF SetActive
  <2>17. \A d \in Dest, s \in Seqs : BackoffElapses(d, s) => FlightInv'
    BY FlightFrame DEF BackoffElapses, memVars
  <2>18. \A d \in Dest, s \in Seqs : RequeueRead(d, s) => FlightInv'
    BY FlightFrame DEF RequeueRead
  <2>19. SafetyTick => FlightInv'
    BY FlightFrame DEF SafetyTick
  <2>20. Crash => FlightInv'
    BY DEF Crash, FlightInv, SingleFlight, Busy
  <2>21. UNCHANGED vars => FlightInv'
    BY FlightFrame DEF vars
  <2> QED
    BY <2>1, <2>2, <2>3, <2>4, <2>5, <2>6, <2>7, <2>8, <2>9, <2>10, <2>11, <2>12,
       <2>13, <2>14, <2>15, <2>16, <2>17, <2>18, <2>19, <2>20, <2>21, NextCases
<1> QED
  BY <1>1, <1>2, TypeCorrect, PTL DEF Spec

-----------------------------------------------------------------------------
(* The queue: FIFO, and nothing lost.                                      *)

\* Nothing the queue invariant speaks of changes.
LEMMA QueueFrame ==
    ASSUME TypeOK, QueueInv, UNCHANGED <<row, body, lastSeq, pc, job, delivered, requeued>>,
           \A d \in Dest : Exists(d)' <=> Exists(d)
    PROVE  QueueInv'
<1> USE DEF QueueInv
<1>1. RowInv'
  BY DEF RowInv
<1>2. \A d : Pending(d)' = Pending(d)
  BY DEF Pending
<1>3. AttemptInv'
  <2> SUFFICES ASSUME NEW k \in Drainers, pc[k] \in {"send", "save"}
               PROVE  (~Exists(job[k].d))' <=> ~Exists(job[k].d)
    BY <1>2 DEF AttemptInv, AttemptOK
  <2> QED
    BY DEF TypeOK
<1>4. NoOvertaking'
  BY <1>2 DEF NoOvertaking
<1>5. NothingLost'
  BY DEF NothingLost
<1> QED
  BY <1>1, <1>3, <1>4, <1>5

\* A new row comes after every row the invariant speaks of.
LEMMA QueueEnqueue ==
    ASSUME TypeOK, QueueInv, NEW D \in SUBSET Dest, \A d \in D : Exists(d),
           NEW st, NEW pl, Enqueue(D, st, pl),
           <<st, pl>> \in {<<"PENDING", "json">>, <<"FAILED", "unbuilt">>},
           UNCHANGED <<dest, pc, job, delivered, requeued>>
    PROVE  QueueInv'
<1> USE ConstantsAssumption
<1> DEFINE new(d) == lastSeq[d] + 1
<1>1. \A d \in Dest : \A s \in Seqs :
        \/ row'[d][s] = row[d][s] /\ body'[d][s] = body[d][s]
        \/ d \in D /\ s = new(d) /\ row'[d][s] = st /\ body'[d][s] = pl
  BY DEF TypeOK, Enqueue
<1>0. \A d \in Dest : lastSeq[d] \in 0..MaxSeq /\ lastSeq'[d] \in 0..MaxSeq
  BY DEF TypeOK, Enqueue
<1>2. \A d \in Dest : \A s \in Seqs : s <= lastSeq[d] =>
        row'[d][s] = row[d][s] /\ body'[d][s] = body[d][s]
  BY <1>0, <1>1 DEF Seqs
<1>3. \A d \in Dest : \/ d \in D /\ lastSeq'[d] = new(d)
                      \/ d \notin D /\ lastSeq'[d] = lastSeq[d]
  BY DEF Enqueue
<1>4. RowInv'
  <2> SUFFICES ASSUME NEW d \in Dest
               PROVE  /\ \A s \in Seqs : row'[d][s] # "NONE" => s <= lastSeq'[d] /\ Exists(d)
                      /\ \A s \in delivered[d] : s <= lastSeq'[d]
    BY DEF RowInv, Exists
  <2>1. lastSeq[d] <= lastSeq'[d]
    BY <1>0, <1>3
  <2>2. \A s \in Seqs : s <= lastSeq[d] => s <= lastSeq'[d]
    BY <2>1, <1>0 DEF Seqs
  <2>3. delivered[d] \subseteq Seqs
    BY DEF TypeOK
  <2> QED
    BY <1>0, <1>1, <1>3, <2>2, <2>3 DEF QueueInv, RowInv
<1>5. \A d \in Dest : \A t \in Pending(d)' : t \in Pending(d) \/ t = new(d)
  BY <1>1 DEF Pending
<1>6. AttemptInv'
  <2> SUFFICES ASSUME NEW k \in Drainers, pc[k] \in {"send", "save"}
               PROVE  AttemptOK(k)'
    BY DEF AttemptInv, Enqueue
  <2>1. job[k].d \in Dest /\ job[k].s \in Seqs /\ job[k].s <= lastSeq[job[k].d]
    BY DEF TypeOK, QueueInv, AttemptInv, AttemptOK
  <2> DEFINE d == job[k].d
             s == job[k].s
  <2>2. s <= lastSeq'[d]
    BY <1>0, <1>3, <2>1 DEF Seqs
  <2>3. \A t \in Pending(d)' : t < s => t \in Pending(d)
    BY <1>0, <1>5, <2>1 DEF Seqs
  <2>4. row'[d][s] = row[d][s] /\ body'[d][s] = body[d][s]
    BY <1>2, <2>1
  <2> QED
    BY <2>2, <2>3, <2>4 DEF QueueInv, AttemptInv, AttemptOK, Exists
<1>7. NoOvertaking'
  <2> SUFFICES ASSUME NEW d \in Dest, NEW s \in delivered[d], NEW t \in Pending(d)', t < s
               PROVE  t \in requeued[d]
    BY DEF NoOvertaking
  <2>1. s \in Seqs /\ s <= lastSeq[d]
    BY DEF QueueInv, RowInv, TypeOK
  <2>2. t \in Pending(d)
    BY <1>0, <1>5, <2>1 DEF Seqs, Pending
  <2> QED
    BY <2>2 DEF QueueInv, NoOvertaking
<1>8. NothingLost'
  <2> SUFFICES ASSUME NEW d \in Dest, Exists(d), NEW s \in (Legacy + 1)..lastSeq'[d],
                      body'[d][s] = "json"
               PROVE  row'[d][s] = "PENDING" \/ s \in delivered[d]
    BY DEF NothingLost, Exists
  <2>1. s \in Seqs
    BY <1>0 DEF Seqs
  <2>2. CASE s <= lastSeq[d]
    BY <1>0, <1>2, <2>1, <2>2 DEF QueueInv, NothingLost
  <2>3. CASE s = new(d) /\ d \in D
    <3>1. row'[d][s] = st /\ body'[d][s] = pl
      BY <2>1, <2>3 DEF Enqueue, TypeOK
    <3> QED
      BY <3>1
  <2> QED
    BY <1>0, <1>3, <2>1, <2>2, <2>3 DEF Seqs
<1> QED
  BY <1>4, <1>6, <1>7, <1>8 DEF QueueInv

\* Drains that are not attempting anything do not matter to the queue.
LEMMA QueueDrainFrame ==
    ASSUME TypeOK, QueueInv, UNCHANGED <<dest, row, body, lastSeq, delivered, requeued>>,
           \A k \in Drainers : pc'[k] \in {"send", "save"} => pc'[k] = pc[k] /\ job'[k] = job[k]
    PROVE  QueueInv'
<1> USE DEF QueueInv
<1>1. RowInv'
  BY DEF RowInv, Exists
<1>2. \A d : Pending(d)' = Pending(d)
  BY DEF Pending
<1>3. AttemptInv'
  BY <1>2 DEF AttemptInv, AttemptOK, Exists
<1>4. NoOvertaking'
  BY <1>2 DEF NoOvertaking
<1>5. NothingLost'
  BY DEF NothingLost, Exists
<1> QED
  BY <1>1, <1>3, <1>4, <1>5

\* Rows that no longer wait may go.
LEMMA QueueShrink ==
    ASSUME TypeOK, QueueInv, UNCHANGED <<dest, body, lastSeq, delivered, requeued, pc, job>>,
           \A d \in Dest : \A s \in Seqs :
              row'[d][s] = row[d][s] \/ (row[d][s] # "PENDING" /\ row'[d][s] = "NONE")
    PROVE  QueueInv'
<1> USE DEF QueueInv
<1>1. RowInv'
  BY DEF RowInv, Exists
<1>2. \A d \in Dest : Pending(d)' = Pending(d)
  BY DEF Pending
<1>3. AttemptInv'
  <2> SUFFICES ASSUME NEW k \in Drainers, pc[k] \in {"send", "save"}
               PROVE  row'[job[k].d][job[k].s] = "PENDING" \/ ~Exists(job[k].d)
    BY <1>2 DEF AttemptInv, AttemptOK, Exists, TypeOK
  <2>1. job[k].d \in Dest /\ job[k].s \in Seqs
    BY DEF TypeOK
  <2> QED
    BY <2>1 DEF AttemptInv, AttemptOK
<1>4. NoOvertaking'
  BY <1>2 DEF NoOvertaking
<1>5. NothingLost'
  <2> SUFFICES ASSUME NEW d \in Dest, Exists(d), NEW s \in (Legacy + 1)..lastSeq[d],
                      body[d][s] = "json"
               PROVE  row'[d][s] = "PENDING" \/ s \in delivered[d]
    BY DEF NothingLost, Exists
  <2>1. s \in Seqs
    BY ConstantsAssumption DEF TypeOK, Seqs
  <2> QED
    BY <2>1 DEF NothingLost
<1> QED
  BY <1>1, <1>3, <1>4, <1>5

\* Rows put back by staff are marked, which is all FIFO order asks of them.
LEMMA QueuePutBack ==
    ASSUME TypeOK, QueueInv, NEW d \in Dest, NEW S \in SUBSET Seqs, PutBack(d, S),
           \A s \in S : row[d][s] # "NONE",
           UNCHANGED <<dest, body, lastSeq, delivered, pc, job>>
    PROVE  QueueInv'
<1> USE DEF QueueInv
<1>1. \A e \in Dest : \A s \in Seqs :
        row'[e][s] = IF e = d /\ s \in S THEN "PENDING" ELSE row[e][s]
  BY DEF PutBack, TypeOK
<1>2. \A e \in Dest : requeued'[e] = IF e = d THEN requeued[e] \cup S ELSE requeued[e]
  BY DEF PutBack, TypeOK
<1>3. \A e \in Dest : \A t \in Pending(e)' : t \in Pending(e) \/ t \in requeued'[e]
  BY <1>1, <1>2 DEF Pending
<1>4. \A e \in Dest : requeued[e] \subseteq requeued'[e]
  BY <1>2
<1>5. RowInv'
  BY <1>1 DEF RowInv, Exists
<1>6. AttemptInv'
  <2> SUFFICES ASSUME NEW k \in Drainers, pc[k] \in {"send", "save"}
               PROVE  /\ row'[job[k].d][job[k].s] = "PENDING" \/ ~Exists(job[k].d)
                      /\ \A t \in Pending(job[k].d)' :
                            t < job[k].s => t \in requeued'[job[k].d]
    BY DEF AttemptInv, AttemptOK, Exists
  <2>1. job[k].d \in Dest /\ job[k].s \in Seqs
    BY DEF TypeOK
  <2> QED
    BY <1>1, <1>3, <1>4, <2>1 DEF AttemptInv, AttemptOK
<1>7. NoOvertaking'
  BY <1>3, <1>4 DEF NoOvertaking
<1>8. NothingLost'
  <2> SUFFICES ASSUME NEW e \in Dest, Exists(e), NEW s \in (Legacy + 1)..lastSeq[e],
                      body[e][s] = "json"
               PROVE  row'[e][s] = "PENDING" \/ s \in delivered[e]
    BY DEF NothingLost, Exists
  <2>1. s \in Seqs
    BY ConstantsAssumption DEF TypeOK, Seqs
  <2> QED
    BY <1>1, <2>1 DEF NothingLost
<1> QED
  BY <1>5, <1>6, <1>7, <1>8

\* The attempt starts on the head, so nothing older waits.
LEMMA QueueFindHead ==
    ASSUME TypeOK, QueueInv, NEW k \in Drainers, FindHead(k)
    PROVE  QueueInv'
<1> USE DEF QueueInv
<1>1. UNCHANGED <<dest, row, body, lastSeq, delivered, requeued>> /\ pc[k] = "query"
  BY DEF FindHead, dbVars, envVars
<1>2. CASE pc' = [pc EXCEPT ![k] = "passEnd"] /\ job' = job
  BY <1>1, <1>2, QueueDrainFrame DEF TypeOK
<1>3. ASSUME NEW s \in Seqs, IsHead(job[k].d, s), NEW p, NEW res,
             \/ p = "send" /\ body[job[k].d][s] = "json"
             \/ p = "save" /\ body[job[k].d][s] # "json" /\ res = "bad",
             pc' = [pc EXCEPT ![k] = p], job' = [job EXCEPT ![k] = Work(job[k].d, s, res)]
      PROVE  QueueInv'
  <2> DEFINE d == job[k].d
  <2>1. d \in Dest
    BY <1>1 DEF TypeOK
  <2>2. RowInv' /\ NoOvertaking' /\ NothingLost'
    BY <1>1 DEF RowInv, NoOvertaking, NothingLost, Exists, Pending
  <2>3. /\ s <= lastSeq[d] /\ row[d][s] = "PENDING"
        /\ \A t \in Pending(d) : ~(t < s)
    BY <1>3, <2>1 DEF IsHead, Pending, RowInv, Seqs
  <2>4. /\ job'[k].d = d /\ job'[k].s = s /\ job'[k].res = res /\ pc'[k] = p
        /\ \A j \in Drainers : j # k => job'[j] = job[j] /\ pc'[j] = pc[j]
    BY <1>3 DEF TypeOK, Work
  <2>5. \A e : Pending(e)' = Pending(e) /\ (Exists(e)' <=> Exists(e))
    BY <1>1 DEF Pending, Exists
  <2>6. AttemptInv'
    <3> SUFFICES ASSUME NEW j \in Drainers, pc'[j] \in {"send", "save"}
                 PROVE  AttemptOK(j)'
      BY DEF AttemptInv
    <3>1. CASE j = k
      BY <1>1, <1>3, <2>3, <2>4, <2>5, <3>1 DEF AttemptOK
    <3>2. CASE j # k
      <4>1. AttemptOK(j)
        BY <2>4, <3>2 DEF AttemptInv
      <4> QED
        BY <1>1, <2>4, <2>5, <3>2, <4>1 DEF AttemptOK
    <3> QED
      BY <3>1, <3>2
  <2> QED
    BY <2>2, <2>6
<1> QED
  BY <1>2, <1>3 DEF FindHead

\* What the endpoint takes is the oldest waiting row.
LEMMA QueueSend ==
    ASSUME TypeOK, QueueInv, NEW k \in Drainers, Send(k)
    PROVE  QueueInv'
<1> USE DEF QueueInv
<1> DEFINE d == job[k].d
           s == job[k].s
<1>1. /\ UNCHANGED <<dest, row, body, lastSeq, requeued>> /\ pc[k] = "send"
      /\ pc' = [pc EXCEPT ![k] = "save"] /\ d \in Dest /\ s \in Seqs
  BY DEF Send, dbVars, TypeOK
<1>2. PICK res \in {"ok", "fail"} :
         /\ job' = [job EXCEPT ![k] = Work(d, s, res)]
         /\ \/ delivered' = [delivered EXCEPT ![d] = @ \cup {s}]
            \/ delivered' = delivered /\ res = "fail"
  BY DEF Send
<1>3. \A e \in Dest : \/ delivered'[e] = delivered[e]
                      \/ e = d /\ delivered'[e] = delivered[e] \cup {s}
  <2>1. delivered \in [Dest -> SUBSET Seqs]
    BY DEF TypeOK
  <2>2. CASE delivered' = delivered
    BY <2>2
  <2>3. CASE delivered' = [delivered EXCEPT ![d] = @ \cup {s}]
    BY <2>1, <2>3, Zenon
  <2> QED
    BY <1>2, <2>2, <2>3
<1>11. \A e \in Dest : delivered[e] \subseteq delivered'[e]
  BY <1>3
<1>12. res = "ok" => s \in delivered'[d]
  BY <1>1, <1>2 DEF TypeOK
<1>4. \A e : Pending(e)' = Pending(e) /\ (Exists(e)' <=> Exists(e))
  BY <1>1 DEF Pending, Exists
<1>5. /\ s <= lastSeq[d]
      /\ row[d][s] = "PENDING" \/ ~Exists(d)
      /\ \A t \in Pending(d) : t < s => t \in requeued[d]
  BY <1>1 DEF AttemptInv, AttemptOK
<1>6. RowInv'
  BY <1>1, <1>3, <1>4, <1>5 DEF RowInv
<1>7. /\ job'[k].d = d /\ job'[k].s = s /\ job'[k].res = res /\ pc'[k] = "save"
      /\ \A j \in Drainers : j # k => job'[j] = job[j] /\ pc'[j] = pc[j]
  BY <1>1, <1>2 DEF TypeOK, Work
<1>8. AttemptInv'
  <2> SUFFICES ASSUME NEW j \in Drainers, pc'[j] \in {"send", "save"}
               PROVE  AttemptOK(j)'
    BY DEF AttemptInv
  <2>1. CASE j = k
    BY <1>1, <1>4, <1>5, <1>7, <1>12, <2>1 DEF AttemptOK
  <2>2. CASE j # k
    <3>1. AttemptOK(j) /\ job[j].d \in Dest
      BY <1>7, <2>2 DEF AttemptInv, TypeOK
    <3> QED
      BY <1>1, <1>4, <1>7, <1>11, <2>2, <3>1 DEF AttemptOK
  <2> QED
    BY <2>1, <2>2
<1>9. NoOvertaking'
  BY <1>1, <1>3, <1>4, <1>5 DEF NoOvertaking
<1>10. NothingLost'
  BY <1>1, <1>11, <1>4 DEF NothingLost
<1> QED
  BY <1>6, <1>8, <1>9, <1>10

\* Recording an outcome takes the row out of the queue only when the endpoint
\* took it or it cannot be sent.
LEMMA QueueSave ==
    ASSUME TypeOK, FlightInv, QueueInv, NEW k \in Drainers, Save(k)
    PROVE  QueueInv'
<1> USE DEF QueueInv
<1> DEFINE d == job[k].d
           s == job[k].s
           st == StatusAfter(job[k].res)
<1>1. /\ UNCHANGED <<dest, body, lastSeq, delivered, requeued>> /\ pc[k] = "save"
      /\ row' = [row EXCEPT ![d][s] = st] /\ row[d][s] # "NONE"
      /\ d \in Dest /\ s \in Seqs
  BY DEF Save, envVars, TypeOK
<1>2. PICK p \in {"query", "passEnd"} : pc' = [pc EXCEPT ![k] = p]
  BY DEF Save
<1>3. \A e \in Dest : \A m \in Seqs :
         row'[e][m] = IF e = d /\ m = s THEN st ELSE row[e][m]
  BY <1>1 DEF TypeOK
<1>4. /\ row[d][s] = "PENDING" /\ Exists(d)
      /\ \/ st = "FAILED" /\ body[d][s] # "json"
         \/ st = "SUCCESS" /\ s \in delivered[d]
         \/ st = "PENDING"
  BY <1>1 DEF AttemptInv, AttemptOK, RowInv, StatusAfter
<1>5. \A e : Exists(e)' <=> Exists(e)
  BY <1>1 DEF Exists
<1>6. \A e \in Dest : Pending(e)' \subseteq Pending(e)
  BY <1>3, <1>4 DEF Pending
<1>7. RowInv'
  BY <1>1, <1>3, <1>4, <1>5 DEF RowInv
<1>8. AttemptInv'
  <2> SUFFICES ASSUME NEW j \in Drainers, pc'[j] \in {"send", "save"}
               PROVE  AttemptOK(j)'
    BY DEF AttemptInv
  <2>1. j # k /\ pc'[j] = pc[j] /\ job'[j] = job[j]
    BY <1>2 DEF Save, TypeOK
  <2>2. AttemptOK(j) /\ job[j].d \in Dest /\ job[j].s \in Seqs
    BY <2>1 DEF AttemptInv, TypeOK
  <2>3. job[j].d # d
    BY <1>1, <2>1 DEF FlightInv, SingleFlight, Busy
  <2> QED
    BY <1>1, <1>3, <1>5, <1>6, <2>1, <2>2, <2>3 DEF AttemptOK
<1>9. NoOvertaking'
  BY <1>1, <1>6 DEF NoOvertaking
<1>10. NothingLost'
  <2> SUFFICES ASSUME NEW e \in Dest, Exists(e), NEW m \in (Legacy + 1)..lastSeq[e],
                      body[e][m] = "json"
               PROVE  row'[e][m] = "PENDING" \/ m \in delivered[e]
    BY <1>1, <1>5 DEF NothingLost
  <2>1. m \in Seqs
    BY ConstantsAssumption DEF TypeOK, Seqs
  <2> QED
    BY <1>3, <1>4, <2>1 DEF NothingLost
<1> QED
  BY <1>7, <1>8, <1>9, <1>10

\* A deleted Destination takes its queue with it.
LEMMA QueueDelete ==
    ASSUME TypeOK, QueueInv, NEW d \in Dest, Delete(d)
    PROVE  QueueInv'
<1> USE DEF QueueInv
<1>1. UNCHANGED <<body, lastSeq, delivered, requeued, pc, job>>
  BY DEF Delete, memVars, envVars
<1>2. \A e \in Dest : /\ e # d => row'[e] = row[e] /\ (Exists(e)' <=> Exists(e))
                      /\ e = d => ~Exists(e)' /\ \A s \in Seqs : row'[e][s] = "NONE"
  BY DEF Delete, TypeOK, Exists
<1>3. \A e \in Dest : Pending(e)' \subseteq Pending(e)
  BY <1>2 DEF Pending
<1>4. RowInv'
  BY <1>1, <1>2 DEF RowInv
<1>5. AttemptInv'
  <2> SUFFICES ASSUME NEW k \in Drainers, pc[k] \in {"send", "save"}
               PROVE  AttemptOK(k)'
    BY <1>1 DEF AttemptInv
  <2>1. AttemptOK(k) /\ job[k].d \in Dest /\ job[k].s \in Seqs
    BY DEF AttemptInv, TypeOK
  <2> QED
    BY <1>1, <1>2, <1>3, <2>1 DEF AttemptOK
<1>6. NoOvertaking'
  BY <1>1, <1>3 DEF NoOvertaking
<1>7. NothingLost'
  BY <1>1, <1>2 DEF NothingLost
<1> QED
  BY <1>4, <1>5, <1>6, <1>7

LEMMA QueueInit == Init => QueueInv
<1> SUFFICES ASSUME Init PROVE QueueInv
  OBVIOUS
<1> USE ConstantsAssumption
<1>1. \A d \in Dest : \A s \in Seqs : row[d][s] # "NONE" => s <= Legacy
  BY DEF Init, Seqs
<1>2. RowInv
  BY <1>1 DEF Init, RowInv, Exists
<1>3. AttemptInv /\ NoOvertaking
  BY DEF Init, AttemptInv, NoOvertaking
<1>4. NothingLost
  BY DEF Init, NothingLost
<1> QED
  BY <1>2, <1>3, <1>4 DEF QueueInv

\* Per Destination the endpoint takes rows in order except those staff put back,
\* and no row with a sound payload leaves the queue untaken, for any number of
\* Destinations, rows, drains, crashes, outages and requeues.
THEOREM QueueCorrect == Spec => []QueueInv
<1>1. TypeOK /\ FlightInv /\ QueueInv /\ [Next]_vars => QueueInv'
  <2> SUFFICES ASSUME TypeOK, FlightInv, QueueInv, [Next]_vars PROVE QueueInv'
    OBVIOUS
  <2>1. \A D \in SUBSET Dest : Emit(D) => QueueInv'
    <3> SUFFICES ASSUME NEW D \in SUBSET Dest, Emit(D) PROVE QueueInv'
      OBVIOUS
    <3>1. \A d \in D : Exists(d)
      BY DEF Emit, Exists
    <3>2. UNCHANGED <<dest, pc, job, delivered, requeued>>
      BY DEF Emit, envVars
    <3> QED
      BY <3>1, <3>2, QueueEnqueue DEF Emit
  <2>2. \A k \in Drainers : FindHead(k) => QueueInv'
    BY QueueFindHead
  <2>3. \A k \in Drainers : Send(k) => QueueInv'
    BY QueueSend
  <2>4. \A k \in Drainers : Save(k) => QueueInv'
    BY QueueSave
  <2>5. \A k \in Drainers : PassEnd(k) => QueueInv'
    BY QueueDrainFrame DEF PassEnd, TypeOK, dbVars, envVars
  <2>6. \A k \in Drainers : SaveMissingRow(k) => QueueInv'
    BY QueueDrainFrame DEF SaveMissingRow, Reject, TypeOK, dbVars
  <2>7. \A k \in Drainers : DbError(k) => QueueInv'
    BY QueueDrainFrame DEF DbError, Reject, TypeOK, dbVars
  <2>8. \A d \in Dest : Ping(d) => QueueInv'
    <3> SUFFICES ASSUME NEW d \in Dest, Ping(d) PROVE QueueInv'
      OBVIOUS
    <3>1. Enqueue({d}, "PENDING", "json") /\ Exists(d)
      BY DEF Ping
    <3>2. UNCHANGED <<dest, pc, job, delivered, requeued>>
      BY DEF Ping, envVars
    <3> QED
      BY <3>1, <3>2, QueueEnqueue
  <2>9. \A d \in Dest : Wake(d) => QueueInv'
    BY QueueDrainFrame DEF Wake, TypeOK, dbVars
  <2>10. \A d \in Dest : Sweep(d) => QueueInv'
    <3> SUFFICES ASSUME NEW d \in Dest, Sweep(d) PROVE QueueInv'
      OBVIOUS
    <3>1. PICK st \in {"SUCCESS", "FAILED"} : \E old \in SUBSET Sweepable(d, st) :
             row' = [row EXCEPT ![d] = [s \in Seqs |-> IF s \in old THEN "NONE" ELSE @[s]]]
      BY DEF Sweep
    <3>2. \A e \in Dest : \A s \in Seqs :
             row'[e][s] = row[e][s] \/ (row[e][s] # "PENDING" /\ row'[e][s] = "NONE")
      BY <3>1 DEF Sweepable, TypeOK
    <3> QED
      BY <3>2, QueueShrink DEF Sweep, memVars, envVars
  <2>11. \A d \in Dest : Delete(d) => QueueInv'
    BY QueueDelete
  <2>12. \A d \in Dest : RequeueWrite(d) => QueueInv'
    <3> SUFFICES ASSUME NEW d \in Dest, RequeueWrite(d) PROVE QueueInv'
      OBVIOUS
    <3>1. UNCHANGED <<dest, lastSeq, body, pc, job, delivered>>
      BY DEF RequeueWrite
    <3>2. CASE row[d][requeuing[d]] # "NONE"
      <4>1. PutBack(d, {requeuing[d]}) /\ requeuing[d] \in Seqs
        BY <3>2 DEF RequeueWrite, TypeOK, NoRow, Seqs
      <4> QED
        BY <3>1, <3>2, <4>1, QueuePutBack
    <3>3. CASE row[d][requeuing[d]] = "NONE"
      BY <3>1, <3>3, QueueFrame DEF RequeueWrite, Exists
    <3> QED
      BY <3>2, <3>3
  <2>13. \A d \in Dest : RequeueFailed(d) => QueueInv'
    BY QueuePutBack DEF RequeueFailed, Requeueable
  <2>14. \A d \in Dest : Outage(d) => QueueInv'
    BY QueueFrame DEF Outage, dbVars, memVars, Exists
  <2>15. \A d \in Dest : Recovery(d) => QueueInv'
    BY QueueFrame DEF Recovery, dbVars, memVars, Exists
  <2>16. \A d \in Dest, on \in BOOLEAN : SetActive(d, on) => QueueInv'
    <3> SUFFICES ASSUME NEW d \in Dest, NEW on \in BOOLEAN, SetActive(d, on)
                 PROVE  QueueInv'
      OBVIOUS
    <3>1. \A e \in Dest : Exists(e)' <=> Exists(e)
      BY DEF SetActive, Exists, TypeOK
    <3> QED
      BY <3>1, QueueFrame DEF SetActive, envVars
  <2>17. \A d \in Dest, s \in Seqs : BackoffElapses(d, s) => QueueInv'
    BY QueueFrame DEF BackoffElapses, memVars, Exists
  <2>18. \A d \in Dest, s \in Seqs : RequeueRead(d, s) => QueueInv'
    BY QueueFrame DEF RequeueRead, dbVars, Exists
  <2>19. SafetyTick => QueueInv'
    BY QueueFrame DEF SafetyTick, dbVars, envVars, Exists
  <2>20. Crash => QueueInv'
    BY QueueDrainFrame DEF Crash, dbVars
  <2>21. UNCHANGED vars => QueueInv'
    BY QueueFrame DEF vars, Exists
  <2> QED
    BY <2>1, <2>2, <2>3, <2>4, <2>5, <2>6, <2>7, <2>8, <2>9, <2>10, <2>11, <2>12,
       <2>13, <2>14, <2>15, <2>16, <2>17, <2>18, <2>19, <2>20, <2>21, NextCases
<1> QED
  BY <1>1, QueueInit, TypeCorrect, FlightCorrect, PTL DEF Spec

\* ADR-0007 decision 5: one drain per Destination (drainDestination).
THEOREM SingleFlightHolds == Spec => []SingleFlight
<1>1. FlightInv => SingleFlight
  BY DEF FlightInv
<1> QED
  BY <1>1, FlightCorrect, PTL

\* ADR-0007 decision 2: strict FIFO with a stall (drainOnce).
THEOREM NoOvertakingHolds == Spec => []NoOvertaking
<1>1. QueueInv => NoOvertaking
  BY DEF QueueInv
<1> QED
  BY <1>1, QueueCorrect, PTL

\* A committed message is waiting or was taken: drainOnce, sweepRetention and the
\* requeue routes drop none.
THEOREM NothingLostHolds == Spec => []NothingLost
<1>1. QueueInv => NothingLost
  BY DEF QueueInv
<1> QED
  BY <1>1, QueueCorrect, PTL

\* No step settles or removes a row while a drain is sending it, short of deleting
\* its Destination.
THEOREM AttemptOwnsRowHolds == Spec => []AttemptOwnsRow
<1>1. TypeOK /\ QueueInv => AttemptOwnsRow
  BY DEF TypeOK, QueueInv, AttemptInv, AttemptOK, AttemptOwnsRow, Exists
<1> QED
  BY <1>1, TypeCorrect, QueueCorrect, PTL

-----------------------------------------------------------------------------
(* No wake is lost.                                                        *)

\* The two halves of WakeInv, per Destination and per drain.
WakeOK(d) ==
    dest[d] = "active" /\ (\E s \in Seqs : IsHead(d, s) /\ due[d][s]) =>
        \/ d \in waking \/ d \in excused
        \/ d \in inflight /\ (d \in rerun \/ Looking(d))

OlderOK(k) ==
    pc[k] \in {"send", "save"} /\ (\E t \in Pending(job[k].d) : t < job[k].s) =>
        job[k].d \in waking \cup excused \cup rerun

LEMMA WakeParts ==
    WakeInv <=> (\A d \in Dest : WakeOK(d)) /\ (\A k \in Drainers : OlderOK(k))
  BY DEF WakeInv, WakeOK, OlderOK

\* A step outside the drains wakes or excuses every Destination whose queue it
\* changes, unless it leaves that queue empty.
LEMMA WakeFrame ==
    ASSUME TypeOK, WakeInv, UNCHANGED <<pc, job, inflight, rerun>>,
           waking \subseteq waking', excused \subseteq excused',
           \A d \in Dest :
              \/ d \in waking' \/ d \in excused'
              \/ Pending(d)' = {}
              \/ /\ Pending(d)' = Pending(d) /\ due'[d] = due[d]
                 /\ dest'[d] = "active" => dest[d] = "active"
    PROVE  WakeInv'
<1>1. \A d : Looking(d)' <=> Looking(d)
  BY DEF Looking
<1>2. ASSUME NEW d \in Dest PROVE WakeOK(d)'
  BY <1>1 DEF WakeInv, WakeOK, IsHead
<1>3. ASSUME NEW k \in Drainers PROVE OlderOK(k)'
  <2>1. CASE pc[k] \in {"send", "save"}
    <3>1. job[k].d \in Dest
      BY <2>1 DEF TypeOK
    <3> QED
      BY <3>1 DEF WakeInv, OlderOK
  <2>2. CASE pc[k] \notin {"send", "save"}
    BY <2>2 DEF OlderOK
  <2> QED
    BY <2>1, <2>2
<1>4. ((\A d \in Dest : WakeOK(d)) /\ (\A k \in Drainers : OlderOK(k)))'
  BY <1>2, <1>3
<1> QED
  BY <1>4 DEF WakeInv, WakeOK, OlderOK

\* A step of drain k leaves what the other Destinations and drains can count on.
LEMMA WakeElsewhere ==
    ASSUME TypeOK, FlightInv, WakeInv, NEW k \in Drainers, Busy(k),
           UNCHANGED <<dest, waking>>, excused \subseteq excused',
           \A j \in Drainers : j # k => pc'[j] = pc[j] /\ job'[j] = job[j],
           \A e \in Dest : e # job[k].d =>
              /\ row'[e] = row[e] /\ due'[e] = due[e]
              /\ e \in rerun => e \in rerun'
              /\ e \in inflight => e \in inflight'
    PROVE  /\ \A e \in Dest : e # job[k].d => WakeOK(e)'
           /\ \A j \in Drainers : j # k => OlderOK(j)'
<1>1. ASSUME NEW e \in Dest, e # job[k].d PROVE WakeOK(e)'
  <2>1. Looking(e) => Looking(e)'
    BY <1>1 DEF Looking
  <2>2. \A s : IsHead(e, s)' <=> IsHead(e, s)
    BY <1>1 DEF IsHead, Pending
  <2> QED
    BY <1>1, <2>1, <2>2 DEF WakeInv, WakeOK
<1>2. ASSUME NEW j \in Drainers, j # k PROVE OlderOK(j)'
  <2>1. CASE pc[j] \in {"send", "save"}
    <3>1. job[j].d \in Dest /\ job[j].d # job[k].d
      BY <1>2, <2>1 DEF TypeOK, FlightInv, SingleFlight, Busy
    <3>2. Pending(job[j].d)' = Pending(job[j].d)
      BY <1>2, <3>1 DEF Pending
    <3> QED
      BY <1>2, <3>1, <3>2 DEF WakeInv, OlderOK
  <2>2. CASE pc[j] \notin {"send", "save"}
    BY <1>2, <2>2 DEF OlderOK
  <2> QED
    BY <2>1, <2>2
<1> QED
  BY <1>1, <1>2

LEMMA WakeJoin ==
    ASSUME NEW k \in Drainers, NEW d \in Dest,
           \A e \in Dest : e # d => WakeOK(e)',
           \A j \in Drainers : j # k => OlderOK(j)',
           WakeOK(d)', OlderOK(k)'
    PROVE  WakeInv'
<1>1. \A e \in Dest : WakeOK(e)'
  OBVIOUS
<1>2. \A j \in Drainers : OlderOK(j)'
  OBVIOUS
<1> QED
  BY <1>1, <1>2 DEF WakeInv, WakeOK, OlderOK

\* The head just read is the oldest row; a pass ends only on a head that is not
\* due, or on a Destination that is not active.
LEMMA WakeFindHead ==
    ASSUME TypeOK, FlightInv, WakeInv, NEW k \in Drainers, FindHead(k)
    PROVE  WakeInv'
<1>0. PICK d \in Dest : d = job[k].d
  BY DEF FindHead, TypeOK
<1>1. /\ UNCHANGED <<dest, row, due, waking, excused, rerun, inflight>>
      /\ pc[k] = "query" /\ Busy(k)
  BY DEF FindHead, dbVars, envVars, Busy
<1>2. d \in Dest /\ d \in inflight
  BY <1>0, <1>1 DEF TypeOK, FlightInv, Busy
<1>3. \A j \in Drainers : j # k => pc'[j] = pc[j] /\ job'[j] = job[j]
  BY DEF FindHead, TypeOK
<1>4. \A e, s : /\ Pending(e)' = Pending(e)
                /\ IsHead(e, s)' <=> IsHead(e, s)
  BY <1>1 DEF Pending, IsHead
<1>5. WakeOK(d)' /\ OlderOK(k)'
  <2>1. CASE \E s \in Seqs : IsHead(d, s) /\ dest[d] = "active" /\ due[d][s]
    <3>1. PICK s \in Seqs, p \in {"send", "save"}, res \in {"none", "bad"} :
             /\ IsHead(d, s)
             /\ pc' = [pc EXCEPT ![k] = p] /\ job' = [job EXCEPT ![k] = Work(d, s, res)]
      BY <1>0, <2>1 DEF FindHead
    <3>2. pc'[k] = p /\ job'[k].d = d /\ job'[k].s = s
      BY <3>1 DEF TypeOK, Work
    <3>3. Looking(d)'
      BY <3>2 DEF Looking
    <3>4. \A t \in Pending(d) : ~(t < s)
      BY <3>1 DEF IsHead, Pending, Seqs
    <3> QED
      BY <1>1, <1>2, <1>4, <3>2, <3>3, <3>4 DEF WakeOK, OlderOK
  <2>2. CASE ~\E s \in Seqs : IsHead(d, s) /\ dest[d] = "active" /\ due[d][s]
    <3>1. pc'[k] = "passEnd"
      BY <1>0, <2>2 DEF FindHead, TypeOK
    <3> QED
      BY <1>1, <1>4, <2>2, <3>1 DEF WakeOK, OlderOK
  <2> QED
    BY <2>1, <2>2
<1>6. /\ \A e \in Dest : e # d => WakeOK(e)'
      /\ \A j \in Drainers : j # k => OlderOK(j)'
  BY <1>0, <1>1, <1>3, WakeElsewhere
<1> QED
  BY <1>2, <1>5, <1>6, WakeJoin

LEMMA WakeSend ==
    ASSUME TypeOK, FlightInv, WakeInv, NEW k \in Drainers, Send(k)
    PROVE  WakeInv'
<1>0. PICK d \in Dest, s \in Seqs : d = job[k].d /\ s = job[k].s
  BY DEF Send, TypeOK
<1>1. /\ UNCHANGED <<dest, row, due, waking, excused, rerun, inflight>>
      /\ pc[k] = "send" /\ Busy(k) /\ pc' = [pc EXCEPT ![k] = "save"]
  BY DEF Send, dbVars, Busy
<1>2. d \in Dest /\ d \in inflight
  BY <1>0, <1>1 DEF TypeOK, FlightInv, Busy
<1>3. PICK res \in {"ok", "fail"} : job' = [job EXCEPT ![k] = Work(d, s, res)]
  BY <1>0 DEF Send
<1>4. /\ \A j \in Drainers : j # k => pc'[j] = pc[j] /\ job'[j] = job[j]
      /\ pc'[k] = "save" /\ job'[k].d = d /\ job'[k].s = s
  BY <1>1, <1>3 DEF TypeOK, Work
<1>5. \A e : Pending(e)' = Pending(e)
  BY <1>1 DEF Pending
<1>6. WakeOK(d)'
  <2>1. Looking(d)'
    BY <1>4 DEF Looking
  <2> QED
    BY <1>1, <1>2, <2>1 DEF WakeOK
<1>7. OlderOK(k)'
  BY <1>0, <1>1, <1>4, <1>5 DEF WakeInv, OlderOK
<1>8. /\ \A e \in Dest : e # d => WakeOK(e)'
      /\ \A j \in Drainers : j # k => OlderOK(j)'
  BY <1>0, <1>1, <1>4, WakeElsewhere
<1> QED
  BY <1>2, <1>6, <1>7, <1>8, WakeJoin

\* A failed attempt ends the pass: the row it tried backs off, and a row older than
\* it has a wake on the way.
LEMMA WakeSave ==
    ASSUME TypeOK, FlightInv, QueueInv, WakeInv, NEW k \in Drainers, Save(k)
    PROVE  WakeInv'
<1>0. PICK d \in Dest, s \in Seqs : d = job[k].d /\ s = job[k].s
  BY DEF Save, TypeOK
<1> DEFINE res == job[k].res
<1>1. /\ UNCHANGED <<dest, waking, excused, rerun, inflight>>
      /\ pc[k] = "save" /\ Busy(k)
  BY DEF Save, envVars, Busy, TypeOK
<1>2. d \in inflight
  BY <1>0, <1>1 DEF FlightInv
<1>3. /\ \A j \in Drainers : j # k => pc'[j] = pc[j] /\ job'[j] = job[j]
      /\ pc'[k] = IF res = "fail" THEN "passEnd" ELSE "query"
      /\ job'[k].d = d
  BY <1>0 DEF Save, TypeOK, Work
<1>4. /\ row' = [row EXCEPT ![d][s] = StatusAfter(res)]
      /\ due' = [due EXCEPT ![d][s] = IF res = "fail" THEN FALSE ELSE @]
      /\ row[d][s] # "NONE"
  BY <1>0 DEF Save
<1>5. \A e \in Dest : e # d => row'[e] = row[e] /\ due'[e] = due[e]
  BY <1>4 DEF TypeOK
<1>6. OlderOK(k)'
  BY <1>3 DEF OlderOK
<1>7. WakeOK(d)'
  <2>1. CASE res # "fail"
    <3>1. Looking(d)'
      BY <1>3, <2>1 DEF Looking
    <3> QED
      BY <1>1, <1>2, <3>1 DEF WakeOK
  <2>2. CASE res = "fail"
    <3>1. row[d][s] = "PENDING"
      BY <1>0, <1>1, <1>4 DEF QueueInv, AttemptInv, AttemptOK, RowInv
    <3>2. ~due'[d][s] /\ Pending(d)' = Pending(d) /\ s \in Pending(d)
      BY <1>1, <1>4, <2>2, <3>1 DEF TypeOK, Pending, StatusAfter
    <3>3. ASSUME NEW t \in Seqs, IsHead(d, t)', due'[d][t]
          PROVE  d \in waking \cup excused \cup rerun
      <4>1. t \in Pending(d) /\ t < s
        BY <1>1, <3>2, <3>3 DEF IsHead, Seqs
      <4> QED
        BY <1>0, <1>1, <4>1 DEF WakeInv
    <3> QED
      BY <1>1, <1>2, <3>3 DEF WakeOK
  <2> QED
    BY <2>1, <2>2
<1>8. /\ \A e \in Dest : e # d => WakeOK(e)'
      /\ \A j \in Drainers : j # k => OlderOK(j)'
  BY <1>0, <1>1, <1>3, <1>5, WakeElsewhere
<1> QED
  BY <1>1, <1>6, <1>7, <1>8, WakeJoin

\* A wake that came in during the pass is one more pass; without one the head the
\* drain leaves behind is not due or has its wake on the way.
LEMMA WakePassEnd ==
    ASSUME TypeOK, FlightInv, WakeInv, NEW k \in Drainers, PassEnd(k)
    PROVE  WakeInv'
<1>0. PICK d \in Dest : d = job[k].d
  BY DEF PassEnd, TypeOK
<1>1. /\ UNCHANGED <<dest, row, due, waking, excused>>
      /\ pc[k] = "passEnd" /\ Busy(k)
  BY DEF PassEnd, dbVars, envVars, Busy, TypeOK
<1>2. d \in inflight
  BY <1>0, <1>1 DEF FlightInv
<1>3. \A j \in Drainers : j # k => pc'[j] = pc[j] /\ job'[j] = job[j]
  BY DEF PassEnd, TypeOK
<1>4. \A e, s : IsHead(e, s)' <=> IsHead(e, s)
  BY <1>1 DEF Pending, IsHead
<1>5. OlderOK(k)'
  BY DEF PassEnd, TypeOK, OlderOK
<1>6. CASE RunsAgain(d)
  <2>1. /\ rerun' = rerun \ {d} /\ UNCHANGED <<job, inflight>>
        /\ pc'[k] = "query"
    BY <1>0, <1>6 DEF PassEnd, TypeOK
  <2>2. Looking(d)'
    BY <1>0, <2>1 DEF Looking
  <2>3. WakeOK(d)'
    BY <1>2, <2>1, <2>2 DEF WakeOK
  <2>4. /\ \A e \in Dest : e # d => WakeOK(e)'
        /\ \A j \in Drainers : j # k => OlderOK(j)'
    BY <1>0, <1>1, <1>3, <2>1, WakeElsewhere
  <2> QED
    BY <1>1, <1>5, <2>3, <2>4, WakeJoin
<1>7. CASE ~RunsAgain(d)
  <2>1. inflight' = inflight \ {d} /\ UNCHANGED rerun /\ d \notin rerun
    BY <1>0, <1>7 DEF PassEnd, Released, RunsAgain
  <2>2. ~Looking(d)
    BY <1>0, <1>1 DEF Looking, FlightInv, SingleFlight, Busy
  <2>3. WakeOK(d)'
    BY <1>1, <1>4, <2>1, <2>2 DEF WakeInv, WakeOK
  <2>4. /\ \A e \in Dest : e # d => WakeOK(e)'
        /\ \A j \in Drainers : j # k => OlderOK(j)'
    BY <1>0, <1>1, <1>3, <2>1, WakeElsewhere
  <2> QED
    BY <1>1, <1>5, <2>3, <2>4, WakeJoin
<1> QED
  BY <1>6, <1>7

LEMMA WakeReject ==
    ASSUME TypeOK, FlightInv, WakeInv, NEW k \in Drainers, Busy(k), Reject(k)
    PROVE  WakeInv'
<1>0. PICK d \in Dest : d = job[k].d
  BY DEF Busy, TypeOK
<1>1. /\ UNCHANGED <<dest, row, due, waking, rerun>>
      /\ excused' = excused \cup {d} /\ inflight' = inflight \ {d}
  BY <1>0 DEF Reject, dbVars, Busy, TypeOK, Released
<1>2. \A j \in Drainers : j # k => pc'[j] = pc[j] /\ job'[j] = job[j]
  BY DEF Reject, TypeOK
<1>3. OlderOK(k)' /\ WakeOK(d)'
  BY <1>1 DEF Reject, TypeOK, OlderOK, WakeOK
<1>4. /\ \A e \in Dest : e # d => WakeOK(e)'
      /\ \A j \in Drainers : j # k => OlderOK(j)'
  BY <1>0, <1>1, <1>2, WakeElsewhere
<1> QED
  BY <1>1, <1>3, <1>4, WakeJoin

\* The wake joins the running drain as a rerun, or starts a drain that looks.
LEMMA WakeWake ==
    ASSUME TypeOK, FlightInv, WakeInv, NEW d \in Dest, Wake(d)
    PROVE  WakeInv'
<1>1. UNCHANGED <<dest, row, due>> /\ waking' = waking \ {d}
  BY DEF Wake, dbVars
<1>2. \A e, s : /\ Pending(e)' = Pending(e)
                /\ IsHead(e, s)' <=> IsHead(e, s)
  BY <1>1 DEF Pending, IsHead
<1>3. CASE Joins(d)
  <2>1. UNCHANGED <<pc, job, inflight, excused>> /\ rerun' = rerun \cup {d} /\ d \in inflight
    BY <1>3 DEF Wake, Joins
  <2>2. \A e : Looking(e)' <=> Looking(e)
    BY <2>1 DEF Looking
  <2>3. \A e \in Dest : WakeOK(e)'
    BY <1>1, <1>2, <2>1, <2>2 DEF WakeInv, WakeOK
  <2>4. \A k \in Drainers : OlderOK(k)'
    BY <1>1, <1>2, <2>1 DEF WakeInv, OlderOK
  <2> QED
    BY <2>3, <2>4 DEF WakeInv, WakeOK, OlderOK
<1>4. CASE ~Joins(d)
  <2>1. PICK k \in Drainers :
           /\ pc[k] = "idle" /\ pc' = [pc EXCEPT ![k] = "query"]
           /\ job' = [job EXCEPT ![k] = Work(d, NoRow, "none")]
    BY <1>4 DEF Wake
  <2>2. /\ inflight' = inflight \cup {d} /\ d \notin inflight
        /\ rerun' = rerun \ {d} /\ excused' = excused \ {d}
    BY <1>4 DEF Wake, Joins
  <2>3. /\ pc'[k] = "query" /\ job'[k].d = d
        /\ \A j \in Drainers : j # k => pc'[j] = pc[j] /\ job'[j] = job[j]
    BY <2>1 DEF TypeOK, Work
  <2>4. ASSUME NEW e \in Dest PROVE WakeOK(e)'
    <3>1. CASE e = d
      <4>1. Looking(d)'
        BY <2>3 DEF Looking
      <4> QED
        BY <2>2, <3>1, <4>1 DEF WakeOK
    <3>2. CASE e # d
      <4>1. Looking(e) => Looking(e)'
        BY <2>1, <2>3 DEF Looking
      <4> QED
        BY <1>1, <1>2, <2>2, <3>2, <4>1 DEF WakeInv, WakeOK
    <3> QED
      BY <3>1, <3>2
  <2>5. ASSUME NEW j \in Drainers PROVE OlderOK(j)'
    <3>1. CASE j = k
      BY <2>3, <3>1 DEF OlderOK
    <3>2. CASE j # k /\ pc[j] \in {"send", "save"}
      <4>1. job[j].d # d
        BY <2>2, <3>2 DEF FlightInv, Busy
      <4> QED
        BY <1>1, <1>2, <2>2, <2>3, <3>2, <4>1 DEF WakeInv, OlderOK
    <3>3. CASE j # k /\ pc[j] \notin {"send", "save"}
      BY <2>3, <3>3 DEF OlderOK
    <3> QED
      BY <3>1, <3>2, <3>3
  <2> QED
    BY <2>4, <2>5 DEF WakeInv, WakeOK, OlderOK
<1> QED
  BY <1>3, <1>4

LEMMA WakeEnqueue ==
    ASSUME TypeOK, NEW D \in SUBSET Dest, NEW st, NEW pl, Enqueue(D, st, pl)
    PROVE  \A d \in Dest : d \notin D => Pending(d)' = Pending(d) /\ due'[d] = due[d]
  BY DEF Enqueue, TypeOK, Pending

LEMMA WakePutBack ==
    ASSUME TypeOK, NEW d \in Dest, NEW S, PutBack(d, S)
    PROVE  /\ \A e \in Dest : e # d => Pending(e)' = Pending(e) /\ due'[e] = due[e]
           /\ waking' = waking \cup {d}
  BY DEF PutBack, TypeOK, Pending

LEMMA WakeStep ==
    ASSUME TypeOK, FlightInv, QueueInv, WakeInv, [Next]_vars
    PROVE  WakeInv'
<1>1. \A D \in SUBSET Dest : Emit(D) => WakeInv'
  BY WakeEnqueue, WakeFrame DEF Emit, envVars
<1>2. \A k \in Drainers : FindHead(k) => WakeInv'
  BY WakeFindHead
<1>3. \A k \in Drainers : Send(k) => WakeInv'
  BY WakeSend
<1>4. \A k \in Drainers : Save(k) => WakeInv'
  BY WakeSave
<1>5. \A k \in Drainers : PassEnd(k) => WakeInv'
  BY WakePassEnd
<1>6. \A k \in Drainers : SaveMissingRow(k) => WakeInv'
  BY WakeReject DEF SaveMissingRow, Busy
<1>7. \A k \in Drainers : DbError(k) => WakeInv'
  BY WakeReject DEF DbError, Busy
<1>8. \A d \in Dest : Ping(d) => WakeInv'
  <2> SUFFICES ASSUME NEW d \in Dest, Ping(d) PROVE WakeInv'
    OBVIOUS
  <2>1. \A e \in Dest : e \notin {d} => Pending(e)' = Pending(e) /\ due'[e] = due[e]
    BY WakeEnqueue DEF Ping
  <2> QED
    BY <2>1, WakeFrame DEF Ping, envVars
<1>9. \A d \in Dest : Wake(d) => WakeInv'
  BY WakeWake
<1>10. \A d \in Dest : Sweep(d) => WakeInv'
  <2> SUFFICES ASSUME NEW d \in Dest, Sweep(d) PROVE WakeInv'
    OBVIOUS
  <2>1. PICK st \in {"SUCCESS", "FAILED"} : \E old \in SUBSET Sweepable(d, st) :
           row' = [row EXCEPT ![d] = [s \in Seqs |-> IF s \in old THEN "NONE" ELSE @[s]]]
    BY DEF Sweep
  <2>2. \A e \in Dest : \A s \in Seqs :
           row'[e][s] = row[e][s] \/ (row[e][s] # "PENDING" /\ row'[e][s] = "NONE")
    BY <2>1 DEF Sweepable, TypeOK
  <2>3. \A e \in Dest : Pending(e)' = Pending(e)
    BY <2>2 DEF Pending
  <2> QED
    BY <2>3, WakeFrame DEF Sweep, memVars, envVars
<1>11. \A d \in Dest : Delete(d) => WakeInv'
  <2> SUFFICES ASSUME NEW d \in Dest, Delete(d) PROVE WakeInv'
    OBVIOUS
  <2>1. Pending(d)' = {}
    BY DEF Delete, TypeOK, Pending
  <2>2. \A e \in Dest : e # d => Pending(e)' = Pending(e) /\ dest'[e] = dest[e]
    BY DEF Delete, TypeOK, Pending
  <2> QED
    BY <2>1, <2>2, WakeFrame DEF Delete, memVars, envVars
<1>12. \A d \in Dest : RequeueWrite(d) => WakeInv'
  <2> SUFFICES ASSUME NEW d \in Dest, RequeueWrite(d) PROVE WakeInv'
    OBVIOUS
  <2>1. CASE row[d][requeuing[d]] # "NONE"
    BY <2>1, WakePutBack, WakeFrame DEF RequeueWrite
  <2>2. CASE row[d][requeuing[d]] = "NONE"
    BY <2>2, WakeFrame DEF RequeueWrite, Pending
  <2> QED
    BY <2>1, <2>2
<1>13. \A d \in Dest : RequeueFailed(d) => WakeInv'
  BY WakePutBack, WakeFrame DEF RequeueFailed
<1>14. \A d \in Dest : Outage(d) => WakeInv'
  BY WakeFrame DEF Outage, dbVars, memVars, Pending
<1>15. \A d \in Dest : Recovery(d) => WakeInv'
  BY WakeFrame DEF Recovery, dbVars, memVars, Pending
<1>16. \A d \in Dest, on \in BOOLEAN : SetActive(d, on) => WakeInv'
  <2> SUFFICES ASSUME NEW d \in Dest, NEW on \in BOOLEAN, SetActive(d, on)
               PROVE  WakeInv'
    OBVIOUS
  <2>1. \A e \in Dest : \/ e = d /\ on
                        \/ dest'[e] = "active" => dest[e] = "active"
    BY DEF SetActive, TypeOK
  <2>2. UNCHANGED <<row, due>> /\ (on => d \in waking') /\ waking \subseteq waking'
    BY DEF SetActive
  <2> QED
    BY <2>1, <2>2, WakeFrame DEF SetActive, envVars, Pending
<1>17. \A d \in Dest, s \in Seqs : BackoffElapses(d, s) => WakeInv'
  <2> SUFFICES ASSUME NEW d \in Dest, NEW s \in Seqs, BackoffElapses(d, s)
               PROVE  WakeInv'
    OBVIOUS
  <2>1. \A e \in Dest : e # d => due'[e] = due[e]
    BY DEF BackoffElapses, TypeOK
  <2> QED
    BY <2>1, WakeFrame DEF BackoffElapses, memVars, Pending
<1>18. \A d \in Dest, s \in Seqs : RequeueRead(d, s) => WakeInv'
  BY WakeFrame DEF RequeueRead, dbVars, Pending
<1>19. SafetyTick => WakeInv'
  BY WakeFrame DEF SafetyTick, dbVars, envVars, Pending
<1>20. Crash => WakeInv'
  BY DEF Crash, TypeOK, WakeInv
<1>21. UNCHANGED vars => WakeInv'
  BY WakeFrame DEF vars, Pending
<1> QED
  BY <1>1, <1>2, <1>3, <1>4, <1>5, <1>6, <1>7, <1>8, <1>9, <1>10, <1>11, <1>12,
     <1>13, <1>14, <1>15, <1>16, <1>17, <1>18, <1>19, <1>20, <1>21, NextCases

\* Every due head has a drain that will still look at it, a wake on its way, or an
\* event only the safety tick answers (drainDestination's inflight and rerun).
THEOREM WakeCorrect == Spec => []WakeInv
<1>1. Init => WakeInv
  BY DEF Init, WakeInv
<1>2. TypeOK /\ FlightInv /\ QueueInv /\ WakeInv /\ [Next]_vars => WakeInv'
  BY WakeStep
<1> QED
  BY <1>1, <1>2, TypeCorrect, FlightCorrect, QueueCorrect, PTL DEF Spec

\* ADR-0007 decision 5: a wake that arrives while a drain is running is not lost.
THEOREM NoLostWakeHolds == Spec => []NoLostWake
<1>1. WakeInv => NoLostWake
  BY DEF WakeInv, NoLostWake
<1> QED
  BY <1>1, WakeCorrect, PTL

-----------------------------------------------------------------------------
(* The dispatcher implements WebhookQueue.                                 *)

\* The abstract queue's state, as the refinement mapping computes it.
Open == {d \in Dest : Exists(d)}
Sound == [d \in Dest |-> {s \in Seqs : body[d][s] = "json"}]
Wait == [d \in Dest |-> Pending(d)]

\* A step that keeps rows, payloads and both histories is invisible to the queue.
LEMMA MapStutter ==
    ASSUME \A d \in Dest : Exists(d)' <=> Exists(d),
           UNCHANGED <<row, body, lastSeq, delivered, requeued>>
    PROVE  UNCHANGED Queue!vars
  BY DEF Queue!vars, Pending

LEMMA MapInit == Init => Queue!Init
<1> SUFFICES ASSUME Init PROVE Queue!Init
  OBVIOUS
<1> USE ConstantsAssumption
<1>1. {d \in Dest : Exists(d)} = Dest
  BY DEF Init, Exists
<1>2. lastSeq \in [Dest -> 0..MaxSeq]
  BY DEF Init
<1>3. \A d \in Dest : Pending(d) \subseteq 1..lastSeq[d]
  BY DEF Init, Pending, Seqs
<1>4. /\ [d \in Dest |-> {s \in Seqs : body[d][s] = "json"}] \in [Dest -> SUBSET Seqs]
      /\ [d \in Dest |-> Pending(d)] \in [Dest -> SUBSET Seqs]
  BY DEF Pending
<1>5. delivered = [d \in Dest |-> {}] /\ requeued = [d \in Dest |-> {}]
  BY DEF Init
<1> QED
  BY <1>1, <1>2, <1>3, <1>4, <1>5 DEF Queue!Init, Queue!Seqs, Seqs

\* An enqueued row is a committed message: a PENDING row with its payload waits, a
\* FAILED row without one is unsound and never waits.
LEMMA MapEnqueue ==
    ASSUME TypeOK, QueueInv, NEW D \in SUBSET Dest, \A d \in D : Exists(d),
           \/ Enqueue(D, "PENDING", "json")
           \/ Enqueue(D, "FAILED", "unbuilt"),
           UNCHANGED <<dest, delivered, requeued>>
    PROVE  Queue!Next
<1>1. PICK st \in {"PENDING", "FAILED"}, pl \in {"json", "unbuilt"} :
         /\ Enqueue(D, st, pl)
         /\ (st = "PENDING") <=> (pl = "json")
  OBVIOUS
<1>2. \A d \in D : lastSeq[d] \in Nat /\ lastSeq[d] < MaxSeq /\ lastSeq[d] + 1 \in Seqs
  BY <1>1, ConstantsAssumption DEF Enqueue, TypeOK, Seqs
<1>3. \A d \in Dest : \A s \in Seqs :
         /\ row'[d][s] = IF d \in D /\ s = lastSeq[d] + 1 THEN st ELSE row[d][s]
         /\ body'[d][s] = IF d \in D /\ s = lastSeq[d] + 1 THEN pl ELSE body[d][s]
  BY <1>1, <1>2 DEF Enqueue, TypeOK
<1>4. \A d \in D : row[d][lastSeq[d] + 1] = "NONE"
  BY <1>2 DEF QueueInv, RowInv
<1>5. Open' = Open /\ D \subseteq Open
  BY DEF Open, Exists
<1>6. lastSeq' = [d \in Dest |-> IF d \in D THEN lastSeq[d] + 1 ELSE lastSeq[d]]
  BY <1>1 DEF Enqueue
<1>7. Sound' = [d \in Dest |-> IF d \notin D THEN Sound[d]
                               ELSE IF st = "PENDING" THEN Sound[d] \cup {lastSeq[d] + 1}
                               ELSE Sound[d] \ {lastSeq[d] + 1}]
  <2>1. \A d \in Dest :
          {s \in Seqs : body'[d][s] = "json"}
             = IF d \notin D THEN Sound[d]
               ELSE IF st = "PENDING" THEN Sound[d] \cup {lastSeq[d] + 1}
               ELSE Sound[d] \ {lastSeq[d] + 1}
    BY <1>1, <1>2, <1>3 DEF Sound
  <2> QED
    BY <2>1 DEF Sound
<1>8. Wait' = [d \in Dest |-> IF d \in D /\ st = "PENDING" THEN Wait[d] \cup {lastSeq[d] + 1}
                              ELSE Wait[d]]
  <2>1. \A d \in Dest :
          Pending(d)' = IF d \in D /\ st = "PENDING" THEN Pending(d) \cup {lastSeq[d] + 1}
                        ELSE Pending(d)
    BY <1>2, <1>3, <1>4 DEF Pending
  <2> QED
    BY <2>1 DEF Wait
<1>9. Queue!Commit(D, st = "PENDING")
  BY <1>2, <1>5, <1>6, <1>7, <1>8 DEF Queue!Commit, Open, Sound, Wait
<1> QED
  BY <1>9 DEF Queue!Next

\* The endpoint taking a row is Accept; an attempt it did not take is invisible.
LEMMA MapSend ==
    ASSUME TypeOK, QueueInv, NEW k \in Drainers, Send(k)
    PROVE  [Queue!Next]_Queue!vars
<1> DEFINE d == job[k].d
           s == job[k].s
<1>1. /\ UNCHANGED <<dest, row, body, lastSeq, requeued>>
      /\ pc[k] = "send" /\ d \in Dest /\ s \in Seqs
  BY DEF Send, dbVars, TypeOK
<1>2. \A e : Pending(e)' = Pending(e) /\ (Exists(e)' <=> Exists(e))
  BY <1>1 DEF Pending, Exists
<1>3. /\ body[d][s] = "json"
      /\ row[d][s] = "PENDING" \/ ~Exists(d)
      /\ \A t \in Pending(d) : t < s => t \in requeued[d]
  BY <1>1 DEF QueueInv, AttemptInv, AttemptOK
<1>4. CASE delivered' = delivered
  BY <1>1, <1>2, <1>4, MapStutter
<1>5. CASE delivered' = [delivered EXCEPT ![d] = @ \cup {s}]
  <2>1. s \in Sound[d] /\ (d \in Open => s \in Wait[d])
    BY <1>1, <1>3 DEF Sound, Open, Wait, Pending
  <2>2. \A t \in Wait[d] : t < s => t \in requeued[d]
    BY <1>1, <1>3 DEF Wait
  <2>3. Open' = Open /\ Sound' = Sound /\ Wait' = Wait
    BY <1>1, <1>2 DEF Open, Sound, Wait
  <2>4. Queue!Accept(d, s)
    BY <1>1, <1>5, <2>1, <2>2, <2>3 DEF Queue!Accept, Open, Sound, Wait
  <2> QED
    BY <1>1, <2>4 DEF Queue!Next, Queue!Seqs, Seqs
<1>6. delivered' = delivered \/ delivered' = [delivered EXCEPT ![d] = @ \cup {s}]
  BY DEF Send
<1> QED
  BY <1>4, <1>5, <1>6

\* Recording a success or a damaged payload settles the row; recording a failure
\* leaves it waiting.
LEMMA MapSave ==
    ASSUME TypeOK, QueueInv, NEW k \in Drainers, Save(k)
    PROVE  [Queue!Next]_Queue!vars
<1> DEFINE d == job[k].d
           s == job[k].s
           st == StatusAfter(job[k].res)
<1>1. /\ UNCHANGED <<dest, body, lastSeq, delivered, requeued>> /\ pc[k] = "save"
      /\ row' = [row EXCEPT ![d][s] = st] /\ row[d][s] # "NONE"
      /\ d \in Dest /\ s \in Seqs
  BY DEF Save, envVars, TypeOK
<1>2. /\ row[d][s] = "PENDING"
      /\ \/ st = "FAILED" /\ body[d][s] # "json"
         \/ st = "SUCCESS" /\ s \in delivered[d]
         \/ st = "PENDING"
  BY <1>1 DEF QueueInv, AttemptInv, AttemptOK, RowInv, StatusAfter
<1>3. \A e : Exists(e)' <=> Exists(e)
  BY <1>1 DEF Exists
<1>4. \A e \in Dest : \A m \in Seqs :
         row'[e][m] = IF e = d /\ m = s THEN st ELSE row[e][m]
  BY <1>1 DEF TypeOK
<1>5. CASE st = "PENDING"
  <2>1. [row EXCEPT ![d][s] = row[d][s]] = row
    BY <1>1 DEF TypeOK
  <2>2. row' = row
    BY <1>1, <1>2, <1>5, <2>1
  <2> QED
    BY <1>1, <1>3, <2>2, MapStutter
<1>6. CASE st # "PENDING"
  <2>1. s \in Wait[d] /\ (s \in delivered[d] \/ s \notin Sound[d])
    BY <1>1, <1>2, <1>6 DEF Wait, Pending, Sound
  <2>2. Wait' = [Wait EXCEPT ![d] = @ \ {s}]
    <3>1. \A e \in Dest : Pending(e)' = IF e = d THEN Pending(e) \ {s} ELSE Pending(e)
      BY <1>4, <1>6 DEF Pending
    <3> QED
      BY <1>1, <3>1 DEF Wait
  <2>3. Open' = Open /\ Sound' = Sound
    BY <1>1, <1>3 DEF Open, Sound
  <2>4. Queue!Settle(d, s)
    BY <1>1, <2>1, <2>2, <2>3 DEF Queue!Settle, Open, Sound, Wait
  <2> QED
    BY <1>1, <2>4 DEF Queue!Next, Queue!Seqs, Seqs
<1> QED
  BY <1>5, <1>6

\* Rows put back are rows the counter has given out.
LEMMA MapPutBack ==
    ASSUME TypeOK, QueueInv, NEW d \in Dest, NEW S \in SUBSET Seqs, PutBack(d, S),
           \A s \in S : row[d][s] # "NONE",
           UNCHANGED <<dest, body, lastSeq, delivered>>
    PROVE  Queue!Next
<1>1. S \subseteq 1..lastSeq[d]
  BY DEF QueueInv, RowInv, Seqs, TypeOK
<1>2. \A e \in Dest : Pending(e)' = IF e = d THEN Pending(e) \cup S ELSE Pending(e)
  <2>1. \A e \in Dest : \A s \in Seqs :
           row'[e][s] = IF e = d /\ s \in S THEN "PENDING" ELSE row[e][s]
    BY DEF PutBack, TypeOK
  <2> QED
    BY <2>1 DEF Pending
<1>3. Wait' = [Wait EXCEPT ![d] = @ \cup S]
  BY <1>2 DEF Wait
<1>4. requeued' = [requeued EXCEPT ![d] = @ \cup S]
  BY DEF PutBack
<1>5. Open' = Open /\ Sound' = Sound
  BY DEF Open, Sound, Exists
<1>6. Queue!PutBack(d, S)
  BY <1>1, <1>3, <1>4, <1>5 DEF Queue!PutBack, Open, Sound, Wait
<1> QED
  BY <1>6 DEF Queue!Next, Queue!Seqs, Seqs

LEMMA MapDelete ==
    ASSUME TypeOK, NEW d \in Dest, Delete(d)
    PROVE  Queue!Next
<1>1. UNCHANGED <<body, lastSeq, delivered, requeued>>
  BY DEF Delete, memVars, envVars
<1>2. \A e \in Dest : /\ e # d => row'[e] = row[e] /\ (Exists(e)' <=> Exists(e))
                      /\ e = d => ~Exists(e)' /\ \A s \in Seqs : row'[e][s] = "NONE"
  BY DEF Delete, TypeOK, Exists
<1>3. Open' = Open \ {d} /\ Sound' = Sound
  BY <1>1, <1>2 DEF Open, Sound
<1>4. Wait' = [Wait EXCEPT ![d] = {}]
  <2>1. \A e \in Dest : Pending(e)' = IF e = d THEN {} ELSE Pending(e)
    BY <1>2 DEF Pending
  <2> QED
    BY <2>1 DEF Wait
<1>5. Queue!Close(d)
  BY <1>1, <1>3, <1>4 DEF Queue!Close, Open, Sound, Wait
<1> QED
  BY <1>5 DEF Queue!Next

\* The sweep removes settled rows, which the queue no longer shows.
LEMMA MapSweep ==
    ASSUME TypeOK, NEW d \in Dest, Sweep(d)
    PROVE  UNCHANGED Queue!vars
<1>1. PICK st \in {"SUCCESS", "FAILED"} : \E old \in SUBSET Sweepable(d, st) :
         row' = [row EXCEPT ![d] = [s \in Seqs |-> IF s \in old THEN "NONE" ELSE @[s]]]
  BY DEF Sweep
<1>2. \A e \in Dest : \A s \in Seqs :
         row'[e][s] = row[e][s] \/ (row[e][s] # "PENDING" /\ row'[e][s] = "NONE")
  BY <1>1 DEF Sweepable, TypeOK
<1>3. \A e \in Dest : Pending(e)' = Pending(e)
  BY <1>2 DEF Pending
<1> QED
  BY <1>3 DEF Queue!vars, Sweep, Exists, envVars

LEMMA MapStep ==
    ASSUME TypeOK, QueueInv, [Next]_vars
    PROVE  [Queue!Next]_Queue!vars
<1>1. \A D \in SUBSET Dest : Emit(D) => [Queue!Next]_Queue!vars
  BY MapEnqueue DEF Emit, envVars, Exists
<1>2. \A k \in Drainers : FindHead(k) => [Queue!Next]_Queue!vars
  BY MapStutter DEF FindHead, dbVars, envVars, Exists
<1>3. \A k \in Drainers : Send(k) => [Queue!Next]_Queue!vars
  BY MapSend
<1>4. \A k \in Drainers : Save(k) => [Queue!Next]_Queue!vars
  BY MapSave
<1>5. \A k \in Drainers : PassEnd(k) => [Queue!Next]_Queue!vars
  BY MapStutter DEF PassEnd, dbVars, envVars, Exists
<1>6. \A k \in Drainers : SaveMissingRow(k) => [Queue!Next]_Queue!vars
  BY MapStutter DEF SaveMissingRow, Reject, dbVars, Exists
<1>7. \A k \in Drainers : DbError(k) => [Queue!Next]_Queue!vars
  BY MapStutter DEF DbError, Reject, dbVars, Exists
<1>8. \A d \in Dest : Ping(d) => [Queue!Next]_Queue!vars
  <2> SUFFICES ASSUME NEW d \in Dest, Ping(d) PROVE Queue!Next
    OBVIOUS
  <2>1. Enqueue({d}, "PENDING", "json") /\ Exists(d)
    BY DEF Ping
  <2>2. UNCHANGED <<dest, delivered, requeued>>
    BY DEF Ping, envVars
  <2> QED
    BY <2>1, <2>2, MapEnqueue
<1>9. \A d \in Dest : Wake(d) => [Queue!Next]_Queue!vars
  BY MapStutter DEF Wake, dbVars, Exists
<1>10. \A d \in Dest : Sweep(d) => [Queue!Next]_Queue!vars
  BY MapSweep
<1>11. \A d \in Dest : Delete(d) => [Queue!Next]_Queue!vars
  BY MapDelete
<1>12. \A d \in Dest : RequeueWrite(d) => [Queue!Next]_Queue!vars
  <2> SUFFICES ASSUME NEW d \in Dest, RequeueWrite(d)
               PROVE  [Queue!Next]_Queue!vars
    OBVIOUS
  <2>1. UNCHANGED <<dest, lastSeq, body, delivered>>
    BY DEF RequeueWrite
  <2>2. CASE row[d][requeuing[d]] # "NONE"
    <3>1. PutBack(d, {requeuing[d]}) /\ requeuing[d] \in Seqs
      BY <2>2 DEF RequeueWrite, TypeOK, NoRow, Seqs
    <3> QED
      BY <2>1, <2>2, <3>1, MapPutBack
  <2>3. CASE row[d][requeuing[d]] = "NONE"
    BY <2>1, <2>3, MapStutter DEF RequeueWrite, Exists
  <2> QED
    BY <2>2, <2>3
<1>13. \A d \in Dest : RequeueFailed(d) => [Queue!Next]_Queue!vars
  BY MapPutBack DEF RequeueFailed, Requeueable
<1>14. \A d \in Dest : Outage(d) => [Queue!Next]_Queue!vars
  BY MapStutter DEF Outage, dbVars, Exists
<1>15. \A d \in Dest : Recovery(d) => [Queue!Next]_Queue!vars
  BY MapStutter DEF Recovery, dbVars, Exists
<1>16. \A d \in Dest, on \in BOOLEAN : SetActive(d, on) => [Queue!Next]_Queue!vars
  <2> SUFFICES ASSUME NEW d \in Dest, NEW on \in BOOLEAN, SetActive(d, on)
               PROVE  UNCHANGED Queue!vars
    OBVIOUS
  <2>1. \A e \in Dest : Exists(e)' <=> Exists(e)
    BY DEF SetActive, Exists, TypeOK
  <2> QED
    BY <2>1, MapStutter DEF SetActive, envVars
<1>17. \A d \in Dest, s \in Seqs : BackoffElapses(d, s) => [Queue!Next]_Queue!vars
  BY MapStutter DEF BackoffElapses, Exists
<1>18. \A d \in Dest, s \in Seqs : RequeueRead(d, s) => [Queue!Next]_Queue!vars
  BY MapStutter DEF RequeueRead, dbVars, Exists
<1>19. SafetyTick => [Queue!Next]_Queue!vars
  BY MapStutter DEF SafetyTick, dbVars, envVars, Exists
<1>20. Crash => [Queue!Next]_Queue!vars
  BY MapStutter DEF Crash, dbVars, Exists
<1>21. UNCHANGED vars => [Queue!Next]_Queue!vars
  BY MapStutter DEF vars, Exists
<1> QED
  BY <1>1, <1>2, <1>3, <1>4, <1>5, <1>6, <1>7, <1>8, <1>9, <1>10, <1>11, <1>12,
     <1>13, <1>14, <1>15, <1>16, <1>17, <1>18, <1>19, <1>20, <1>21, NextCases

\* Every behaviour of the outbox, the drains, the timers, the faults and the staff
\* routes is a behaviour of the per-Destination at-least-once FIFO queue that
\* docs/outbound-events.md promises a consumer.
THEOREM Implements == Spec => ImplementsQueue
<1>1. TypeOK /\ QueueInv /\ [Next]_vars => [Queue!Next]_Queue!vars
  BY MapStep
<1> QED
  BY <1>1, MapInit, TypeCorrect, QueueCorrect, PTL DEF Spec, ImplementsQueue, Queue!Spec
=============================================================================
