------------------------ MODULE Conversation_proofs ------------------------
(* Type correctness, the exclusion of two live leases for the same words,    *)
(* that only a fault ends a lease under its thread, the grounds of a         *)
(* responded batch and the delivery of a finished research, for any number   *)
(* of batches, retries, faults and stops.                                    *)
EXTENDS Conversation, TLAPS

USE ConversationConstants

(***************************************************************************)
(* Type correctness, and where a commit or a worker names words.           *)
(***************************************************************************)

Unplaced == {"idle", "reading", "sourcing", "recovering"}

Placed ==
  /\ \A c \in Committer : committing[c].step # "none" => committing[c].batch \in Batch
  /\ \A w \in Worker : work[w].step \notin Unplaced => work[w].source \in Batch

LEMMA TypeInit == Init => TypeOK /\ Placed
BY DEF Init, TypeOK, Placed, Unplaced, NoCommit, Idle, JobType, ResearchType, WorkType, Step, Batch,
       Worker, Chatter, Committer

\* The artifacts name batches.
LEMMA LatestIsBatch ==
  ASSUME TypeOK, artifacts # <<>>
  PROVE  Latest \in Batch
BY DEF TypeOK, Latest

\* A step of a worker keeps its memory well typed.
LEMMA MemoryTyped ==
  ASSUME NEW r \in WorkType, NEW s \in Step
  PROVE  /\ [r EXCEPT !.step = s] \in WorkType
         /\ \A B \in SUBSET Batch : [r EXCEPT !.step = s, !.batches = B] \in WorkType
         /\ \A b \in Batch : [r EXCEPT !.step = s, !.source = b] \in WorkType
         /\ \A n \in Nat : [r EXCEPT !.step = s, !.attempt = n] \in WorkType
         /\ \A q \in BOOLEAN : [r EXCEPT !.step = s, !.search = q] \in WorkType
<1>1. \A b \in Batch : b \in 0..Batches
  BY DEF Batch
<1>2. [r EXCEPT !.step = s] \in WorkType
  BY DEF WorkType
<1>3. \A B \in SUBSET Batch : [r EXCEPT !.step = s, !.batches = B] \in WorkType
  BY DEF WorkType
<1>4. \A b \in Batch : [r EXCEPT !.step = s, !.source = b] \in WorkType
  BY <1>1 DEF WorkType
<1>5. \A n \in Nat : [r EXCEPT !.step = s, !.attempt = n] \in WorkType
  BY DEF WorkType
<1>6. \A q \in BOOLEAN : [r EXCEPT !.step = s, !.search = q] \in WorkType
  BY DEF WorkType
<1> QED BY <1>2, <1>3, <1>4, <1>5, <1>6

WorkKept ==
  /\ work' \in [Worker -> WorkType]
  /\ \A v \in Worker : work'[v].step = "idle" => work'[v] = Idle
  /\ \A v \in Worker : work'[v].step \notin Unplaced => work'[v].source \in Batch

LEMMA SetTyped ==
  ASSUME TypeOK, Placed, NEW w \in Worker, NEW r \in WorkType, r.step = "idle" => r = Idle,
         r.step \notin Unplaced => r.source \in Batch, work' = [work EXCEPT ![w] = r]
  PROVE  WorkKept
BY DEF TypeOK, Placed, WorkKept

LEMMA GoesTyped ==
  ASSUME TypeOK, Placed, NEW w \in Worker, NEW s \in Step \ {"idle"}, Goes(w, s),
         s \notin Unplaced => work[w].step \notin Unplaced
  PROVE  WorkKept
<1>1. work[w] \in WorkType
  BY DEF TypeOK
<1>2. [work[w] EXCEPT !.step = s] \in WorkType
  BY <1>1, MemoryTyped
<1>3. work' = [work EXCEPT ![w] = [work[w] EXCEPT !.step = s]]
  BY DEF Goes
<1>4. /\ [work[w] EXCEPT !.step = s].step = s
      /\ [work[w] EXCEPT !.step = s].source = work[w].source
  BY <1>1 DEF WorkType
<1> QED BY <1>2, <1>3, <1>4, SetTyped DEF Placed

LEMMA RestsTyped ==
  ASSUME TypeOK, Placed, NEW w \in Worker, Rests(w)
  PROVE  WorkKept
<1>1. Idle \in WorkType /\ Idle.step \in Unplaced
  BY DEF Idle, WorkType, Step, Unplaced
<1> QED BY <1>1, SetTyped DEF Rests

LEMMA EndedTyped ==
  ASSUME TypeOK, NEW s \in Batch, NEW state \in {"retry", "failed", "complete"}
  PROVE  Ended(s, state) \in [Batch -> ResearchType]
<1>1. research[s] \in ResearchType
  BY DEF TypeOK
<1>2. [state |-> state, attempts |-> research[s].attempts + 1, batches |-> research[s].batches]
        \in ResearchType
  BY <1>1 DEF ResearchType
<1> QED BY <1>2 DEF TypeOK, Ended

LEMMA ReplyTyped ==
  ASSUME TypeOK, NEW w \in Worker, Reply(w)
  PROVE  answers' \in [Batch -> Nat]
<1>1. \A b \in Batch : answers[b] + 1 \in Nat /\ answers[b] \in Nat
  BY DEF TypeOK
<1> QED BY <1>1 DEF Reply

LEMMA TypeStep == TypeOK /\ Placed /\ [Next]_vars => TypeOK' /\ Placed'
<1> SUFFICES ASSUME TypeOK, Placed, [Next]_vars PROVE TypeOK' /\ Placed'
  OBVIOUS
<1> USE DEF words, store, history
<1>0. CASE UNCHANGED vars
  BY <1>0 DEF TypeOK, Placed, vars
<1>1. ASSUME NEW c \in Committer, NEW b \in Batch, Submit(c, b) PROVE TypeOK' /\ Placed'
  BY <1>1 DEF Submit, TypeOK, Placed, Batch
<1>2. ASSUME NEW c \in Committer, AppendArtifact(c) PROVE TypeOK' /\ Placed'
  <2> DEFINE CommitType == [step : {"none", "submitted", "appended"}, batch : 0..Batches]
             r == [committing[c] EXCEPT !.step = "appended"]
  <2>1. committing[c] \in CommitType /\ committing[c].batch \in Batch
    BY <1>2 DEF AppendArtifact, TypeOK, Placed
  <2>2. r \in CommitType /\ r.batch = committing[c].batch
    BY <2>1
  <2>3. committing' = [committing EXCEPT ![c] = r]
    BY <1>2 DEF AppendArtifact
  <2>4. artifacts' \in Seq(Batch)
    BY <1>2, <2>1 DEF AppendArtifact, TypeOK
  <2>5. committing' \in [Committer -> CommitType]
    <3> HIDE DEF r, CommitType
    <3> QED BY <2>2, <2>3 DEF TypeOK, CommitType
  <2> HIDE DEF r
  <2> QED BY <1>2, <2>1, <2>2, <2>3, <2>4, <2>5 DEF AppendArtifact, TypeOK, Placed
<1>3. ASSUME NEW c \in Committer, Link(c) PROVE TypeOK' /\ Placed'
  <2>1. committing' \in [Committer -> [step : {"none", "submitted", "appended"}, batch : 0..Batches]]
    BY <1>3 DEF Link, TypeOK, NoCommit
  <2>2. CASE c = "ticker"
    BY <1>3, <2>1, <2>2, GoesTyped DEF WorkKept, Link, TypeOK, Placed, NoCommit, Step, Unplaced, Worker, Chatter
  <2>3. CASE c # "ticker"
    BY <1>3, <2>1, <2>3 DEF Link, TypeOK, Placed, NoCommit
  <2> QED BY <2>2, <2>3
<1>4. CASE Dispatch
  BY <1>4, GoesTyped DEF WorkKept, Dispatch, At, TypeOK, Placed, Step, Unplaced, Worker, Chatter
<1>5. ASSUME NEW w \in Chatter, Chat(w) PROVE TypeOK' /\ Placed'
  <2>0. w \in Worker
    BY DEF Worker
  <2>1. CASE ReadBatches(w)
    <3>1. CASE Pending = {}
      BY <2>0, <2>1, <3>1, RestsTyped DEF WorkKept, ReadBatches, TypeOK, Placed
    <3>2. CASE Pending # {}
      <4> DEFINE r == [work[w] EXCEPT !.step = "sourcing", !.batches = Pending]
      <4>1. work[w] \in WorkType /\ Pending \in SUBSET Batch
        BY <2>0 DEF TypeOK, Pending
      <4>2. r \in WorkType
        BY <4>1, MemoryTyped DEF Step
      <4>3. r.step \in Unplaced /\ r.step # "idle"
        BY <4>1 DEF WorkType, Unplaced
      <4>4. work' = [work EXCEPT ![w] = r]
        BY <2>1, <3>2 DEF ReadBatches
      <4> QED BY <2>0, <2>1, <4>2, <4>3, <4>4, SetTyped DEF WorkKept, ReadBatches, TypeOK, Placed
    <3> QED BY <3>1, <3>2
  <2>2. CASE ReadSource(w)
    <3>1. CASE artifacts = <<>>
      BY <2>0, <2>2, <3>1, RestsTyped DEF WorkKept, ReadSource, TypeOK, Placed
    <3>2. CASE artifacts # <<>>
      <4>1. Latest \in Batch
        BY <3>2, LatestIsBatch
      <4> DEFINE r == [work[w] EXCEPT !.step = "starting", !.source = Latest]
      <4>2. work[w] \in WorkType
        BY <2>0 DEF TypeOK
      <4>3. r \in WorkType
        BY <4>1, <4>2, MemoryTyped DEF Step
      <4>4. r.step = "starting" /\ r.source = Latest
        BY <4>2 DEF WorkType
      <4>5. work' = [work EXCEPT ![w] = r]
        BY <2>2, <3>2 DEF ReadSource
      <4> QED BY <2>0, <2>2, <4>1, <4>3, <4>4, <4>5, SetTyped DEF WorkKept, ReadSource, TypeOK, Placed
    <3> QED BY <3>1, <3>2
  <2>3. CASE StartJob(w)
    <3>1. work[w].source \in Batch
      BY <2>0, <2>3 DEF StartJob, At, Placed, Unplaced
    <3>2. job' \in [Batch -> JobType]
      BY <2>3, <3>1 DEF StartJob, TypeOK, JobType
    <3>3. \/ Goes(w, "claiming") \/ Rests(w) \/ Goes(w, "recording")
      BY <2>3 DEF StartJob
    <3> QED BY <2>0, <2>3, <3>2, <3>3, GoesTyped, RestsTyped DEF WorkKept, StartJob, At, TypeOK, Placed, Step, Unplaced
  <2>4. CASE Claim(w)
    <3>1. work[w].source \in Batch
      BY <2>0, <2>4 DEF Claim, At, Placed, Unplaced
    <3>2. CASE Leasable(work[w].source)
      <4> DEFINE r == [work[w] EXCEPT !.step = "recording", !.attempt = job[work[w].source].attempts + 1]
      <4>1. work[w] \in WorkType /\ job[work[w].source] \in JobType
        BY <2>0, <3>1 DEF TypeOK
      <4>2. job[work[w].source].attempts + 1 \in Nat
        BY <4>1 DEF JobType
      <4>3. r \in WorkType
        BY <4>1, <4>2, MemoryTyped DEF Step
      <4>4. r.step = "recording" /\ r.source = work[w].source
        BY <4>1 DEF WorkType
      <4>5. work' = [work EXCEPT ![w] = r]
        BY <2>4, <3>2 DEF Claim
      <4>6. job' \in [Batch -> JobType]
        <5> DEFINE s == work[w].source
                   j == [state |-> "running", attempts |-> job[s].attempts + 1, outcome |-> "none"]
        <5>1. j \in JobType
          BY <4>2 DEF JobType
        <5>2. job' = [job EXCEPT ![s] = j]
          BY <2>4, <3>2 DEF Claim
        <5> QED BY <5>1, <5>2, <3>1 DEF TypeOK
      <4> QED BY <2>0, <2>4, <3>1, <4>3, <4>4, <4>5, <4>6, SetTyped DEF WorkKept, Claim, TypeOK, Placed
    <3>3. CASE ~Leasable(work[w].source)
      BY <2>0, <2>4, <3>3, RestsTyped DEF WorkKept, Claim, TypeOK, Placed
    <3> QED BY <3>2, <3>3
  <2>5. CASE RecordRaises(w)
    BY <2>0, <2>5, RestsTyped DEF WorkKept, RecordRaises, Troubled, TypeOK, Placed
  <2>6. CASE OpenStream(w)
    BY <2>0, <2>6, GoesTyped DEF WorkKept, OpenStream, At, TypeOK, Placed, Step, Unplaced
  <2>7. ASSUME NEW o \in {"transient", "final"}, Fail(w, o) PROVE TypeOK' /\ Placed'
    <3>1. work[w].source \in Batch
      BY <2>0, <2>7 DEF Fail, At, Placed, Unplaced
    <3>2. job' \in [Batch -> JobType] /\ lapsed' \subseteq Batch
      BY <2>7, <3>1 DEF Fail, Finish, Finished, TypeOK, JobType
    <3>3. Goes(w, "failing") \/ Rests(w)
      BY <2>7 DEF Fail
    <3>4. work[w].step \notin Unplaced
      BY <2>7 DEF Fail, At, Unplaced
    <3> QED BY <2>0, <2>7, <3>2, <3>3, <3>4, GoesTyped, RestsTyped DEF WorkKept, Fail, Troubled, TypeOK, Placed, Step
  <2>8. CASE FailStream(w)
    BY <2>0, <2>8, RestsTyped DEF WorkKept, FailStream, TypeOK, Placed
  <2>9. ASSUME NEW search \in BOOLEAN, Complete(w, search) PROVE TypeOK' /\ Placed'
    <3>1. work[w].source \in Batch
      BY <2>0, <2>9 DEF Complete, At, Placed, Unplaced
    <3>2. job' \in [Batch -> JobType] /\ lapsed' \subseteq Batch
      BY <2>9, <3>1 DEF Complete, Finish, Finished, TypeOK, JobType
    <3> DEFINE step == IF search THEN "queueing" ELSE "presenting"
               r == [work[w] EXCEPT !.step = step, !.search = search]
    <3>3. work[w] \in WorkType
      BY <2>0 DEF TypeOK
    <3>4. step \in Step /\ step # "idle"
      BY DEF Step
    <3>5. r \in WorkType
      <4> HIDE DEF step
      <4> QED BY <3>3, <3>4, MemoryTyped
    <3>6. r.step # "idle" /\ r.source = work[w].source
      BY <3>3 DEF WorkType
    <3>7. work' = [work EXCEPT ![w] = r]
      BY <2>9 DEF Complete
    <3> QED BY <2>0, <2>9, <3>1, <3>2, <3>5, <3>6, <3>7, SetTyped DEF WorkKept, Complete, TypeOK, Placed
  <2>10. CASE QueueResearch(w)
    <3>1. work[w].source \in Batch
      BY <2>0, <2>10 DEF QueueResearch, At, Placed, Unplaced
    <3>2. research' \in [Batch -> ResearchType]
      BY <2>0, <2>10, <3>1 DEF QueueResearch, TypeOK, ResearchType, WorkType
    <3> QED BY <2>0, <2>10, <3>2, GoesTyped DEF WorkKept, QueueResearch, At, TypeOK, Placed, Step, Unplaced
  <2>11. CASE PresentRaises(w)
    BY <2>0, <2>11, RestsTyped DEF WorkKept, PresentRaises, Troubled, TypeOK, Placed
  <2>12. CASE FinishStream(w)
    BY <2>0, <2>12, GoesTyped, RestsTyped DEF WorkKept, FinishStream, At, TypeOK, Placed, Step, Unplaced
  <2>13. CASE Reply(w)
    BY <2>0, <2>13, GoesTyped, ReplyTyped DEF WorkKept, Reply, At, TypeOK, Placed, Step, Unplaced
  <2>14. CASE Mark(w)
    BY <2>0, <2>14, RestsTyped DEF WorkKept, Mark, TypeOK, Placed
  <2> QED BY <1>5, <2>1, <2>2, <2>3, <2>4, <2>5, <2>6, <2>7, <2>8, <2>9, <2>10, <2>11, <2>12,
             <2>13, <2>14 DEF Chat
<1>6. CASE Background
  <2>0. Researcher \in Worker
    BY DEF Worker, Researcher
  <2>1. CASE StepAside
    BY <2>0, <2>1, GoesTyped DEF WorkKept, StepAside, At, TypeOK, Placed, Step, Unplaced
  <2>2. CASE NothingToResearch
    BY <2>0, <2>2, RestsTyped DEF WorkKept, NothingToResearch, RecoverStreams, TypeOK, Placed
  <2>3. ASSUME NEW s \in Batch, StartResearch(s) PROVE TypeOK' /\ Placed'
    <3>1. CASE StillWanted(s)
      <4> DEFINE r == [step |-> "researching", batches |-> research[s].batches, source |-> s,
                       attempt |-> research[s].attempts + 1, search |-> FALSE]
      <4>1. r \in WorkType
        <5>1. research[s] \in ResearchType
          BY <2>3 DEF TypeOK
        <5> QED BY <5>1 DEF ResearchType, WorkType, Step, Batch
      <4>2. work' = [work EXCEPT ![Researcher] = r]
        BY <2>3, <3>1 DEF StartResearch
      <4> QED BY <2>0, <2>3, <3>1, <4>1, <4>2, SetTyped
              DEF WorkKept, StartResearch, RecoverStreams, TypeOK, Placed
    <3>2. CASE ~StillWanted(s)
      BY <2>0, <2>3, <3>2, RestsTyped, EndedTyped DEF WorkKept, StartResearch, RecoverStreams, TypeOK, Placed
    <3> QED BY <3>1, <3>2
  <2>4. CASE EvidenceReady
    <3>1. work[Researcher].source \in Batch
      BY <2>0, <2>4 DEF EvidenceReady, At, Placed, Unplaced
    <3>2. research' \in [Batch -> ResearchType]
      BY <2>4, <3>1, EndedTyped DEF EvidenceReady, TypeOK
    <3> QED BY <2>0, <2>4, <3>2, GoesTyped, RestsTyped DEF WorkKept, EvidenceReady, At, TypeOK, Placed, Step, Unplaced
  <2>5. CASE FinishResearch
    <3>1. work[Researcher].source \in Batch
      BY <2>0, <2>5 DEF FinishResearch, At, Placed, Unplaced
    <3>2. research' \in [Batch -> ResearchType]
      BY <2>5, <3>1, EndedTyped DEF FinishResearch
    <3> QED BY <2>0, <2>5, <3>2, GoesTyped DEF WorkKept, FinishResearch, At, TypeOK, Placed, Step, Unplaced
  <2>6. CASE ResearchRaises
    <3>1. work[Researcher].source \in Batch
      BY <2>0, <2>6 DEF ResearchRaises, At, Placed, Unplaced
    <3>2. research' \in [Batch -> ResearchType]
      BY <2>6, <3>1, EndedTyped DEF ResearchRaises
    <3> QED BY <2>0, <2>6, <3>2, RestsTyped DEF WorkKept, ResearchRaises, Troubled, TypeOK, Placed
  <2>7. CASE Reply(Researcher)
    BY <2>0, <2>7, GoesTyped, ReplyTyped DEF WorkKept, Reply, At, TypeOK, Placed, Step, Unplaced
  <2>8. CASE Mark(Researcher)
    BY <2>0, <2>8, RestsTyped DEF WorkKept, Mark, TypeOK, Placed
  <2> QED BY <1>6, <2>1, <2>2, <2>3, <2>4, <2>5, <2>6, <2>7, <2>8 DEF Background
<1>7. ASSUME NEW s \in Batch, ExpireLease(s) PROVE TypeOK' /\ Placed'
  BY <1>7 DEF ExpireLease, Finished, Troubled, TypeOK, Placed, JobType
<1>8. CASE Stop
  <2>1. Idle \in WorkType /\ Idle.step \in Unplaced
    BY DEF Idle, WorkType, Step, Unplaced
  <2>2. NoCommit \in [step : {"none", "submitted", "appended"}, batch : 0..Batches]
    BY DEF NoCommit
  <2>3. NoCommit.step = "none"
    BY DEF NoCommit
  <2>4. work' \in [Worker -> WorkType] /\ \A w \in Worker : work'[w] = Idle
    BY <1>8, <2>1 DEF Stop
  <2>5. /\ committing' \in [Committer -> [step : {"none", "submitted", "appended"}, batch : 0..Batches]]
        /\ \A c \in Committer : committing'[c].step = "none"
    BY <1>8, <2>2, <2>3 DEF Stop
  <2>6. Placed'
    BY <2>1, <2>4, <2>5 DEF Placed
  <2>7. faults' \in Nat /\ stops' \in Nat /\ faults' + stops' <= MaxFaults
    BY <1>8 DEF Stop, Troubled, TypeOK
  <2> QED BY <1>8, <2>4, <2>5, <2>6, <2>7 DEF Stop, TypeOK
<1>9. CASE Restart
  BY <1>9 DEF Restart, TypeOK, Placed
<1> QED BY <1>0, <1>1, <1>2, <1>3, <1>4, <1>5, <1>6, <1>7, <1>8, <1>9 DEF Next, Commit

\* Every reachable state of the conversation is well typed, and every commit
\* and every worker past its reading names words that exist.
THEOREM TypeCorrect == Spec => [](TypeOK /\ Placed)
BY TypeInit, TypeStep, PTL DEF Spec

(***************************************************************************)
(* One lease.                                                              *)
(***************************************************************************)

Asking == {"recording", "asking"}

\* A worker that has not leased its job yet holds no attempt.
Fresh ==
  /\ committing["ticker"].step # "none" => work["direct"] = Idle
  /\ \A w \in Chatter :
       work[w].step \in {"idle", "reading", "sourcing", "starting", "claiming"} => work[w].attempt = 0

\* A lease nobody took away is the one the store knows of.
LeaseHeld ==
  \A w \in Chatter, s \in Batch \ lapsed :
    Leases(w, s) => job[s].state = "running" /\ work[w].attempt = job[s].attempts

LEMMA LeaseInit == Init => Fresh /\ LeaseHeld /\ OneLease
BY DEF Init, Fresh, LeaseHeld, OneLease, Leases, Idle, NoCommit, Chatter, Committer, Worker

LEMMA GoesSets ==
  ASSUME TypeOK, NEW w \in Worker, NEW s, Goes(w, s)
  PROVE  /\ work'[w].step = s
         /\ work'[w].source = work[w].source /\ work'[w].attempt = work[w].attempt
         /\ work'[w].batches = work[w].batches /\ work'[w].search = work[w].search
         /\ \A v \in Worker \ {w} : work'[v] = work[v]
<1>1. work[w] \in WorkType
  BY DEF TypeOK
<1>2. work' = [work EXCEPT ![w] = [work[w] EXCEPT !.step = s]]
  BY DEF Goes
<1> QED BY <1>1, <1>2 DEF TypeOK, WorkType

LEMMA RestsSets ==
  ASSUME TypeOK, NEW w \in Worker, Rests(w)
  PROVE  work'[w] = Idle /\ \A v \in Worker \ {w} : work'[v] = work[v]
BY DEF TypeOK, Rests

\* No worker gains a lease by this step, and no lease is taken away unnoticed.
NoGain ==
  \A v \in Chatter :
    \/ work'[v] = work[v]
    \/ work'[v].step \notin Asking
    \/ work'[v].attempt = 0
    \/ /\ work[v].step \in Asking
       /\ work'[v].source = work[v].source /\ work'[v].attempt = work[v].attempt

NoTheft ==
  /\ lapsed \subseteq lapsed'
  /\ \A s \in Batch \ lapsed' :
       \/ job[s].state = "running" => job'[s] = job[s]
       \/ \A v \in Chatter : ~Leases(v, s)'

LEMMA LeaseKept ==
  ASSUME LeaseHeld, OneLease, NoGain, NoTheft
  PROVE  LeaseHeld' /\ OneLease'
<1>1. \A v \in Chatter, s \in Batch : Leases(v, s)' => Leases(v, s) /\ work'[v].attempt = work[v].attempt
  BY DEF NoGain, Leases, Asking
<1>2. \A s \in Batch \ lapsed' : s \in Batch \ lapsed
  BY DEF NoTheft
<1>3. OneLease'
  BY <1>1, <1>2 DEF OneLease
<1>4. ASSUME NEW w \in Chatter, NEW s \in Batch \ lapsed', Leases(w, s)'
      PROVE  job'[s].state = "running" /\ work'[w].attempt = job'[s].attempts
  <2>1. job[s].state = "running" /\ work[w].attempt = job[s].attempts
    BY <1>1, <1>2, <1>4 DEF LeaseHeld
  <2> QED BY <1>1, <1>4, <2>1 DEF NoTheft
<1>5. LeaseHeld'
  BY <1>4 DEF LeaseHeld
<1> QED BY <1>3, <1>5

\* A worker that finishes its job either holds the lease, and gives it up, or
\* its job is not leased, or the lease of another is noted as lapsed.
LEMMA FinishKeeps ==
  ASSUME TypeOK, LeaseHeld, OneLease, NEW w \in Chatter, NEW state, NEW outcome,
         Finish(w, state, outcome), work[w].step \in Asking,
         NEW s \in Batch, s = work[w].source,
         work'[w].step \notin Asking, \A v \in Chatter \ {w} : work'[v] = work[v]
  PROVE  LeaseHeld' /\ OneLease'
<1>1. NoGain
  BY DEF NoGain
<1>2. \A u \in Batch \ {s} : job'[u] = job[u]
  BY DEF Finish, Finished, TypeOK
<1>3. lapsed \subseteq lapsed'
  BY DEF Finish
<1>4. CASE job[s].state = "running" /\ work[w].attempt # job[s].attempts
  <2>1. s \in lapsed'
    BY <1>4 DEF Finish
  <2> QED BY <1>1, <1>2, <1>3, <2>1, LeaseKept DEF NoTheft
<1>5. CASE job[s].state # "running"
  BY <1>1, <1>2, <1>3, <1>5, LeaseKept DEF NoTheft
<1>6. CASE job[s].state = "running" /\ work[w].attempt = job[s].attempts /\ s \notin lapsed
  <2>1. ASSUME NEW v \in Chatter, Leases(v, s)' PROVE FALSE
    <3>1. v # w /\ Leases(v, s)
      BY <2>1 DEF Leases, Asking
    <3>2. work[v].attempt = work[w].attempt
      BY <1>6, <3>1 DEF LeaseHeld
    <3>3. Leases(w, s)
      BY <3>1, <3>2 DEF Leases, Asking
    <3> QED BY <1>6, <3>1, <3>3 DEF OneLease
  <2> QED BY <1>1, <1>2, <1>3, <2>1, LeaseKept DEF NoTheft
<1>7. CASE s \in lapsed
  BY <1>1, <1>2, <1>3, <1>7, LeaseKept DEF NoTheft
<1> QED BY <1>4, <1>5, <1>6, <1>7

LEMMA LeaseStep ==
  TypeOK /\ Placed /\ Fresh /\ LeaseHeld /\ OneLease /\ [Next]_vars
    => Fresh' /\ LeaseHeld' /\ OneLease'
<1> SUFFICES ASSUME TypeOK, Placed, Fresh, LeaseHeld, OneLease, [Next]_vars
             PROVE  Fresh' /\ LeaseHeld' /\ OneLease'
  OBVIOUS
<1> USE DEF words, store, history
<1> DEFINE Kept == Fresh' /\ LeaseHeld' /\ OneLease'
<1>0. CASE UNCHANGED vars
  BY <1>0 DEF Fresh, LeaseHeld, OneLease, Leases, vars
<1>a. /\ Idle.attempt = 0 /\ Idle.step = "idle" /\ NoCommit.step = "none"
      /\ Researcher \in Worker \ Chatter /\ Chatter \subseteq Worker
      /\ "direct" \in Chatter /\ "dispatcher" \in Chatter
  BY DEF Idle, NoCommit, Researcher, Worker, Chatter
<1>b. ASSUME UNCHANGED <<job, lapsed, committing>>, NEW w \in Worker, w = "direct" => work[w] # Idle,
             \/ Rests(w)
             \/ \E s \in Step : /\ Goes(w, s)
                                /\ s \in Asking => work[w].step \in Asking \/ work[w].attempt = 0
                                /\ s \in {"idle", "reading", "sourcing", "starting", "claiming"}
                                     => work[w].attempt = 0
      PROVE  Kept
  <2>1. /\ \A v \in Worker \ {w} : work'[v] = work[v]
        /\ \/ work'[w] = Idle
           \/ /\ work'[w].attempt = work[w].attempt /\ work'[w].source = work[w].source
              /\ work'[w].step \in Asking => work[w].step \in Asking \/ work[w].attempt = 0
              /\ work'[w].step \in {"idle", "reading", "sourcing", "starting", "claiming"}
                   => work[w].attempt = 0
    <3>1. CASE Rests(w)
      BY <1>b, <3>1, RestsSets
    <3>2. CASE ~Rests(w)
      <4>1. PICK s \in Step : /\ Goes(w, s)
                              /\ s \in Asking => work[w].step \in Asking \/ work[w].attempt = 0
                              /\ s \in {"idle", "reading", "sourcing", "starting", "claiming"}
                                   => work[w].attempt = 0
        BY <1>b, <3>2
      <4>2. /\ work'[w].step = s /\ work'[w].source = work[w].source
            /\ work'[w].attempt = work[w].attempt /\ \A v \in Worker \ {w} : work'[v] = work[v]
        BY <4>1, GoesSets
      <4>3. CASE s \in Asking
        BY <4>1, <4>2, <4>3
      <4>4. CASE s \notin Asking
        BY <4>1, <4>2, <4>4
      <4> QED BY <4>3, <4>4
    <3> QED BY <3>1, <3>2
  <2>2. NoGain
    BY <1>a, <2>1 DEF NoGain, Asking
  <2>3. NoTheft
    BY <1>b DEF NoTheft
  <2>4. Fresh'
    BY <1>a, <1>b, <2>1 DEF Fresh
  <2> QED BY <2>2, <2>3, <2>4, LeaseKept
<1>1. ASSUME NEW c \in Committer, NEW b \in Batch, Submit(c, b) PROVE Kept
  <2>1. NoGain /\ NoTheft
    BY <1>1 DEF Submit, NoGain, NoTheft
  <2>2. Fresh'
    BY <1>1, <1>a DEF Submit, Fresh, TypeOK, Committer
  <2> QED BY <2>1, <2>2, LeaseKept
<1>2. ASSUME NEW c \in Committer, AppendArtifact(c) PROVE Kept
  <2>1. NoGain /\ NoTheft
    BY <1>2 DEF AppendArtifact, NoGain, NoTheft
  <2>2. committing'["ticker"].step # "none" => committing["ticker"].step # "none"
    BY <1>2 DEF AppendArtifact, TypeOK, Committer
  <2> QED BY <1>2, <2>1, <2>2, LeaseKept DEF AppendArtifact, Fresh
<1>3. ASSUME NEW c \in Committer, Link(c) PROVE Kept
  <2>1. CASE c = "ticker"
    <3>1. Goes("direct", "reading") /\ work["direct"] = Idle /\ committing'["ticker"].step = "none"
      BY <1>3, <1>a, <2>1 DEF Link, Fresh, TypeOK
    <3>2. /\ work'["direct"].step = "reading" /\ work'["direct"].attempt = 0
          /\ \A v \in Worker \ {"direct"} : work'[v] = work[v]
      BY <1>a, <3>1, GoesSets
    <3>3. NoGain /\ NoTheft
      BY <1>3, <1>a, <3>2 DEF Link, NoGain, NoTheft, Asking
    <3> QED BY <1>a, <3>1, <3>2, <3>3, LeaseKept DEF Fresh
  <2>2. CASE c # "ticker"
    <3>1. committing'["ticker"] = committing["ticker"] /\ work' = work
      BY <1>3, <2>2 DEF Link, TypeOK, Committer
    <3>2. NoGain /\ NoTheft
      BY <1>3, <3>1 DEF Link, NoGain, NoTheft
    <3> QED BY <3>1, <3>2, LeaseKept DEF Fresh
  <2> QED BY <2>1, <2>2
<1>4. CASE Dispatch
  <2>1. work["dispatcher"].attempt = 0
    BY <1>4, <1>a DEF Dispatch, At, Fresh
  <2> QED BY <1>4, <1>a, <1>b, <2>1 DEF Dispatch, Step, Asking
<1>5. ASSUME NEW w \in Chatter, Chat(w) PROVE Kept
  <2>0. /\ w \in Worker
        /\ work[w].step \in {"reading", "sourcing", "starting", "claiming"} => work[w].attempt = 0
    BY <1>a DEF Fresh
  <2>a. work[w].step # "idle" => work[w] # Idle
    BY <1>a
  <2>b. work[w].step \notin Unplaced => work[w].source \in Batch
    BY <2>0 DEF Placed
  <2>1. CASE ReadBatches(w)
    <3>1. CASE Pending = {}
      BY <2>0, <2>1, <2>a, <3>1, <1>b DEF ReadBatches, At
    <3>2. CASE Pending # {}
      <4>1. work[w] \in WorkType
        BY <2>0 DEF TypeOK
      <4>2. /\ work'[w].step = "sourcing" /\ work'[w].attempt = 0
            /\ \A v \in Worker \ {w} : work'[v] = work[v]
        <5>1. work' = [work EXCEPT ![w] = [work[w] EXCEPT !.step = "sourcing", !.batches = Pending]]
          BY <2>1, <3>2 DEF ReadBatches
        <5>2. work[w].attempt = 0
          BY <2>0, <2>1 DEF ReadBatches, At
        <5> QED BY <2>0, <4>1, <5>1, <5>2 DEF TypeOK, WorkType
      <4> QED BY <1>a, <2>1, <2>a, <4>2, LeaseKept DEF ReadBatches, At, NoGain, NoTheft, Asking, Fresh
    <3> QED BY <3>1, <3>2
  <2>2. CASE ReadSource(w)
    <3>1. CASE artifacts = <<>>
      BY <2>0, <2>2, <2>a, <3>1, <1>b DEF ReadSource, At
    <3>2. CASE artifacts # <<>>
      <4>1. work[w] \in WorkType
        BY <2>0 DEF TypeOK
      <4>2. /\ work'[w].step = "starting" /\ work'[w].attempt = 0
            /\ \A v \in Worker \ {w} : work'[v] = work[v]
        <5>1. work' = [work EXCEPT ![w] = [work[w] EXCEPT !.step = "starting", !.source = Latest]]
          BY <2>2, <3>2 DEF ReadSource
        <5>2. work[w].attempt = 0
          BY <2>0, <2>2 DEF ReadSource, At
        <5> QED BY <2>0, <4>1, <5>1, <5>2 DEF TypeOK, WorkType
      <4> QED BY <1>a, <2>2, <2>a, <4>2, LeaseKept DEF ReadSource, At, NoGain, NoTheft, Asking, Fresh
    <3> QED BY <3>1, <3>2
  <2>3. CASE StartJob(w)
    <3>1. \/ Goes(w, "claiming") \/ Rests(w) \/ Goes(w, "recording")
      BY <2>3 DEF StartJob
    <3>2. work[w].attempt = 0 /\ work[w].step = "starting" /\ committing' = committing /\ lapsed' = lapsed
      BY <2>0, <2>3 DEF StartJob, At
    <3>3. /\ work'[w].attempt = 0
          /\ \A v \in Worker \ {w} : work'[v] = work[v]
      BY <1>a, <2>0, <3>1, <3>2, GoesSets, RestsSets
    <3>4. \A s \in Batch : job[s].state = "running" => job'[s] = job[s]
      <4>1. work[w].source \in Batch
        BY <2>b, <3>2 DEF Unplaced
      <4> QED BY <2>3, <4>1 DEF StartJob, TypeOK
    <3>5. NoGain /\ NoTheft
      BY <1>a, <3>2, <3>3, <3>4 DEF NoGain, NoTheft
    <3> QED BY <1>a, <2>a, <3>2, <3>3, <3>5, LeaseKept DEF Fresh
  <2>4. CASE Claim(w)
    <3> DEFINE s == work[w].source
    <3>1. s \in Batch /\ work[w].step = "claiming" /\ work[w].attempt = 0
      BY <2>0, <2>b, <2>4 DEF Claim, At, Unplaced
    <3>2. CASE Leasable(s)
      <4>1. /\ job'[s].state = "running" /\ job'[s].attempts = job[s].attempts + 1
            /\ \A u \in Batch \ {s} : job'[u] = job[u]
        BY <2>4, <3>1, <3>2 DEF Claim, TypeOK
      <4>2. work[w] \in WorkType
        BY <2>0 DEF TypeOK
      <4>3. work' = [work EXCEPT ![w] = [work[w] EXCEPT !.step = "recording", !.attempt = job[s].attempts + 1]]
        BY <2>4, <3>2 DEF Claim
      <4>4. /\ work'[w].step = "recording" /\ work'[w].source = s
            /\ work'[w].attempt = job[s].attempts + 1
            /\ \A v \in Worker \ {w} : work'[v] = work[v]
        BY <2>0, <4>2, <4>3 DEF TypeOK, WorkType
      <4>5. \A v \in Chatter : s \notin lapsed => ~Leases(v, s)
        BY <3>1, <3>2 DEF Leasable, LeaseHeld
      <4>6. lapsed' = lapsed /\ committing' = committing
        BY <2>4 DEF Claim
      <4>7. \A v \in Chatter, u \in Batch \ lapsed :
              Leases(v, u)' => (v = w /\ u = s) \/ (v # w /\ u # s /\ Leases(v, u) /\ work'[v] = work[v])
        BY <1>a, <4>4, <4>5 DEF Leases
      <4>8. OneLease'
        BY <4>6, <4>7 DEF OneLease
      <4>9. LeaseHeld'
        BY <4>1, <4>4, <4>6, <4>7 DEF LeaseHeld
      <4>10. Fresh'
        BY <1>a, <2>a, <3>1, <4>4, <4>6 DEF Fresh
      <4> QED BY <4>8, <4>9, <4>10
    <3>3. CASE ~Leasable(s)
      BY <2>0, <2>4, <2>a, <3>1, <3>3, <1>b DEF Claim, At
    <3> QED BY <3>2, <3>3
  <2>5. CASE RecordRaises(w)
    BY <2>0, <2>5, <2>a, <1>b DEF RecordRaises, At
  <2>6. CASE OpenStream(w)
    BY <2>0, <2>6, <2>a, <1>b DEF OpenStream, At, Asking, Step
  <2>7. ASSUME NEW o \in {"transient", "final"}, Fail(w, o) PROVE Kept
    <3>1. work[w].step \in Asking /\ work[w].source \in Batch /\ work[w] # Idle
      BY <2>7, <2>a, <2>b DEF Fail, At, Asking, Unplaced
    <3>2. Goes(w, "failing") \/ Rests(w)
      BY <2>7 DEF Fail
    <3>3. /\ work'[w] = Idle \/ work'[w].step = "failing"
          /\ \A v \in Worker \ {w} : work'[v] = work[v]
      BY <2>0, <3>2, GoesSets, RestsSets
    <3>4. LeaseHeld' /\ OneLease'
      BY <1>a, <2>7, <3>1, <3>3, FinishKeeps DEF Fail, Asking
    <3> QED BY <1>a, <2>7, <3>1, <3>3, <3>4 DEF Fail, Fresh
  <2>8. CASE FailStream(w)
    BY <2>0, <2>8, <2>a, <1>b DEF FailStream, At
  <2>9. ASSUME NEW search \in BOOLEAN, Complete(w, search) PROVE Kept
    <3>1. work[w].step \in Asking /\ work[w].source \in Batch /\ work[w] # Idle
      BY <2>9, <2>a, <2>b DEF Complete, At, Asking, Unplaced
    <3>2. work[w] \in WorkType
      BY <2>0 DEF TypeOK
    <3>3. /\ work'[w].step \in {"queueing", "presenting"}
          /\ \A v \in Worker \ {w} : work'[v] = work[v]
      BY <2>0, <2>9, <3>2 DEF Complete, TypeOK, WorkType
    <3>4. LeaseHeld' /\ OneLease'
      BY <1>a, <2>9, <3>1, <3>3, FinishKeeps DEF Complete, Asking
    <3> QED BY <1>a, <2>9, <3>1, <3>3, <3>4 DEF Complete, Fresh
  <2>10. CASE QueueResearch(w)
    BY <2>0, <2>10, <2>a, <1>b DEF QueueResearch, At, Asking, Step
  <2>11. CASE PresentRaises(w)
    BY <2>0, <2>11, <2>a, <1>b DEF PresentRaises, At
  <2>12. CASE FinishStream(w)
    BY <2>0, <2>12, <2>a, <1>b DEF FinishStream, At, Asking, Step
  <2>13. CASE Reply(w)
    BY <2>0, <2>13, <2>a, <1>b DEF Reply, At, Asking, Step
  <2>14. CASE Mark(w)
    BY <2>0, <2>14, <2>a, <1>b DEF Mark, At
  <2> QED BY <1>5, <2>1, <2>2, <2>3, <2>4, <2>5, <2>6, <2>7, <2>8, <2>9, <2>10, <2>11, <2>12,
             <2>13, <2>14 DEF Chat
<1>6. CASE Background
  <2>1. \A v \in Worker \ {Researcher} : work'[v] = work[v]
    <3>1. \/ Rests(Researcher) \/ (\E s \in Step : Goes(Researcher, s))
          \/ (\E r : work' = [work EXCEPT ![Researcher] = r])
      BY <1>6 DEF Background, StepAside, NothingToResearch, StartResearch, EvidenceReady, FinishResearch,
                  ResearchRaises, Reply, Mark, Step
    <3> QED BY <1>a, <3>1, GoesSets, RestsSets DEF TypeOK
  <2>2. UNCHANGED <<job, lapsed, committing>>
    BY <1>6 DEF Background, StepAside, NothingToResearch, StartResearch, EvidenceReady, FinishResearch,
                ResearchRaises, Reply, Mark
  <2>3. NoGain /\ NoTheft
    BY <1>a, <2>1, <2>2 DEF NoGain, NoTheft
  <2> QED BY <1>a, <2>1, <2>2, <2>3, LeaseKept DEF Fresh
<1>7. ASSUME NEW s \in Batch, ExpireLease(s) PROVE Kept
  <2>1. NoGain
    BY <1>7 DEF ExpireLease, NoGain
  <2>2. \A u \in Batch \ {s} : job'[u] = job[u]
    BY <1>7 DEF ExpireLease, Finished, TypeOK
  <2>3. NoTheft
    <3>1. CASE Held(s)
      BY <1>7, <2>2, <3>1 DEF ExpireLease, NoTheft
    <3>2. CASE ~Held(s)
      <4>1. \A v \in Chatter : s \notin lapsed => ~Leases(v, s)
        BY <3>2 DEF Held, LeaseHeld
      <4>2. \A v \in Chatter : Leases(v, s)' => Leases(v, s)
        BY <1>7 DEF ExpireLease, Leases
      <4>3. lapsed' = lapsed
        BY <1>7, <3>2 DEF ExpireLease
      <4> QED BY <2>2, <4>1, <4>2, <4>3 DEF NoTheft
    <3> QED BY <3>1, <3>2
  <2> QED BY <1>7, <2>1, <2>3, LeaseKept DEF ExpireLease, Fresh
<1>8. CASE Stop
  <2>1. \A v \in Worker : work'[v] = Idle
    BY <1>8 DEF Stop
  <2>2. NoGain /\ NoTheft
    BY <1>8, <1>a, <2>1 DEF Stop, NoGain, NoTheft
  <2> QED BY <1>a, <2>1, <2>2, LeaseKept DEF Fresh
<1>9. CASE Restart
  BY <1>9, LeaseKept DEF Restart, NoGain, NoTheft, Fresh
<1> QED BY <1>0, <1>1, <1>2, <1>3, <1>4, <1>5, <1>6, <1>7, <1>8, <1>9 DEF Next, Commit

\* Two threads ask about the same words under leases of theirs only after
\* somebody else ended the lease of one: claim_cognition_job excludes the
\* second thread, whatever the faults and the stops.
THEOREM LeaseExcludes == Spec => []OneLease
<1>1. Init => TypeOK /\ Placed /\ Fresh /\ LeaseHeld /\ OneLease
  BY TypeInit, LeaseInit
<1>2. TypeOK /\ Placed /\ Fresh /\ LeaseHeld /\ OneLease /\ [Next]_vars
        => (TypeOK /\ Placed /\ Fresh /\ LeaseHeld /\ OneLease)'
  BY TypeStep, LeaseStep
<1> QED BY <1>1, <1>2, PTL DEF Spec

(***************************************************************************)
(* What costs a lease.  A thread without a lease works on a job that was   *)
(* completed, and nothing but a failure takes a job back from there.       *)
(***************************************************************************)

Unleased ==
  \A w \in Chatter : work[w].step \in Asking /\ work[w].attempt = 0 =>
    job[work[w].source].state = "completed"

FaultFree == faults = 0 => lapsed = {} /\ Unleased

LEMMA FaultFreeInit == Init => FaultFree
BY DEF Init, FaultFree, Unleased, Asking, Idle, Chatter, Worker

\* A step by which no thread comes to work without a lease, on any job that
\* the step does not leave completed.
LEMMA UnleasedKept ==
  ASSUME TypeOK, Placed, Unleased,
         \A s \in Batch : job[s].state = "completed" => job'[s].state = "completed",
         \A w \in Chatter :
           \/ work'[w] = work[w]
           \/ work'[w].step \notin Asking
           \/ work'[w].attempt # 0
           \/ work[w].step \in Asking /\ work'[w].source = work[w].source /\ work[w].attempt = 0
  PROVE  Unleased'
<1> SUFFICES ASSUME NEW w \in Chatter, work'[w].step \in Asking, work'[w].attempt = 0
             PROVE  job'[work'[w].source].state = "completed"
  BY DEF Unleased
<1>1. work[w].step \in Asking /\ work'[w].source = work[w].source /\ work[w].attempt = 0
  OBVIOUS
<1>2. work[w].source \in Batch
  BY <1>1 DEF Placed, Asking, Unplaced, Worker
<1> QED BY <1>1, <1>2 DEF Unleased

LEMMA FaultFreeStep ==
  ASSUME TypeOK, Placed, Fresh, LeaseHeld, FaultFree, [Next]_vars
  PROVE  FaultFree'
<1> SUFFICES ASSUME faults' = 0 PROVE lapsed' = {} /\ Unleased'
  BY DEF FaultFree
<1> USE DEF words, store, history
<1>a. /\ Idle.attempt = 0 /\ Idle.step = "idle" /\ "idle" \notin Asking
      /\ Researcher \in Worker \ Chatter /\ Chatter \subseteq Worker
      /\ "direct" \in Chatter /\ "dispatcher" \in Chatter
  BY DEF Idle, Researcher, Worker, Chatter, Asking
<1>b. faults \in Nat
  BY DEF TypeOK
<1>0. ASSUME UNCHANGED <<job, lapsed>>, faults = 0, NEW w \in Worker,
             \/ Rests(w)
             \/ \E s \in Step : Goes(w, s) /\ (s \in Asking => work[w].step \in Asking)
      PROVE  lapsed' = {} /\ Unleased'
  <2>1. \A v \in Worker \ {w} : work'[v] = work[v]
    BY <1>0, GoesSets, RestsSets
  <2>2. \/ work'[w].step \notin Asking
        \/ work[w].step \in Asking /\ work'[w].source = work[w].source /\ work'[w].attempt = work[w].attempt
    BY <1>a, <1>0, GoesSets, RestsSets
  <2> QED BY <1>a, <1>0, <2>1, <2>2, UnleasedKept DEF FaultFree
<1>1. CASE UNCHANGED <<job, lapsed, work, faults>>
  BY <1>1, UnleasedKept DEF FaultFree
<1>2. ASSUME NEW c \in Committer, Link(c) PROVE lapsed' = {} /\ Unleased'
  BY <1>a, <1>0, <1>1, <1>2 DEF Link, Step, Asking
<1>3. CASE Dispatch
  BY <1>a, <1>0, <1>3 DEF Dispatch, Step, Asking
<1>4. ASSUME NEW w \in Chatter, Chat(w) PROVE lapsed' = {} /\ Unleased'
  <2>0. /\ w \in Worker /\ work[w] \in WorkType
        /\ work[w].step \notin Unplaced => work[w].source \in Batch
    BY <1>a DEF Placed, TypeOK
  <2>1. CASE ReadBatches(w)
    <3>1. CASE Pending = {}
      BY <1>0, <2>0, <2>1, <3>1 DEF ReadBatches
    <3>2. CASE Pending # {}
      <4>1. work' = [work EXCEPT ![w] = [work[w] EXCEPT !.step = "sourcing", !.batches = Pending]]
        BY <2>1, <3>2 DEF ReadBatches
      <4>2. work'[w].step = "sourcing" /\ \A v \in Worker \ {w} : work'[v] = work[v]
        BY <2>0, <4>1 DEF TypeOK, WorkType
      <4> QED BY <1>a, <2>1, <4>2, UnleasedKept DEF ReadBatches, FaultFree, Asking
    <3> QED BY <3>1, <3>2
  <2>2. CASE ReadSource(w)
    <3>1. CASE artifacts = <<>>
      BY <1>0, <2>0, <2>2, <3>1 DEF ReadSource
    <3>2. CASE artifacts # <<>>
      <4>1. work' = [work EXCEPT ![w] = [work[w] EXCEPT !.step = "starting", !.source = Latest]]
        BY <2>2, <3>2 DEF ReadSource
      <4>2. work'[w].step = "starting" /\ \A v \in Worker \ {w} : work'[v] = work[v]
        BY <2>0, <4>1 DEF TypeOK, WorkType
      <4> QED BY <1>a, <2>2, <4>2, UnleasedKept DEF ReadSource, FaultFree, Asking
    <3> QED BY <3>1, <3>2
  <2>3. CASE StartJob(w)
    <3> DEFINE s == work[w].source
    <3>1. s \in Batch /\ lapsed' = lapsed /\ faults = 0
      BY <2>0, <2>3 DEF StartJob, At, Unplaced
    <3>2. /\ job[s].state # "none" => job' = job
          /\ \A u \in Batch \ {s} : job'[u] = job[u]
      BY <2>3, <3>1 DEF StartJob, TypeOK
    <3>3. CASE Goes(w, "claiming") \/ Rests(w)
      <4>1. work'[w].step \notin Asking /\ \A v \in Worker \ {w} : work'[v] = work[v]
        BY <1>a, <2>0, <3>3, GoesSets, RestsSets DEF Asking
      <4> QED BY <1>a, <3>1, <3>2, <4>1, UnleasedKept DEF FaultFree
    <3>4. CASE Goes(w, "recording") /\ job[s].state = "completed"
      <4>1. work'[w].source = s /\ \A v \in Worker \ {w} : work'[v] = work[v]
        BY <2>0, <3>4, GoesSets
      <4>2. job' = job /\ Unleased
        BY <3>1, <3>2, <3>4 DEF FaultFree
      <4> QED BY <1>a, <3>1, <3>4, <4>1, <4>2 DEF FaultFree, Unleased
    <3> QED BY <2>3, <3>3, <3>4 DEF StartJob
  <2>4. CASE Claim(w)
    <3> DEFINE s == work[w].source
    <3>1. s \in Batch /\ lapsed' = lapsed /\ faults = 0
      BY <2>0, <2>4 DEF Claim, At, Unplaced
    <3>2. CASE Leasable(s)
      <4>1. /\ job[s].state # "completed" /\ \A u \in Batch \ {s} : job'[u] = job[u]
            /\ job[s].attempts \in Nat
        BY <2>4, <3>1, <3>2 DEF Claim, Leasable, TypeOK, JobType
      <4>2. work' = [work EXCEPT ![w] = [work[w] EXCEPT !.step = "recording", !.attempt = job[s].attempts + 1]]
        BY <2>4, <3>2 DEF Claim
      <4>3. work'[w].attempt = job[s].attempts + 1 /\ \A v \in Worker \ {w} : work'[v] = work[v]
        BY <2>0, <4>2 DEF TypeOK, WorkType
      <4>4. work'[w].attempt # 0
        BY <4>1, <4>3
      <4> QED BY <1>a, <3>1, <4>1, <4>3, <4>4, UnleasedKept DEF FaultFree
    <3>3. CASE ~Leasable(s)
      BY <1>0, <2>0, <2>4, <3>3, <3>1 DEF Claim
    <3> QED BY <3>2, <3>3
  <2>5. CASE OpenStream(w)
    BY <1>0, <2>0, <2>5 DEF OpenStream, At, Asking, Step
  <2>6. CASE \/ RecordRaises(w) \/ PresentRaises(w)
             \/ \E o \in {"transient", "final"} : Fail(w, o)
    BY <1>b, <2>6 DEF RecordRaises, PresentRaises, Fail
  <2>7. ASSUME NEW search \in BOOLEAN, Complete(w, search) PROVE lapsed' = {} /\ Unleased'
    <3> DEFINE s == work[w].source
    <3>1. s \in Batch /\ faults = 0 /\ work[w].step \in Asking
      BY <2>0, <2>7 DEF Complete, At, Unplaced, Asking
    <3>2. /\ lapsed = {} /\ Unleased
          /\ work[w].attempt = 0 => job[s].state = "completed"
      BY <3>1 DEF FaultFree, Unleased
    <3>3. work[w].attempt # 0 => work[w].attempt = job[s].attempts
      <4>1. work[w].attempt \in Nat
        BY <2>0 DEF WorkType
      <4>2. work[w].attempt # 0 => Leases(w, s)
        BY <3>1, <4>1 DEF Leases, Asking
      <4> QED BY <3>1, <3>2, <4>2 DEF LeaseHeld
    <3>4. lapsed' = {}
      BY <2>7, <3>2, <3>3 DEF Complete, Finish
    <3>5. \A u \in Batch : job[u].state = "completed" => job'[u].state = "completed"
      BY <2>7, <3>1 DEF Complete, Finish, Finished, TypeOK
    <3> DEFINE step == IF search THEN "queueing" ELSE "presenting"
    <3>6. work' = [work EXCEPT ![w] = [work[w] EXCEPT !.step = step, !.search = search]]
      BY <2>7 DEF Complete
    <3>7. work'[w].step \notin Asking /\ \A v \in Worker \ {w} : work'[v] = work[v]
      BY <2>0, <3>6 DEF TypeOK, WorkType, Asking
    <3> QED BY <1>a, <3>2, <3>4, <3>5, <3>7, UnleasedKept
  <2>8. CASE FailStream(w) \/ Mark(w)
    BY <1>0, <2>0, <2>8 DEF FailStream, Mark
  <2>9. CASE QueueResearch(w) \/ FinishStream(w) \/ Reply(w)
    BY <1>0, <2>0, <2>9 DEF QueueResearch, FinishStream, Reply, Step, Asking
  <2> QED BY <1>4, <2>1, <2>2, <2>3, <2>4, <2>5, <2>6, <2>7, <2>8, <2>9 DEF Chat
<1>5. CASE Background
  <2>1. CASE ResearchRaises
    BY <1>b, <2>1 DEF ResearchRaises
  <2>2. CASE ~ResearchRaises
    <3>1. UNCHANGED <<job, lapsed, faults>>
      BY <1>5, <2>2 DEF Background, StepAside, NothingToResearch, StartResearch, EvidenceReady,
         FinishResearch, Reply, Mark
    <3>2. \A v \in Chatter : work'[v] = work[v]
      BY <1>a, <1>5, <2>2 DEF Background, StepAside, NothingToResearch, StartResearch, EvidenceReady,
         FinishResearch, Reply, Mark, Goes, Rests, TypeOK
    <3> QED BY <3>1, <3>2, UnleasedKept DEF FaultFree
  <2> QED BY <2>1, <2>2
<1>6. ASSUME NEW s \in Batch, ExpireLease(s) PROVE lapsed' = {} /\ Unleased'
  <2>1. /\ ~Held(s) /\ faults = 0 /\ lapsed' = lapsed /\ work' = work
    BY <1>b, <1>6 DEF ExpireLease
  <2>2. \A u \in Batch : job[u].state = "completed" => job'[u].state = "completed"
    BY <1>6 DEF ExpireLease, Finished, TypeOK
  <2> QED BY <2>1, <2>2, UnleasedKept DEF FaultFree
<1>7. CASE Stop
  <2>1. /\ \A v \in Worker : work'[v].step \notin Asking
        /\ UNCHANGED <<job, lapsed, faults>>
    BY <1>a, <1>7 DEF Stop
  <2> QED BY <1>a, <2>1, UnleasedKept DEF FaultFree
<1> QED
  BY <1>1, <1>2, <1>3, <1>4, <1>5, <1>6, <1>7
  DEF Next, Commit, Submit, AppendArtifact, Restart, vars

(* Only a failed call or a lease that expires under its holder lets a job
   lapse, whatever stops, restarts and threads that go on without a lease. *)
THEOREM LapsesAreFaults == Spec => []OnlyFaultsLapse
<1>1. FaultFree => OnlyFaultsLapse
  BY DEF FaultFree, OnlyFaultsLapse
<1>2. Init => TypeOK /\ Placed /\ Fresh /\ LeaseHeld /\ OneLease /\ FaultFree
  BY TypeInit, LeaseInit, FaultFreeInit
<1>3. TypeOK /\ Placed /\ Fresh /\ LeaseHeld /\ OneLease /\ FaultFree /\ [Next]_vars
        => (TypeOK /\ Placed /\ Fresh /\ LeaseHeld /\ OneLease /\ FaultFree)'
  BY TypeStep, LeaseStep, FaultFreeStep
<1> QED BY <1>1, <1>2, <1>3, PTL DEF Spec

(* Until a call fails or a lease expires early, no two threads ever ask about
   the same words under leases, over any number of stops. *)
THEOREM LeasesHold ==
  Spec => [](faults = 0 => \A v, w \in Chatter, s \in Batch : Leases(v, s) /\ Leases(w, s) => v = w)
<1>1. OneLease /\ OnlyFaultsLapse =>
        (faults = 0 => \A v, w \in Chatter, s \in Batch : Leases(v, s) /\ Leases(w, s) => v = w)
  BY DEF OneLease, OnlyFaultsLapse
<1> QED BY <1>1, LeaseExcludes, LapsesAreFaults, PTL

(***************************************************************************)
(* Responded batches and finished research.                                *)
(***************************************************************************)

\* A worker about to mark batches has appended the reply that covers them.
Replied ==
  \A w \in Worker : work[w].step = "marking" /\ ~work[w].search =>
    \A b \in work[w].batches : answers[b] > 0

Drafts == {b \in Batch : batch[b] = "draft"}

\* Only committed batches are answered or researched, and the researcher works
\* for the batches its job was queued with.
Scoped ==
  /\ \A w \in Worker : work[w].batches \cap Drafts = {}
  /\ \A s \in Batch : research[s].batches \cap Drafts = {}
  /\ LET r == work[Researcher] IN
     r.step \in {"researching", "following", "replying", "marking"} =>
       /\ r.batches = research[r.source].batches /\ ~r.search
       /\ research[r.source].state # "none"

Delivery == Replied /\ RespondedIsAnswered /\ Scoped /\ ResearchDelivered

LEMMA DeliveryInit == Init => Delivery
BY DEF Init, Delivery, Replied, RespondedIsAnswered, Scoped, ResearchDelivered, Drafts, Idle, Researcher,
       Worker, Chatter

\* Steps of the threads that chat and of the committers change neither what the
\* researcher is at nor a research that exists.
ResearchLeft ==
  /\ work'[Researcher] = work[Researcher]
  /\ \A s \in Batch : research[s].state # "none" => research'[s] = research[s]
  /\ \A s \in Batch : research'[s].state = "complete" => research[s].state = "complete"
  /\ Pending' \cap (Batch \ Drafts) \subseteq Pending
  /\ stops' = stops

LEMMA ResearchLeftKeeps ==
  ASSUME TypeOK, Placed, Scoped, ResearchDelivered, ResearchLeft
  PROVE  /\ ResearchDelivered'
         /\ LET r == work'[Researcher] IN
            r.step \in {"researching", "following", "replying", "marking"} =>
              /\ r.batches = research'[r.source].batches /\ ~r.search
              /\ research'[r.source].state # "none"
<1>1. Researcher \in Worker
  BY DEF Researcher, Worker
<1>2. work[Researcher].step \in {"researching", "following", "replying", "marking"}
        => work[Researcher].source \in Batch
  BY <1>1 DEF Placed, Unplaced
<1>3. ASSUME NEW s \in Batch, research'[s].state = "complete", stops' = 0, StillWanted(s)'
      PROVE  work'[Researcher].source = s /\ work'[Researcher].step \in {"replying", "marking"}
  <2>1. research[s].state = "complete" /\ research'[s] = research[s]
    BY <1>3 DEF ResearchLeft
  <2>2. research[s].batches \subseteq Batch
    BY DEF TypeOK, ResearchType
  <2>3. StillWanted(s)
    BY <1>3, <2>1, <2>2 DEF StillWanted, ResearchLeft, Scoped
  <2> QED BY <1>3, <2>1, <2>3 DEF ResearchDelivered, ResearchLeft
<1> QED BY <1>2, <1>3 DEF ResearchLeft, ResearchDelivered, Scoped

Working == {"researching", "following", "replying", "marking"}

LEMMA ReplyKeeps ==
  ASSUME TypeOK, Placed, Delivery, NEW w \in Worker, Reply(w)
  PROVE  Delivery'
<1>1. /\ Replied /\ RespondedIsAnswered /\ Scoped /\ ResearchDelivered
      /\ UNCHANGED <<batch, research, stops>> /\ work[w].step = "replying" /\ Goes(w, "marking")
  BY DEF Delivery, Reply, At, words, history
<1>2. /\ work'[w].step = "marking" /\ work'[w].source = work[w].source
      /\ work'[w].batches = work[w].batches /\ work'[w].search = work[w].search
      /\ \A v \in Worker \ {w} : work'[v] = work[v]
  BY <1>1, GoesSets
<1>3. \A b \in Batch : /\ answers'[b] >= answers[b]
                       /\ b \in work[w].batches /\ ~work[w].search => answers'[b] > 0
  BY DEF Reply, TypeOK
<1>4. \A v \in Worker : work[v].batches \subseteq Batch
  BY DEF TypeOK, WorkType
<1>5. \A b \in Batch : answers[b] \in Nat /\ answers'[b] \in Nat
  BY ReplyTyped DEF TypeOK
<1>6. Replied'
  <2>1. ASSUME NEW v \in Worker, work'[v].step = "marking", ~work'[v].search, NEW b \in work'[v].batches
        PROVE  answers'[b] > 0
    <3>1. b \in Batch
      BY <1>2, <1>4, <2>1
    <3>2. CASE v = w
      BY <1>2, <1>3, <2>1, <3>1, <3>2
    <3>3. CASE v # w
      <4>1. answers[b] > 0
        BY <1>1, <1>2, <2>1, <3>3 DEF Replied
      <4> QED BY <1>3, <1>5, <3>1, <4>1
    <3> QED BY <3>2, <3>3
  <2> QED BY <2>1 DEF Replied
<1>7. RespondedIsAnswered'
  BY <1>1, <1>3, <1>5 DEF RespondedIsAnswered
<1>8. Scoped'
  <2>1. Drafts' = Drafts /\ research' = research
    BY <1>1 DEF Drafts
  <2>2. \A v \in Worker : /\ work'[v].batches = work[v].batches /\ work'[v].search = work[v].search
                          /\ work'[v].source = work[v].source
                          /\ work'[v].step \in Working => work[v].step \in Working
    BY <1>1, <1>2 DEF Working
  <2>3. Researcher \in Worker
    BY DEF Researcher, Worker
  <2> QED BY <1>1, <2>1, <2>2, <2>3 DEF Scoped, Working
<1>9. ResearchDelivered'
  BY <1>1, <1>2 DEF ResearchDelivered, StillWanted, Pending, Researcher, Worker
<1> QED BY <1>6, <1>7, <1>8, <1>9 DEF Delivery

LEMMA MarkKeeps ==
  ASSUME TypeOK, Placed, Delivery, NEW w \in Worker, Mark(w)
  PROVE  Delivery'
<1>1. /\ Replied /\ RespondedIsAnswered /\ Scoped /\ ResearchDelivered
      /\ UNCHANGED <<answers, research, stops>> /\ work[w].step = "marking" /\ Rests(w)
  BY DEF Delivery, Mark, At, words, history
<1>2. work'[w] = Idle /\ Idle.batches = {} /\ Idle.step = "idle" /\ \A v \in Worker \ {w} : work'[v] = work[v]
  BY <1>1, RestsSets DEF Idle
<1>3. /\ Pending' \subseteq Pending /\ Drafts' = Drafts
      /\ \A b \in Batch : batch'[b] = "responded" =>
           batch[b] = "responded" \/ (~work[w].search /\ b \in work[w].batches)
      /\ ~work[w].search => Pending' \cap work[w].batches = {}
  BY DEF Mark, Completes, Pending, Drafts
<1>4. Replied'
  BY <1>1, <1>2 DEF Replied
<1>5. RespondedIsAnswered'
  BY <1>1, <1>3 DEF RespondedIsAnswered, Replied
<1>6. Scoped'
  <2>1. research' = research /\ Researcher \in Worker
    BY <1>1 DEF Researcher, Worker
  <2>2. \A v \in Worker : work'[v] = work[v] \/ (work'[v].batches = {} /\ work'[v].step \notin Working)
    BY <1>2 DEF Working
  <2> QED BY <1>1, <1>3, <2>1, <2>2 DEF Scoped, Working
<1>7. ASSUME NEW s \in Batch, research'[s].state = "complete", stops' = 0, StillWanted(s)'
      PROVE  work'[Researcher].source = s /\ work'[Researcher].step \in {"replying", "marking"}
  <2>1. StillWanted(s) /\ research'[s] = research[s]
    BY <1>1, <1>3, <1>7 DEF StillWanted
  <2>2. work[Researcher].source = s /\ work[Researcher].step \in {"replying", "marking"}
    BY <1>1, <1>7, <2>1 DEF ResearchDelivered
  <2>3. work[Researcher].batches = research[s].batches /\ ~work[Researcher].search
    BY <1>1, <2>2 DEF Scoped
  <2>4. w # Researcher
    BY <1>3, <1>7, <2>1, <2>3 DEF StillWanted
  <2> QED BY <1>2, <2>2, <2>4 DEF Researcher, Worker
<1>8. ResearchDelivered'
  BY <1>7 DEF ResearchDelivered
<1> QED BY <1>4, <1>5, <1>6, <1>8 DEF Delivery

LEMMA DeliveryStep == TypeOK /\ Placed /\ Delivery /\ [Next]_vars => Delivery'
<1> SUFFICES ASSUME TypeOK, Placed, Delivery, [Next]_vars PROVE Delivery'
  OBVIOUS
<1> USE DEF words, store, history
<1>0. CASE UNCHANGED vars
  BY <1>0 DEF Delivery, Replied, RespondedIsAnswered, Scoped, ResearchDelivered, StillWanted, Pending, Drafts, vars
<1>a. /\ Researcher \in Worker \ Chatter /\ Chatter \subseteq Worker
      /\ "direct" \in Chatter /\ "dispatcher" \in Chatter
      /\ Idle.batches = {} /\ Idle.step = "idle"
  BY DEF Idle, Researcher, Worker, Chatter
<1>b. Replied /\ RespondedIsAnswered /\ Scoped /\ ResearchDelivered
  BY DEF Delivery
\* Steps that change no batch and no answer.
<1>c. ASSUME UNCHANGED <<batch, answers, stops>>, NEW w \in Worker,
             \A v \in Worker \ {w} : work'[v] = work[v],
             work'[w].step # "marking",
             work'[w].batches \cap Drafts = {}
      PROVE  Replied' /\ RespondedIsAnswered' /\ \A v \in Worker : work'[v].batches \cap Drafts' = {}
  BY <1>b, <1>c DEF Replied, RespondedIsAnswered, Scoped, Drafts
<1>d. ASSUME UNCHANGED <<batch, answers, stops, research>>, NEW w \in Chatter,
             \A v \in Worker \ {w} : work'[v] = work[v],
             work'[w].step # "marking", work'[w].batches \cap Drafts = {}
      PROVE  Delivery'
  <2>1. ResearchLeft
    BY <1>a, <1>d DEF ResearchLeft, Pending
  <2>2. \A s \in Batch : research'[s].batches \cap Drafts' = {}
    BY <1>b, <1>d DEF Scoped, Drafts
  <2> QED BY <1>a, <1>b, <1>c, <1>d, <2>1, <2>2, ResearchLeftKeeps DEF Delivery, Scoped
\* A worker that moves on or rests keeps to the batches it read.
<1>e. ASSUME NEW w \in Worker, Rests(w) \/ (\E s \in Step \ {"marking"} : Goes(w, s))
      PROVE  /\ \A v \in Worker \ {w} : work'[v] = work[v]
             /\ work'[w].step # "marking" /\ work'[w].batches \cap Drafts = {}
  <2>1. work[w].batches \cap Drafts = {}
    BY <1>b DEF Scoped
  <2>2. CASE Rests(w)
    BY <1>a, <2>2, RestsSets
  <2>3. ASSUME NEW s \in Step \ {"marking"}, Goes(w, s)
        PROVE  /\ \A v \in Worker \ {w} : work'[v] = work[v]
               /\ work'[w].step # "marking" /\ work'[w].batches = work[w].batches
    BY <2>3, GoesSets
  <2> QED BY <1>e, <2>1, <2>2, <2>3
<1>1. ASSUME NEW c \in Committer, NEW b \in Batch, Submit(c, b) PROVE Delivery'
  <2>1. Drafts' \subseteq Drafts /\ Pending' \subseteq Pending \cup Drafts
    BY <1>1 DEF Submit, Drafts, Pending, TypeOK
  <2>2. ResearchLeft
    BY <1>1, <2>1 DEF Submit, ResearchLeft
  <2>3. RespondedIsAnswered'
    BY <1>b, <1>1 DEF Submit, RespondedIsAnswered, TypeOK
  <2>4. Replied'
    BY <1>b, <1>1 DEF Submit, Replied
  <2>5. /\ \A w \in Worker : work'[w].batches \cap Drafts' = {}
        /\ \A s \in Batch : research'[s].batches \cap Drafts' = {}
    BY <1>b, <1>1, <2>1 DEF Submit, Scoped
  <2> QED BY <1>b, <2>2, <2>3, <2>4, <2>5, ResearchLeftKeeps DEF Delivery, Scoped
<1>2. ASSUME NEW c \in Committer, AppendArtifact(c) PROVE Delivery'
  BY <1>2, <1>a, <1>b, <1>d DEF AppendArtifact, Scoped, Delivery, Replied, RespondedIsAnswered, Scoped,
     ResearchDelivered, StillWanted, Pending, Drafts
<1>3. ASSUME NEW c \in Committer, Link(c) PROVE Delivery'
  <2>1. CASE c = "ticker"
    BY <1>3, <1>a, <1>d, <1>e, <2>1 DEF Link, Step
  <2>2. CASE c # "ticker"
    BY <1>3, <1>b, <2>2 DEF Link, Delivery, Replied, RespondedIsAnswered, Scoped, ResearchDelivered,
       StillWanted, Pending, Drafts
  <2> QED BY <2>1, <2>2
<1>4. CASE Dispatch
  BY <1>4, <1>a, <1>d, <1>e DEF Dispatch, Step
<1>5. ASSUME NEW w \in Chatter, Chat(w) PROVE Delivery'
  <2>0. w \in Worker /\ w # Researcher
    BY <1>a
  <2>a. work[w] \in WorkType /\ work[w].batches \cap Drafts = {}
    BY <1>b, <2>0 DEF TypeOK, Scoped
  <2>1. CASE ReadBatches(w)
    <3>1. CASE Pending = {}
      BY <2>0, <2>1, <3>1, <1>d, <1>e DEF ReadBatches
    <3>2. CASE Pending # {}
      <4>1. work' = [work EXCEPT ![w] = [work[w] EXCEPT !.step = "sourcing", !.batches = Pending]]
        BY <2>1, <3>2 DEF ReadBatches
      <4>2. /\ work'[w].step = "sourcing" /\ work'[w].batches = Pending
            /\ \A v \in Worker \ {w} : work'[v] = work[v]
        BY <2>0, <2>a, <4>1 DEF TypeOK, WorkType
      <4>3. Pending \cap Drafts = {}
        BY DEF Pending, Drafts
      <4> QED BY <2>1, <4>2, <4>3, <1>d DEF ReadBatches
    <3> QED BY <3>1, <3>2
  <2>2. CASE ReadSource(w)
    <3>1. CASE artifacts = <<>>
      BY <2>0, <2>2, <3>1, <1>d, <1>e DEF ReadSource
    <3>2. CASE artifacts # <<>>
      <4>1. work' = [work EXCEPT ![w] = [work[w] EXCEPT !.step = "starting", !.source = Latest]]
        BY <2>2, <3>2 DEF ReadSource
      <4>2. /\ work'[w].step = "starting" /\ work'[w].batches = work[w].batches
            /\ \A v \in Worker \ {w} : work'[v] = work[v]
        BY <2>0, <2>a, <4>1 DEF TypeOK, WorkType
      <4> QED BY <2>2, <2>a, <4>2, <1>d DEF ReadSource
    <3> QED BY <3>1, <3>2
  <2>3. CASE StartJob(w)
    <3>1. Rests(w) \/ Goes(w, "claiming") \/ Goes(w, "recording")
      BY <2>3 DEF StartJob
    <3> QED BY <2>0, <2>3, <3>1, <1>d, <1>e DEF StartJob, Step
  <2>4. CASE Claim(w)
    <3>1. CASE Leasable(work[w].source)
      <4> DEFINE n == job[work[w].source].attempts + 1
      <4>1. work' = [work EXCEPT ![w] = [work[w] EXCEPT !.step = "recording", !.attempt = n]]
        BY <2>4, <3>1 DEF Claim
      <4>2. /\ work'[w].step = "recording" /\ work'[w].batches = work[w].batches
            /\ \A v \in Worker \ {w} : work'[v] = work[v]
        BY <2>0, <2>a, <4>1 DEF TypeOK, WorkType
      <4> QED BY <2>4, <2>a, <4>2, <1>d DEF Claim
    <3>2. CASE ~Leasable(work[w].source)
      BY <2>0, <2>4, <3>2, <1>d, <1>e DEF Claim
    <3> QED BY <3>1, <3>2
  <2>5. CASE RecordRaises(w)
    BY <2>0, <2>5, <1>d, <1>e DEF RecordRaises
  <2>6. CASE OpenStream(w)
    BY <2>0, <2>6, <1>d, <1>e DEF OpenStream, Step
  <2>7. ASSUME NEW o \in {"transient", "final"}, Fail(w, o) PROVE Delivery'
    <3>1. Rests(w) \/ Goes(w, "failing")
      BY <2>7 DEF Fail
    <3> QED BY <2>0, <2>7, <3>1, <1>d, <1>e DEF Fail, Step
  <2>8. CASE FailStream(w)
    BY <2>0, <2>8, <1>d, <1>e DEF FailStream
  <2>9. ASSUME NEW search \in BOOLEAN, Complete(w, search) PROVE Delivery'
    <3> DEFINE step == IF search THEN "queueing" ELSE "presenting"
    <3>1. work' = [work EXCEPT ![w] = [work[w] EXCEPT !.step = step, !.search = search]]
      BY <2>9 DEF Complete
    <3>2. /\ work'[w].step # "marking" /\ work'[w].batches = work[w].batches
          /\ \A v \in Worker \ {w} : work'[v] = work[v]
      BY <2>0, <2>a, <3>1 DEF TypeOK, WorkType
    <3> QED BY <2>9, <2>a, <3>2, <1>d DEF Complete
  <2>10. CASE QueueResearch(w)
    <3> DEFINE s == work[w].source
    <3>1. s \in Batch
      BY <2>0, <2>10 DEF QueueResearch, At, Placed, Unplaced
    <3>2. /\ \A u \in Batch \ {s} : research'[u] = research[u]
          /\ research[s].state # "none" => research'[s] = research[s]
          /\ research[s].state = "none" =>
               research'[s].state = "pending" /\ research'[s].batches = work[w].batches
      BY <2>10, <3>1 DEF QueueResearch, TypeOK
    <3>3. /\ \A v \in Worker \ {w} : work'[v] = work[v]
          /\ work'[w].step # "marking" /\ work'[w].batches \cap Drafts = {}
      BY <2>0, <2>10, <1>e DEF QueueResearch, Step
    <3>4. UNCHANGED <<batch, answers, stops>>
      BY <2>10 DEF QueueResearch
    <3>5. ResearchLeft
      BY <2>0, <3>2, <3>3, <3>4, <1>a DEF ResearchLeft, Pending
    <3>6. \A u \in Batch : research'[u].batches \cap Drafts' = {}
      BY <1>b, <2>a, <3>2, <3>4 DEF Scoped, Drafts
    <3> QED BY <1>b, <1>c, <2>0, <3>3, <3>4, <3>5, <3>6, ResearchLeftKeeps DEF Delivery, Scoped
  <2>11. CASE PresentRaises(w)
    BY <2>0, <2>11, <1>d, <1>e DEF PresentRaises
  <2>12. CASE FinishStream(w)
    <3>1. Rests(w) \/ Goes(w, "replying")
      BY <2>12 DEF FinishStream
    <3> QED BY <2>0, <2>12, <3>1, <1>d, <1>e DEF FinishStream, Step
  <2>13. CASE Reply(w)
    BY <2>0, <2>13, ReplyKeeps
  <2>14. CASE Mark(w)
    BY <2>0, <2>14, MarkKeeps
  <2> QED BY <1>5, <2>1, <2>2, <2>3, <2>4, <2>5, <2>6, <2>7, <2>8, <2>9, <2>10, <2>11, <2>12,
             <2>13, <2>14 DEF Chat
<1>6. CASE Background
  <2>0. Researcher \in Worker
    BY <1>a
  <2> DEFINE r == work[Researcher]
  <2>a. ASSUME UNCHANGED <<batch, answers, stops>>,
               \A v \in Worker \ {Researcher} : work'[v] = work[v],
               work'[Researcher].step # "marking", work'[Researcher].batches \cap Drafts = {},
               work'[Researcher].step \notin Working,
               r.step \notin {"replying", "marking"} \/ research'[r.source].state # "complete",
               \A s \in Batch : /\ research'[s].batches = research[s].batches
                                /\ research'[s].state = "complete" =>
                                     research[s].state = "complete" \/ ~StillWanted(s)
        PROVE  Delivery'
    <3>1. Replied' /\ RespondedIsAnswered' /\ \A v \in Worker : work'[v].batches \cap Drafts' = {}
      BY <1>c, <2>0, <2>a
    <3>2. \A s \in Batch : research'[s].batches \cap Drafts' = {}
      <4>1. batch' = batch
        BY <2>a
      <4>2. \A s \in Batch : research'[s].batches = research[s].batches
        BY <2>a
      <4> QED BY <1>b, <4>1, <4>2 DEF Scoped, Drafts
    <3>3. Scoped'
      BY <2>a, <3>1, <3>2 DEF Scoped, Working
    <3>4. ASSUME NEW s \in Batch, research'[s].state = "complete", stops' = 0 PROVE ~StillWanted(s)'
      <4>1. StillWanted(s)' => StillWanted(s)
        <5>1. batch' = batch /\ research'[s].batches = research[s].batches
          BY <2>a
        <5> QED BY <5>1 DEF StillWanted, Pending
      <4>2. CASE ~StillWanted(s)
        BY <4>1, <4>2
      <4>3. CASE StillWanted(s)
        <5>1. research[s].state = "complete" /\ stops = 0
          BY <2>a, <3>4, <4>3
        <5>2. r.source = s /\ r.step \in {"replying", "marking"}
          BY <1>b, <4>3, <5>1 DEF ResearchDelivered
        <5> QED BY <2>a, <3>4, <5>2
      <4> QED BY <4>2, <4>3
    <3> QED BY <3>1, <3>3, <3>4 DEF Delivery, ResearchDelivered
  <2>b. ASSUME UNCHANGED <<batch, answers, stops>>, NEW s \in Batch,
               \A v \in Worker \ {Researcher} : work'[v] = work[v],
               r.step \notin {"replying", "marking"},
               work'[Researcher].step \in Working \ {"marking"}, work'[Researcher].source = s,
               work'[Researcher].batches = research[s].batches, ~work'[Researcher].search,
               \A u \in Batch : /\ research'[u].batches = research[u].batches
                                /\ u # s => research'[u] = research[u],
               research'[s].state # "none",
               research'[s].state = "complete" =>
                 research[s].state = "complete" \/ work'[Researcher].step = "replying"
        PROVE  Delivery'
    <3>1. Replied' /\ RespondedIsAnswered' /\ \A v \in Worker : work'[v].batches \cap Drafts' = {}
      BY <1>b, <1>c, <2>0, <2>b DEF Scoped, Working
    <3>2. Scoped'
      <4>1. batch' = batch /\ work'[Researcher].step # "idle"
        BY <2>b DEF Working
      <4>2. \A u \in Batch : research'[u].batches = research[u].batches
        BY <2>b
      <4>3. /\ work'[Researcher].batches = research'[work'[Researcher].source].batches
            /\ ~work'[Researcher].search
            /\ research'[work'[Researcher].source].state # "none"
        BY <2>b
      <4>4. \A u \in Batch : research'[u].batches \cap Drafts' = {}
        BY <1>b, <4>1, <4>2 DEF Scoped, Drafts
      <4> QED BY <3>1, <4>3, <4>4 DEF Scoped
    <3>3. ASSUME NEW u \in Batch, research'[u].state = "complete", stops' = 0, StillWanted(u)'
          PROVE  work'[Researcher].source = u /\ work'[Researcher].step \in {"replying", "marking"}
      <4>1. StillWanted(u)
        <5>1. batch' = batch /\ research'[u].batches = research[u].batches
          BY <2>b
        <5> QED BY <3>3, <5>1 DEF StillWanted, Pending
      <4>2. research[u].state # "complete"
        BY <1>b, <2>b, <3>3, <4>1 DEF ResearchDelivered
      <4>3. u = s
        BY <2>b, <3>3, <4>2
      <4> QED BY <2>b, <3>3, <4>2, <4>3 DEF Working
    <3> QED BY <3>1, <3>2, <3>3 DEF Delivery, ResearchDelivered
  <2>1. CASE StepAside
    <3>1. /\ r.step = "idle" /\ Goes(Researcher, "recovering")
          /\ UNCHANGED <<batch, answers, stops, research>>
      BY <2>1 DEF StepAside, At
    <3>2. work'[Researcher].step = "recovering"
      BY <2>0, <3>1, GoesSets
    <3> QED BY <1>e, <2>0, <2>a, <3>1, <3>2 DEF Step, Working
  <2>2. CASE NothingToResearch
    <3>1. /\ r.step = "recovering" /\ Rests(Researcher)
          /\ UNCHANGED <<batch, answers, stops, research>>
      BY <2>2 DEF NothingToResearch, RecoverStreams, At
    <3>2. work'[Researcher].step = "idle"
      BY <1>a, <2>0, <3>1, RestsSets
    <3> QED BY <1>e, <2>0, <2>a, <3>1, <3>2 DEF Working
  <2>3. ASSUME NEW s \in Batch, StartResearch(s) PROVE Delivery'
    <3>1. /\ r.step = "recovering" /\ UNCHANGED <<batch, answers, stops>>
          /\ research[s].state # "none"
      BY <2>3 DEF StartResearch, RecoverStreams, At, Queued
    <3>2. CASE StillWanted(s)
      <4>1. /\ work' = [work EXCEPT ![Researcher] =
                          [step |-> "researching", batches |-> research[s].batches, source |-> s,
                           attempt |-> research[s].attempts + 1, search |-> FALSE]]
            /\ research' = research
        BY <2>3, <3>2 DEF StartResearch
      <4>2. /\ work'[Researcher].step = "researching" /\ work'[Researcher].source = s
            /\ work'[Researcher].batches = research[s].batches /\ ~work'[Researcher].search
            /\ \A v \in Worker \ {Researcher} : work'[v] = work[v]
        BY <2>0, <4>1 DEF TypeOK
      <4> QED BY <2>b, <3>1, <4>1, <4>2 DEF Working
    <3>3. CASE ~StillWanted(s)
      <4>1. Rests(Researcher) /\ research' = Ended(s, "complete")
        BY <2>3, <3>3 DEF StartResearch
      <4>2. work'[Researcher].step = "idle"
        BY <1>a, <2>0, <4>1, RestsSets
      <4>3. \A u \in Batch : /\ research'[u].batches = research[u].batches
                             /\ u # s => research'[u] = research[u]
        BY <4>1 DEF Ended, TypeOK
      <4> QED BY <1>e, <2>0, <2>a, <3>1, <3>3, <4>1, <4>2, <4>3 DEF Working
    <3> QED BY <3>2, <3>3
  <2>4. CASE EvidenceReady
    <3>1. /\ r.step = "researching" /\ UNCHANGED <<batch, answers, stops>> /\ r.source \in Batch
      BY <2>0, <2>4 DEF EvidenceReady, At, Placed, Unplaced
    <3>2. CASE StillWanted(r.source)
      <4>1. Goes(Researcher, "following") /\ research' = research
        BY <2>4, <3>2 DEF EvidenceReady
      <4>2. /\ work'[Researcher].step = "following" /\ work'[Researcher].source = r.source
            /\ work'[Researcher].batches = r.batches /\ work'[Researcher].search = r.search
            /\ \A v \in Worker \ {Researcher} : work'[v] = work[v]
        BY <2>0, <4>1, GoesSets
      <4>3. r.batches = research[r.source].batches /\ ~r.search /\ research[r.source].state # "none"
        BY <1>b, <3>1 DEF Scoped
      <4> QED BY <2>b, <3>1, <4>1, <4>2, <4>3 DEF Working
    <3>3. CASE ~StillWanted(r.source)
      <4>1. Rests(Researcher) /\ research' = Ended(r.source, "complete")
        BY <2>4, <3>3 DEF EvidenceReady
      <4>2. work'[Researcher].step = "idle"
        BY <1>a, <2>0, <4>1, RestsSets
      <4>3. \A u \in Batch : /\ research'[u].batches = research[u].batches
                             /\ u # r.source => research'[u] = research[u]
        BY <3>1, <4>1 DEF Ended, TypeOK
      <4> QED BY <1>e, <2>0, <2>a, <3>1, <3>3, <4>1, <4>2, <4>3 DEF Working
    <3> QED BY <3>2, <3>3
  <2>5. CASE FinishResearch
    <3>1. /\ r.step = "following" /\ UNCHANGED <<batch, answers, stops>> /\ r.source \in Batch
          /\ Goes(Researcher, "replying") /\ research' = Ended(r.source, "complete")
      BY <2>0, <2>5 DEF FinishResearch, At, Placed, Unplaced
    <3>2. /\ work'[Researcher].step = "replying" /\ work'[Researcher].source = r.source
          /\ work'[Researcher].batches = r.batches /\ work'[Researcher].search = r.search
          /\ \A v \in Worker \ {Researcher} : work'[v] = work[v]
      BY <2>0, <3>1, GoesSets
    <3>3. r.batches = research[r.source].batches /\ ~r.search
      BY <1>b, <3>1 DEF Scoped
    <3>4. \A u \in Batch : /\ research'[u].batches = research[u].batches
                           /\ u # r.source => research'[u] = research[u]
      BY <3>1 DEF Ended, TypeOK
    <3>5. research'[r.source].state = "complete"
      BY <3>1 DEF Ended, TypeOK
    <3> QED BY <2>b, <3>1, <3>2, <3>3, <3>4, <3>5 DEF Working
  <2>6. CASE ResearchRaises
    <3> DEFINE state == IF r.attempt < MaxResearch THEN "retry" ELSE "failed"
    <3>1. /\ UNCHANGED <<batch, answers, stops>> /\ r.source \in Batch
          /\ Rests(Researcher) /\ research' = Ended(r.source, state)
      BY <2>0, <2>6 DEF ResearchRaises, At, Placed, Unplaced
    <3>2. work'[Researcher].step = "idle"
      BY <1>a, <2>0, <3>1, RestsSets
    <3>3. /\ \A u \in Batch : /\ research'[u].batches = research[u].batches
                              /\ u # r.source => research'[u] = research[u]
          /\ research'[r.source].state # "complete"
      BY <3>1 DEF Ended, TypeOK
    <3> QED BY <1>e, <2>0, <2>a, <3>1, <3>2, <3>3 DEF Working
  <2>7. CASE Reply(Researcher)
    BY <2>0, <2>7, ReplyKeeps
  <2>8. CASE Mark(Researcher)
    BY <2>0, <2>8, MarkKeeps
  <2> QED BY <1>6, <2>1, <2>2, <2>3, <2>4, <2>5, <2>6, <2>7, <2>8 DEF Background
<1>7. ASSUME NEW s \in Batch, ExpireLease(s) PROVE Delivery'
  BY <1>7, <1>b DEF ExpireLease, Delivery, Replied, RespondedIsAnswered, Scoped, ResearchDelivered,
     StillWanted, Pending, Drafts
<1>8. CASE Stop
  <2>1. /\ \A v \in Worker : work'[v] = Idle
        /\ UNCHANGED <<batch, answers, research>> /\ stops' # 0
    BY <1>8 DEF Stop, TypeOK
  <2> QED BY <1>a, <1>b, <2>1 DEF Delivery, Replied, RespondedIsAnswered, Scoped, ResearchDelivered, Drafts
<1>9. CASE Restart
  BY <1>9, <1>b DEF Restart, Delivery, Replied, RespondedIsAnswered, Scoped, ResearchDelivered,
     StillWanted, Pending, Drafts
<1> QED BY <1>0, <1>1, <1>2, <1>3, <1>4, <1>5, <1>6, <1>7, <1>8, <1>9 DEF Next, Commit

LEMMA DeliveryHolds == Spec => []Delivery
<1>1. Init => TypeOK /\ Placed /\ Delivery
  BY TypeInit, DeliveryInit
<1>2. TypeOK /\ Placed /\ Delivery /\ [Next]_vars => (TypeOK /\ Placed /\ Delivery)'
  BY TypeStep, DeliveryStep
<1> QED BY <1>1, <1>2, PTL DEF Spec

\* A batch counts as responded only when a complete reply covers it, whatever
\* the order of the threads, the interim replies, the faults and the stops.
THEOREM RespondedTruly == Spec => []RespondedIsAnswered
<1>1. Delivery => RespondedIsAnswered
  BY DEF Delivery
<1> QED BY <1>1, DeliveryHolds, PTL

\* As long as the gateway is not stopped, a research job is complete only when
\* its batches are answered or its worker is about to publish.
THEOREM ResearchReaches == Spec => []ResearchDelivered
<1>1. Delivery => ResearchDelivered
  BY DEF Delivery
<1> QED BY <1>1, DeliveryHolds, PTL
=============================================================================
