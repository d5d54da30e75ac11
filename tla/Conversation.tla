---------------------------- MODULE Conversation ----------------------------
(***************************************************************************)
(* One daily conversation: batches of messages the user commits, and the   *)
(* threads of the gateway that answer them.                                *)
(*                                                                         *)
(* A batch is committed in three transactions: its messages are submitted, *)
(* its text is appended as the latest chat_human artifact, the messages    *)
(* are linked to it.  run_chat reads the pending batches, then the latest  *)
(* artifact, and leases the one cognition job of that artifact.  Two       *)
(* threads run it: the conversation dispatcher, for what is recoverable,   *)
(* and a thread started with each commit of the ticker (an automatic       *)
(* submission, or a command file).  A third, the background dispatcher,    *)
(* does the public research an answer may ask for.  The gateway may stop   *)
(* between any two transactions.                                           *)
(***************************************************************************)
EXTENDS Naturals, Sequences, FiniteSets

CONSTANTS
  Batches,      \* number of batches the user commits
  Ticked,       \* batches the ticker commits and answers by itself
  MaxAttempts,  \* max_attempts of recoverable_conversation_jobs
  MaxResearch,  \* attempts of one public research
  MaxFaults     \* bound on failed calls, leases that expire early, and stops

ASSUME ConversationConstants ==
  /\ Batches \in Nat /\ MaxFaults \in Nat
  /\ MaxAttempts \in Nat \ {0} /\ MaxResearch \in Nat \ {0}
  /\ Ticked \subseteq 1..Batches

VARIABLES
  up,         \* the gateway is running
  batch,      \* companion_message_batch.state; "draft" before it exists
  committing, \* the commit each committer is in the middle of
  artifacts,  \* chat_human artifacts by revision, named by their batch
  linked,     \* batches whose messages name their artifact
  job,        \* the conversation job of each artifact
  research,   \* the research job of each artifact
  streaming,  \* workers with a stream open, "lost" for one nobody holds
  answers,    \* how many complete replies cover a batch
  work,       \* what each worker is at, in memory
  lapsed,     \* jobs whose lease was ended by another than its holder (history)
  faults,     \* failed calls and leases that expired early
  stops       \* stops of the gateway

vars == <<up, batch, committing, artifacts, linked, job, research,
          streaming, answers, work, lapsed, faults, stops>>
words == <<batch, artifacts, linked>>
store == <<words, job, research, streaming, answers>>
history == <<lapsed, faults, stops>>

Batch == 1..Batches
Committer == {"command", "ticker"}
Chatter == {"dispatcher", "direct"}
Worker == Chatter \cup {"background"}

NoCommit == [step |-> "none", batch |-> 0]
Idle == [step |-> "idle", batches |-> {}, source |-> 0, attempt |-> 0, search |-> FALSE]

Init ==
  /\ up = TRUE
  /\ batch = [b \in Batch |-> "draft"]
  /\ committing = [c \in Committer |-> NoCommit]
  /\ artifacts = <<>> /\ linked = {}
  /\ job = [s \in Batch |-> [state |-> "none", attempts |-> 0, outcome |-> "none"]]
  /\ research = [s \in Batch |-> [state |-> "none", attempts |-> 0, batches |-> {}]]
  /\ streaming = {}
  /\ answers = [b \in Batch |-> 0]
  /\ work = [w \in Worker |-> Idle]
  /\ lapsed = {}
  /\ faults = 0 /\ stops = 0

Pending == {b \in Batch : batch[b] = "pending"}
Latest == artifacts[Len(artifacts)]

(* The worker goes to step s, with the named fields of its memory changed. *)
Goes(w, s) == work' = [work EXCEPT ![w].step = s]
Rests(w) == work' = [work EXCEPT ![w] = Idle]
At(w, s) == up /\ work[w].step = s
Troubled == faults + stops < MaxFaults

-----------------------------------------------------------------------------
(* Committing a batch. *)

Submit(c, b) ==
  /\ up /\ committing[c] = NoCommit
  /\ batch[b] = "draft" /\ \A a \in Batch : a < b => batch[a] # "draft"
  /\ IF b \in Ticked THEN c = "ticker" /\ work["direct"] = Idle ELSE c = "command"
  /\ batch' = [batch EXCEPT ![b] = "pending"]
  /\ committing' = [committing EXCEPT ![c] = [step |-> "submitted", batch |-> b]]
  /\ UNCHANGED <<up, artifacts, linked, job, research, streaming, answers, work, history>>

AppendArtifact(c) ==
  /\ committing[c].step = "submitted"
  /\ artifacts' = Append(artifacts, committing[c].batch)
  /\ committing' = [committing EXCEPT ![c].step = "appended"]
  /\ UNCHANGED <<up, batch, linked, job, research, streaming, answers, work, history>>

(* The ticker goes on to answer what it committed, in a thread. *)
Link(c) ==
  /\ committing[c].step = "appended"
  /\ linked' = linked \cup {committing[c].batch}
  /\ committing' = [committing EXCEPT ![c] = NoCommit]
  /\ IF c = "ticker" THEN Goes("direct", "reading") ELSE work' = work
  /\ UNCHANGED <<up, batch, artifacts, job, research, streaming, answers, history>>

-----------------------------------------------------------------------------
(* The conversation dispatcher: what is recoverable. *)

Retryable(s) ==
  /\ job[s].state = "failed" /\ job[s].outcome = "transient"
  /\ job[s].attempts < MaxAttempts

(* Mutant of Recoverable: only failed jobs are looked for. *)
RecoverableFailed == Pending # {} /\ artifacts # <<>> /\ Retryable(Latest)

Recoverable ==
  \/ Pending # {} /\ artifacts # <<>> /\ Retryable(Latest)
  \/ \E b \in Pending \cap linked : job[b].state = "none"

Dispatch ==
  /\ At("dispatcher", "idle") /\ Recoverable
  /\ Goes("dispatcher", "reading")
  /\ UNCHANGED <<up, store, committing, history>>

(* Without a pending batch run_chat raises. *)
ReadBatches(w) ==
  /\ At(w, "reading")
  /\ IF Pending = {} THEN Rests(w)
     ELSE work' = [work EXCEPT ![w] = [@ EXCEPT !.step = "sourcing", !.batches = Pending]]
  /\ UNCHANGED <<up, store, committing, history>>

(* The latest artifact may be younger than the batches that were read. *)
ReadSource(w) ==
  /\ At(w, "sourcing")
  /\ IF artifacts = <<>> THEN Rests(w)
     ELSE work' = [work EXCEPT ![w] = [@ EXCEPT !.step = "starting", !.source = Latest]]
  /\ UNCHANGED <<up, store, committing, history>>

(* A job that was completed is not leased again: unless it waits for
   research, the thread goes on as if it held it (attempt 0). *)
StartJob(w) ==
  /\ At(w, "starting")
  /\ LET s == work[w].source IN
     /\ job' = IF job[s].state # "none" THEN job
               ELSE [job EXCEPT ![s] = [state |-> "queued", attempts |-> 0, outcome |-> "none"]]
     /\ IF job[s].state # "completed" THEN Goes(w, "claiming")
        ELSE IF job[s].outcome = "search" THEN Rests(w)
        ELSE Goes(w, "recording")
  /\ UNCHANGED <<up, words, research, streaming, answers, committing, history>>

(* Mutant of Leasable: the lease of a running job is not respected. *)
LeasableRunning(s) == job[s].state \in {"queued", "running", "failed"}
Leasable(s) == job[s].state \in {"queued", "failed"}

Claim(w) ==
  /\ At(w, "claiming")
  /\ LET s == work[w].source IN
     IF Leasable(s)
     THEN /\ job' = [job EXCEPT ![s] = [state |-> "running", attempts |-> @.attempts + 1,
                                        outcome |-> "none"]]
          /\ work' = [work EXCEPT ![w] = [@ EXCEPT !.step = "recording",
                                                  !.attempt = job[s].attempts + 1]]
     ELSE Rests(w) /\ job' = job
  /\ UNCHANGED <<up, words, research, streaming, answers, committing, history>>

(* The messages are recorded in memory outside the guarded part: when that
   raises, the job stays as it is. *)
RecordRaises(w) ==
  /\ At(w, "recording")
  /\ Troubled /\ faults' = faults + 1
  /\ Rests(w)
  /\ UNCHANGED <<up, store, committing, lapsed, stops>>

(* Between the two the memory is searched, which may raise (Fail). *)
OpenStream(w) ==
  /\ At(w, "recording")
  /\ streaming' = streaming \cup {w}
  /\ Goes(w, "asking")
  /\ UNCHANGED <<up, words, job, research, answers, committing, history>>

Finished(s, state, outcome) ==
  [job EXCEPT ![s] = [state |-> state, attempts |-> @.attempts, outcome |-> outcome]]

(* finish_cognition_job goes by the job, not by the lease: a worker may end
   the lease of another. *)
Finish(w, state, outcome) ==
  LET s == work[w].source IN
  /\ job' = Finished(s, state, outcome)
  /\ lapsed' = IF job[s].state = "running" /\ work[w].attempt # job[s].attempts
               THEN lapsed \cup {s} ELSE lapsed

(* The memory research or the model call raises. *)
Fail(w, outcome) ==
  /\ At(w, "recording") \/ At(w, "asking")
  /\ Troubled /\ faults' = faults + 1
  /\ Finish(w, "failed", outcome)
  /\ IF work[w].step = "asking" THEN Goes(w, "failing") ELSE Rests(w)
  /\ UNCHANGED <<up, words, research, streaming, answers, committing, stops>>

FailStream(w) ==
  /\ At(w, "failing")
  /\ streaming' = streaming \ {w}
  /\ Rests(w)
  /\ UNCHANGED <<up, words, job, research, answers, committing, history>>

(* cognition.apply: the actions are executed and the job is completed.  Only
   a job that was asked can want a research. *)
Complete(w, search) ==
  /\ At(w, "asking")
  /\ search => work[w].attempt > 0
  /\ Finish(w, "completed", IF search THEN "search" ELSE "answered")
  /\ work' = [work EXCEPT ![w] = [@ EXCEPT !.step = IF search THEN "queueing" ELSE "presenting",
                                          !.search = search]]
  /\ UNCHANGED <<up, words, research, streaming, answers, committing, faults, stops>>

QueueResearch(w) ==
  /\ At(w, "queueing")
  /\ LET s == work[w].source IN
     research' = IF research[s].state # "none" THEN research
                 ELSE [research EXCEPT ![s] = [state |-> "pending", attempts |-> 0,
                                               batches |-> work[w].batches]]
  /\ Goes(w, "presenting")
  /\ UNCHANGED <<up, words, job, streaming, answers, committing, history>>

(* The answer cannot be presented: nothing records it, the stream stays. *)
PresentRaises(w) ==
  /\ At(w, "presenting")
  /\ Troubled /\ faults' = faults + 1
  /\ streaming' = IF w \in streaming THEN (streaming \ {w}) \cup {"lost"} ELSE streaming
  /\ Rests(w)
  /\ UNCHANGED <<up, words, job, research, answers, committing, lapsed, stops>>

(* The text goes to the stream, which raises when the stream was closed. *)
FinishStream(w) ==
  /\ At(w, "presenting")
  /\ streaming' = streaming \ {w}
  /\ IF w \in streaming THEN Goes(w, "replying") ELSE Rests(w)
  /\ UNCHANGED <<up, words, job, research, answers, committing, history>>

(* chat_ready appends the reply, then marks the batches, unless a research
   is still to complete it. *)
(* Mutant of Completes: every reply completes its batches. *)
CompletesAlways(w) == w \in Worker
(* Mutant of Completes: the reply of a research leaves its batches open. *)
CompletesChat(w) == w \in Chatter /\ ~work[w].search
Completes(w) == ~work[w].search

Reply(w) ==
  /\ At(w, "replying")
  /\ answers' = [b \in Batch |-> IF b \in work[w].batches /\ ~work[w].search
                                 THEN answers[b] + 1 ELSE answers[b]]
  /\ Goes(w, "marking")
  /\ UNCHANGED <<up, words, job, research, streaming, committing, history>>

Mark(w) ==
  /\ At(w, "marking")
  /\ batch' = [b \in Batch |-> IF Completes(w) /\ b \in work[w].batches /\ batch[b] = "pending"
                               THEN "responded" ELSE batch[b]]
  /\ Rests(w)
  /\ UNCHANGED <<up, artifacts, linked, job, research, streaming, answers, committing, history>>

-----------------------------------------------------------------------------
(* The background dispatcher: public research. *)

Researcher == "background"

(* _foreground_busy, as far as the conversation goes. *)
Busy ==
  \/ \E s \in Batch : job[s].state \in {"queued", "running"}
  \/ streaming # {}

StillWanted(s) == research[s].batches \cap Pending # {}

StepAside ==
  /\ At(Researcher, "idle") /\ ~Busy
  /\ Goes(Researcher, "recovering")
  /\ UNCHANGED <<up, store, committing, history>>

Queued(s) == research[s].state \in {"pending", "retry"}
Ended(s, state) ==
  [research EXCEPT ![s] = [state |-> state, attempts |-> @.attempts + 1, batches |-> @.batches]]

(* To learn the next schedule the background work builds a second runtime,
   which fails every open stream as interrupted by a restart. *)
RecoverStreams == At(Researcher, "recovering") /\ streaming' = {}

NothingToResearch ==
  /\ RecoverStreams
  /\ \A s \in Batch : ~Queued(s)
  /\ Rests(Researcher)
  /\ UNCHANGED <<up, words, job, research, answers, committing, history>>

(* run_chat_research asks before and after the research whether any of its
   batches still waits for an answer. *)
StartResearch(s) ==
  /\ RecoverStreams /\ Queued(s)
  /\ IF StillWanted(s)
     THEN /\ work' = [work EXCEPT ![Researcher] =
                        [step |-> "researching", batches |-> research[s].batches, source |-> s,
                         attempt |-> research[s].attempts + 1, search |-> FALSE]]
          /\ research' = research
     ELSE Rests(Researcher) /\ research' = Ended(s, "complete")
  /\ UNCHANGED <<up, words, job, answers, committing, history>>

EvidenceReady ==
  /\ At(Researcher, "researching")
  /\ LET s == work[Researcher].source IN
     IF StillWanted(s) THEN Goes(Researcher, "following") /\ research' = research
     ELSE Rests(Researcher) /\ research' = Ended(s, "complete")
  /\ UNCHANGED <<up, words, job, streaming, answers, committing, history>>

(* The job is finished before the answer is published. *)
FinishResearch ==
  /\ At(Researcher, "following")
  /\ research' = Ended(work[Researcher].source, "complete")
  /\ Goes(Researcher, "replying")
  /\ UNCHANGED <<up, words, job, streaming, answers, committing, history>>

(* Any step up to the reply may raise; the job is retried by the count it was
   read with, also when it was finished already. *)
ResearchRaises ==
  /\ At(Researcher, "researching") \/ At(Researcher, "following") \/ At(Researcher, "replying")
  /\ Troubled /\ faults' = faults + 1
  /\ LET r == work[Researcher] IN
     research' = Ended(r.source, IF r.attempt < MaxResearch THEN "retry" ELSE "failed")
  /\ Rests(Researcher)
  /\ UNCHANGED <<up, words, job, streaming, answers, committing, lapsed, stops>>

-----------------------------------------------------------------------------
(* Leases, stops and the specification. *)

Leases(w, s) ==
  /\ work[w].source = s /\ work[w].attempt > 0
  /\ work[w].step \in {"recording", "asking"}

Held(s) == \E w \in Chatter : Leases(w, s) /\ work[w].attempt = job[s].attempts

(* A tick fails the jobs leased more than ten minutes ago, those of a slow
   worker among them. *)
ExpireLease(s) ==
  /\ up /\ job[s].state = "running"
  /\ IF Held(s) THEN Troubled /\ faults' = faults + 1 /\ lapsed' = lapsed \cup {s}
     ELSE UNCHANGED <<lapsed, faults>>
  /\ job' = Finished(s, "failed", "transient")
  /\ UNCHANGED <<up, words, research, streaming, answers, committing, work, stops>>

Stop ==
  /\ up /\ Troubled
  /\ up' = FALSE /\ stops' = stops + 1
  /\ work' = [w \in Worker |-> Idle]
  /\ committing' = [c \in Committer |-> NoCommit]
  /\ UNCHANGED <<store, lapsed, faults>>

Restart ==
  /\ ~up
  /\ up' = TRUE /\ streaming' = {}
  /\ UNCHANGED <<words, job, research, answers, work, committing, history>>

Commit(c) == AppendArtifact(c) \/ Link(c)

Chat(w) ==
  \/ ReadBatches(w) \/ ReadSource(w) \/ StartJob(w) \/ Claim(w) \/ RecordRaises(w) \/ OpenStream(w)
  \/ \E o \in {"transient", "final"} : Fail(w, o)
  \/ FailStream(w)
  \/ \E search \in BOOLEAN : Complete(w, search)
  \/ QueueResearch(w) \/ PresentRaises(w) \/ FinishStream(w) \/ Reply(w) \/ Mark(w)

Background ==
  \/ StepAside \/ NothingToResearch
  \/ \E s \in Batch : StartResearch(s)
  \/ EvidenceReady \/ FinishResearch \/ ResearchRaises
  \/ Reply(Researcher) \/ Mark(Researcher)

Next ==
  \/ \E c \in Committer, b \in Batch : Submit(c, b)
  \/ \E c \in Committer : Commit(c)
  \/ Dispatch
  \/ \E w \in Chatter : Chat(w)
  \/ Background
  \/ \E s \in Batch : ExpireLease(s)
  \/ Stop \/ Restart

Spec == Init /\ [][Next]_vars

(* Threads run on, a tick comes every five seconds and every call has a
   deadline; a stopped gateway is started again. *)
FairSpec ==
  /\ Spec
  /\ WF_vars(\E c \in Committer : Commit(c))
  /\ WF_vars(Dispatch \/ Chat("dispatcher")) /\ WF_vars(Chat("direct"))
  /\ WF_vars(Background) /\ WF_vars(Restart)
  /\ WF_vars(\E s \in Batch : ~Held(s) /\ ExpireLease(s))

-----------------------------------------------------------------------------
(* Properties. *)

JobType == [state : {"none", "queued", "running", "failed", "completed"}, attempts : Nat,
            outcome : {"none", "transient", "final", "search", "answered"}]
ResearchType == [state : {"none", "pending", "retry", "complete", "failed"}, attempts : Nat,
                 batches : SUBSET Batch]
Step == {"idle", "reading", "sourcing", "starting", "claiming", "recording", "asking",
         "failing", "queueing", "presenting", "replying", "marking",
         "recovering", "researching", "following"}
WorkType == [step : Step, batches : SUBSET Batch, source : 0..Batches, attempt : Nat, search : BOOLEAN]

TypeOK ==
  /\ up \in BOOLEAN
  /\ batch \in [Batch -> {"draft", "pending", "responded"}]
  /\ committing \in [Committer -> [step : {"none", "submitted", "appended"}, batch : 0..Batches]]
  /\ artifacts \in Seq(Batch) /\ linked \subseteq Batch
  /\ job \in [Batch -> JobType]
  /\ research \in [Batch -> ResearchType]
  /\ streaming \subseteq Worker \cup {"lost"}
  /\ answers \in [Batch -> Nat]
  /\ work \in [Worker -> WorkType]
  /\ \A w \in Worker : work[w].step = "idle" => work[w] = Idle
  /\ lapsed \subseteq Batch
  /\ faults \in Nat /\ stops \in Nat /\ faults + stops <= MaxFaults

(* claim_cognition_job leases a job "for one worker": two threads ask about
   the same words under leases of theirs only after somebody else ended the
   lease of one, as an expiry or the failure of a thread without lease does. *)
OneLease ==
  \A v, w \in Chatter, s \in Batch \ lapsed : Leases(v, s) /\ Leases(w, s) => v = w

(* Stops and restarts take no lease from a live worker, nor does a thread
   that goes on without one: only a failed call or an early expiry does. *)
OnlyFaultsLapse == faults = 0 => lapsed = {}

(* A batch counts as responded only when a complete reply covers it; an
   interim one that announces a research does not. *)
RespondedIsAnswered == \A b \in Batch : batch[b] = "responded" => answers[b] > 0

(* A finished research has answered its batches, or somebody else has, or its
   worker is about to: unless the gateway was stopped in between. *)
ResearchDelivered ==
  \A s \in Batch : research[s].state = "complete" /\ stops = 0 =>
    \/ ~ StillWanted(s)
    \/ work[Researcher].source = s /\ work[Researcher].step \in {"replying", "marking"}

LatestSettled ==
  /\ artifacts # <<>>
  /\ job[Latest].state = "completed" \/ (job[Latest].state = "failed" /\ ~Retryable(Latest))

(* What a stop may leave behind: words that are not linked to their batch, a
   job nobody leased. *)
Abandoned ==
  \/ artifacts # <<>> /\ Latest \notin linked
  \/ \E s \in Batch : job[s].state = "queued"

(* Every committed batch is taken up: it is answered, or the cognition of the
   latest words ends with a result or for good.  Not so a job whose thread
   was stopped before it leased it. *)
TakenUp ==
  \A b \in Batch : b \in linked ~>
    \/ batch[b] = "responded" \/ LatestSettled
    \/ stops > 0 /\ Abandoned

(* APP_DEVELOPMENT_PRINCIPLES.md:48: a batch stays to be answered until it
   has a complete reply, without the user having to write again. *)
Answered == \A b \in Batch : b \in linked ~> batch[b] = "responded"
=============================================================================
