-------------------------- MODULE ScheduleRegistry --------------------------
(***************************************************************************)
(* The schedule templates: versions, revisions and the snapshot file a     *)
(* damaged registry is repaired from.                                      *)
(*                                                                         *)
(* A command edits the version its user saw.  The version is read before   *)
(* the transaction that writes begins (SELECT opens none), and only after  *)
(* it has committed is the snapshot read, written to current.tmp, which    *)
(* all threads share, and moved to current.json.  The gateway's HTTP       *)
(* thread and its ticker execute commands; every runtime() validates the   *)
(* registry and repairs it: the one of a start, before anything else, and  *)
(* the one the background thread builds to learn the next schedule.        *)
(***************************************************************************)
EXTENDS Naturals, Sequences

CONSTANTS
  Status,     \* what the status of a template may be
  Schedules,  \* templates
  Defaults,   \* those that are seeded
  Configs,    \* what a valid configuration may be
  Damaged,    \* a configuration that validate_config refuses
  MaxEdits,   \* bound on commands
  MaxFaults   \* bound on damages and stops

ASSUME RegistryConstants ==
  /\ "active" \in Status /\ Status \cap {"none", "update"} = {}
  /\ Defaults \subseteq Schedules /\ Defaults # {}
  /\ Configs # {} /\ Damaged \notin Configs
  /\ MaxEdits \in Nat /\ MaxFaults \in Nat

VARIABLES
  up,         \* "down", "starting" or "up"
  template,   \* schedule_template: status, version, current revision
  revisions,  \* schedule_revision: the configurations of a template
  current,    \* the file current.json
  temp,       \* the file current.tmp
  work,       \* the command each thread executes
  repair,     \* the repair under way
  original,   \* the configurations as they were accepted (history)
  outdated,   \* threads whose command was sent before a repair (history)
  missed,     \* a snapshot was lost to a stop, a failure or an overlap (history)
  edits,      \* commands so far
  faults      \* damages and stops so far

vars == <<up, template, revisions, current, temp, work, repair,
          original, outdated, missed, edits, faults>>
store == <<template, revisions, original>>
files == <<current, temp>>
bounds == <<edits, faults>>

Thread == {"http", "ticker"}
Absent == [status |-> "none", version |-> 0, revision |-> 0]

Exists(s) == template[s].version > 0
Config(s) == revisions[s][template[s].revision]

(* What _schedule_snapshot selects. *)
Rows == [s \in Schedules |->
           [row |-> template[s], config |-> IF Exists(s) THEN Config(s) ELSE Damaged]]
NoRows == [s \in Schedules |-> [row |-> Absent, config |-> Damaged]]

Whole(rows) == [state |-> "whole", rows |-> rows]
Torn == [state |-> "torn", rows |-> NoRows]
Missing == [state |-> "missing", rows |-> NoRows]

Idle == [step |-> "idle", op |-> "none", schedule |-> CHOOSE s \in Schedules : TRUE,
         seen |-> Absent, revision |-> 0, rows |-> NoRows]
NoRepair == [step |-> "idle", rows |-> NoRows]

(* The registry as it is after the defaults were seeded. *)
Init ==
  /\ up = "up"
  /\ template = [s \in Schedules |-> IF s \in Defaults
                   THEN [status |-> "active", version |-> 1, revision |-> 1] ELSE Absent]
  /\ \E c \in Configs : revisions = [s \in Schedules |-> IF s \in Defaults THEN <<c>> ELSE <<>>]
  /\ original = revisions
  /\ current = Whole(Rows) /\ temp = Missing
  /\ work = [t \in Thread |-> Idle]
  /\ repair = NoRepair
  /\ outdated = {} /\ missed = FALSE
  /\ edits = 0 /\ faults = 0

At(t, step) == up = "up" /\ work[t].step = step
Goes(t, step) == work' = [work EXCEPT ![t].step = step]
Ends(t) == work' = [work EXCEPT ![t] = Idle]
Written(t) == work' = [work EXCEPT ![t] = [Idle EXCEPT !.step = "reading"]]
(* Threads that will still put a snapshot they have read in place. *)
Snapshotting == {t \in Thread : work[t].step \in {"opening", "filling", "replacing"}}

-----------------------------------------------------------------------------
(* Commands. *)

(* The user has seen the template as it is; the thread executes the command
   when it comes to it. *)
Command(t, s, op) ==
  /\ At(t, "idle") /\ Exists(s)
  /\ edits < MaxEdits /\ edits' = edits + 1
  /\ work' = [work EXCEPT ![t] = [Idle EXCEPT !.step = "checking", !.op = op,
                                              !.schedule = s, !.seen = template[s]]]
  /\ outdated' = outdated \ {t}
  /\ UNCHANGED <<up, store, files, repair, missed, faults>>

(* The version is compared outside the transaction that writes. *)
(* Mutant of SeenVersion: the expected version is not compared. *)
SeenAny(t) == work[t].seen.version \in Nat
SeenVersion(t) == template[work[t].schedule].version = work[t].seen.version

Check(t) ==
  /\ At(t, "checking")
  /\ IF SeenVersion(t)
     THEN work' = [work EXCEPT ![t] = [@ EXCEPT !.step = "writing",
                                              !.revision = template[work[t].schedule].revision]]
     ELSE Ends(t)
  /\ UNCHANGED <<up, store, files, repair, outdated, missed, bounds>>

Overlaps == missed' = (missed \/ Snapshotting # {})

(* Mutant of Free: INSERT OR REPLACE. *)
FreeAlways(s, r) == r <= Len(revisions[s]) + 1
Free(s, r) == r = Len(revisions[s]) + 1
Recorded(log, r, c) == IF r > Len(log) THEN Append(log, c) ELSE [log EXCEPT ![r] = c]

(* (schedule_id, revision) is the primary key of schedule_revision: a number
   that is taken raises, and nothing is written. *)
Update(t, c) ==
  /\ At(t, "writing") /\ work[t].op = "update"
  /\ LET s == work[t].schedule
         r == work[t].revision + 1 IN
     IF Free(s, r)
     THEN /\ revisions' = [revisions EXCEPT ![s] = Recorded(@, r, c)]
          /\ original' = [original EXCEPT ![s] = IF r > Len(@) THEN Append(@, c) ELSE @]
          /\ template' = [template EXCEPT ![s] =
                            [status |-> @.status, version |-> @.version + 1, revision |-> r]]
          /\ Written(t) /\ Overlaps
     ELSE Ends(t) /\ UNCHANGED <<store, missed>>
  /\ UNCHANGED <<up, files, repair, outdated, bounds>>

(* Mutant of AfterStatus: no snapshot follows a change of status. *)
AfterStatusNone(t) == Ends(t)
AfterStatus(t) == Written(t)

SetStatus(t) ==
  /\ At(t, "writing") /\ work[t].op \in Status
  /\ template' = [template EXCEPT ![work[t].schedule] =
                    [status |-> work[t].op, version |-> @.version + 1, revision |-> @.revision]]
  /\ AfterStatus(t) /\ Overlaps
  /\ UNCHANGED <<up, revisions, original, files, repair, outdated, bounds>>

Create(t, s, c) ==
  /\ At(t, "idle") /\ ~ Exists(s)
  /\ edits < MaxEdits /\ edits' = edits + 1
  /\ template' = [template EXCEPT ![s] = [status |-> "active", version |-> 1, revision |-> 1]]
  /\ revisions' = [revisions EXCEPT ![s] = <<c>>] /\ original' = [original EXCEPT ![s] = <<c>>]
  /\ Written(t) /\ Overlaps
  /\ UNCHANGED <<up, files, repair, outdated, faults>>

-----------------------------------------------------------------------------
(* The snapshot after every change. *)

ReadRows(t) ==
  /\ At(t, "reading")
  /\ work' = [work EXCEPT ![t] = [@ EXCEPT !.step = "opening", !.rows = Rows]]
  /\ UNCHANGED <<up, store, files, repair, outdated, missed, bounds>>

OpenTemp(t) ==
  /\ At(t, "opening")
  /\ temp' = Torn
  /\ Goes(t, "filling")
  /\ UNCHANGED <<up, store, current, repair, outdated, missed, bounds>>

(* Over what another thread has written since, the shorter text leaves the
   end of the longer one. *)
FillTemp(t) ==
  /\ At(t, "filling")
  /\ temp' \in {Whole(work[t].rows)} \cup IF temp.state = "whole" THEN {Torn} ELSE {}
  /\ Goes(t, "replacing")
  /\ UNCHANGED <<up, store, current, repair, outdated, missed, bounds>>

(* The move raises when another thread has moved the file or holds it open;
   the change is committed all the same. *)
Replace(t) ==
  /\ At(t, "replacing")
  /\ IF temp.state # "missing" /\ \A u \in Thread : work[u].step # "filling"
     THEN current' = temp /\ temp' = Missing /\ missed' = missed
     ELSE missed' = TRUE /\ UNCHANGED files
  /\ Ends(t)
  /\ UNCHANGED <<up, store, repair, outdated, bounds>>

-----------------------------------------------------------------------------
(* Validation and repair, at a start and in the background. *)

Sound == \A s \in Schedules : Exists(s) => Config(s) # Damaged

Discover ==
  /\ up = "up" /\ repair.step = "idle" /\ ~ Sound
  /\ repair' = [repair EXCEPT !.step = "loading"]
  /\ UNCHANGED <<up, store, files, work, outdated, missed, bounds>>

(* A start that cannot be repaired fails; the background thread goes on. *)
GiveUp == repair' = NoRepair /\ up' = IF up = "starting" THEN "down" ELSE up

Load ==
  /\ repair.step = "loading"
  /\ IF current.state = "whole"
     THEN repair' = [step |-> "applying", rows |-> current.rows] /\ up' = up
     ELSE GiveUp
  /\ UNCHANGED <<store, files, work, outdated, missed, bounds>>

(* Templates the snapshot does not know stay as they are. *)
Known(s) == repair.rows[s].row.version > 0

Apply ==
  /\ repair.step = "applying"
  /\ template' = [s \in Schedules |-> IF Known(s) THEN repair.rows[s].row ELSE template[s]]
  /\ revisions' = [s \in Schedules |->
       IF Known(s) THEN Recorded(revisions[s], repair.rows[s].row.revision, repair.rows[s].config)
       ELSE revisions[s]]
  /\ outdated' = {t \in Thread : work[t].step # "idle"}
  /\ missed' = (missed \/ Snapshotting # {} \/ current # Whole(repair.rows))
  /\ repair' = [step |-> "revalidating", rows |-> NoRows]
  /\ UNCHANGED <<up, original, files, work, bounds>>

Revalidate ==
  /\ repair.step = "revalidating"
  /\ IF Sound THEN repair' = NoRepair /\ up' = "up" ELSE GiveUp
  /\ UNCHANGED <<store, files, work, outdated, missed, bounds>>

-----------------------------------------------------------------------------
(* Damage, stops and the specification. *)

(* From outside the program: the text of a configuration no longer validates. *)
Damage(s) ==
  /\ faults < MaxFaults /\ faults' = faults + 1
  /\ Exists(s)
  /\ revisions' = [revisions EXCEPT ![s][template[s].revision] = Damaged]
  /\ UNCHANGED <<up, template, original, files, work, repair, outdated, missed, edits>>

Stop ==
  /\ up # "down"
  /\ faults < MaxFaults /\ faults' = faults + 1
  /\ up' = "down"
  /\ missed' = (missed \/ \E t \in Thread : work[t].step = "reading" \/ t \in Snapshotting)
  /\ work' = [t \in Thread |-> Idle] /\ repair' = NoRepair
  /\ UNCHANGED <<store, files, outdated, edits>>

Start ==
  /\ up = "down"
  /\ IF Sound THEN up' = "up" /\ repair' = repair
     ELSE up' = "starting" /\ repair' = [repair EXCEPT !.step = "loading"]
  /\ UNCHANGED <<store, files, work, outdated, missed, bounds>>

Next ==
  \/ \E t \in Thread :
       \/ Check(t) \/ SetStatus(t)
       \/ \E s \in Schedules, op \in Status \cup {"update"} : Command(t, s, op)
       \/ \E c \in Configs : Update(t, c)
       \/ \E s \in Schedules, c \in Configs : Create(t, s, c)
       \/ ReadRows(t) \/ OpenTemp(t) \/ FillTemp(t) \/ Replace(t)
  \/ Discover \/ Load \/ Apply \/ Revalidate
  \/ \E s \in Schedules : Damage(s)
  \/ Stop \/ Start

Spec == Init /\ [][Next]_vars

-----------------------------------------------------------------------------
(* Properties. *)

RowType == [status : Status \cup {"none"}, version : Nat, revision : Nat]
RowsType == [Schedules -> [row : RowType, config : Configs \cup {Damaged}]]
FileType == [state : {"whole", "torn", "missing"}, rows : RowsType]
WorkType == [step : {"idle", "checking", "writing", "reading", "opening", "filling", "replacing"},
             op : Status \cup {"none", "update"}, schedule : Schedules,
             seen : RowType, revision : Nat, rows : RowsType]

TypeOK ==
  /\ up \in {"down", "starting", "up"}
  /\ template \in [Schedules -> RowType]
  /\ revisions \in [Schedules -> Seq(Configs \cup {Damaged})]
  /\ original \in [Schedules -> Seq(Configs)]
  /\ current \in FileType /\ temp \in FileType
  /\ work \in [Thread -> WorkType]
  /\ repair \in [step : {"idle", "loading", "applying", "revalidating"}, rows : RowsType]
  /\ outdated \subseteq Thread /\ missed \in BOOLEAN
  /\ edits \in Nat /\ faults \in Nat

(* Optimistic concurrency (ADR 0012): an update that is accepted replaces the
   revision its user saw, also when the other thread commits between the
   comparison and the write; unless a repair brought versions back. *)
UpdateOnSeen ==
  [][\A t \in Thread, s \in Schedules :
       (work[t].step = "writing" /\ work'[t].step = "reading" /\ work[t].op = "update"
        /\ work[t].schedule = s /\ t \notin outdated)
         => work[t].seen.revision = template[s].revision]_vars

(* A revision is what was accepted under its number, or damaged: no update
   and no repair, from however old a snapshot, gives it another content. *)
HistoryTrue ==
  \A s \in Schedules :
    /\ Len(revisions[s]) = Len(original[s])
    /\ \A r \in 1..Len(revisions[s]) : revisions[s][r] \in {original[s][r], Damaged}

(* Between commands the snapshot holds the versions, revisions and status of
   the registry, so that a repair takes none back: unless a stop, a failed
   move or an overlap of two commands has cost a snapshot. *)
SnapshotCurrent ==
  missed \/ (\E t \in Thread : work[t].step \in {"reading", "opening", "filling", "replacing"})
  \/ (current.state = "whole" /\ \A s \in Schedules : current.rows[s].row = template[s])

(* A repair from a snapshot that is not outdated takes nothing back: of the
   revisions it changes only damaged ones, to what was accepted under their
   number, and it leaves every status, version and current revision, unless
   a command has committed and not yet read its rows; whether it runs at a
   start or beside the commands of a running gateway. *)
RepairRestores ==
  [][Apply /\ ~missed' =>
       /\ \A s \in Schedules : \A r \in 1..Len(revisions[s]) :
            revisions'[s][r] \in {revisions[s][r], original[s][r]}
       /\ (\A t \in Thread : work[t].step # "reading") => template' = template]_vars
=============================================================================
