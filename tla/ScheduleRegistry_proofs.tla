----------------------- MODULE ScheduleRegistry_proofs -----------------------
(* What an update replaces, what a revision holds, what the snapshot keeps  *)
(* and a repair restores, for any templates, configurations, commands,      *)
(* damages and stops.                                                       *)
EXTENDS ScheduleRegistry, TLAPS

USE RegistryConstants

Config0 == Configs \cup {Damaged}

(***************************************************************************)
(* Type correctness.  The registry and every copy of it, in a file or in   *)
(* memory, name revisions that exist and hold what was accepted.           *)
(***************************************************************************)

RowsFrom(rows) ==
  \A s \in Schedules : rows[s].row.version > 0 =>
    /\ Exists(s)
    /\ rows[s].row.revision \in 1..Len(revisions[s])
    /\ rows[s].config \in {original[s][rows[s].row.revision], Damaged}

Filed ==
  /\ \A s \in Schedules : IF Exists(s) THEN template[s].revision \in 1..Len(revisions[s])
                          ELSE revisions[s] = <<>>
  /\ \A t \in Thread : work[t].step \in {"checking", "writing"} => Exists(work[t].schedule)

Copied ==
  /\ RowsFrom(current.rows) /\ RowsFrom(temp.rows) /\ RowsFrom(repair.rows)
  /\ \A t \in Thread : RowsFrom(work[t].rows)

HistInv == TypeOK /\ HistoryTrue /\ Filed /\ Copied

LEMMA NoRowsTyped == NoRows \in RowsType
BY DEF NoRows, RowsType, RowType, Absent

LEMMA IdleTyped == Idle \in WorkType
<1>1. (CHOOSE s \in Schedules : TRUE) \in Schedules
  OBVIOUS
<1>2. Absent \in RowType
  BY DEF Absent, RowType
<1> QED BY <1>1, <1>2, NoRowsTyped DEF Idle, WorkType

LEMMA FilesTyped ==
  /\ Torn \in FileType /\ Missing \in FileType
  /\ \A rows \in RowsType : Whole(rows) \in FileType
BY NoRowsTyped DEF Torn, Missing, Whole, FileType

\* What a snapshot selects is well typed and comes from the registry.
LEMMA RowsTyped ==
  ASSUME TypeOK, HistoryTrue, Filed
  PROVE  Rows \in RowsType /\ RowsFrom(Rows)
<1>1. ASSUME NEW s \in Schedules
      PROVE  /\ template[s] \in RowType
             /\ (IF Exists(s) THEN Config(s) ELSE Damaged) \in Config0
  <2>1. template[s] \in RowType /\ revisions[s] \in Seq(Config0)
    BY DEF TypeOK, Config0
  <2>2. Exists(s) => Config(s) \in Config0
    BY <2>1 DEF Filed, Config
  <2> QED BY <2>1, <2>2 DEF Config0
<1>2. Rows \in RowsType
  BY <1>1 DEF Rows, RowsType, Config0
<1>3. ASSUME NEW s \in Schedules, Rows[s].row.version > 0
      PROVE  /\ Exists(s)
             /\ Rows[s].row.revision \in 1..Len(revisions[s])
             /\ Rows[s].config \in {original[s][Rows[s].row.revision], Damaged}
  <2>1. Rows[s].row = template[s] /\ Exists(s) /\ Rows[s].config = Config(s)
    BY <1>3 DEF Rows, Exists
  <2>2. template[s].revision \in 1..Len(revisions[s])
    BY <2>1 DEF Filed
  <2> QED BY <2>1, <2>2 DEF HistoryTrue, Config
<1> QED BY <1>2, <1>3 DEF RowsFrom

LEMMA NoRowsFrom == RowsFrom(NoRows)
BY DEF RowsFrom, NoRows, Absent

LEMMA HistInit == Init => HistInv
<1> SUFFICES ASSUME Init PROVE HistInv
  OBVIOUS
<1>1. PICK c \in Configs : revisions = [s \in Schedules |-> IF s \in Defaults THEN <<c>> ELSE <<>>]
  BY DEF Init
<1>2. /\ template \in [Schedules -> RowType]
      /\ revisions \in [Schedules -> Seq(Config0)] /\ original \in [Schedules -> Seq(Configs)]
  <2>1. template \in [Schedules -> RowType]
    BY DEF Init, RowType, Absent
  <2>2. \A s \in Schedules : revisions[s] \in Seq(Configs) /\ revisions[s] \in Seq(Config0)
    <3>1. <<>> \in Seq(Configs) /\ <<c>> \in Seq(Configs) /\ <<>> \in Seq(Config0) /\ <<c>> \in Seq(Config0)
      BY DEF Config0
    <3> QED BY <1>1, <3>1
  <2>3. DOMAIN revisions = Schedules /\ original = revisions
    BY <1>1 DEF Init
  <2> QED BY <1>1, <2>1, <2>2, <2>3
<1>3. \A s \in Schedules : IF Exists(s) THEN template[s].revision \in 1..Len(revisions[s])
                           ELSE revisions[s] = <<>>
  BY <1>1 DEF Init, Exists, Absent
<1>4. HistoryTrue
  BY <1>2 DEF Init, HistoryTrue
<1>5. \A s \in Schedules : Exists(s) => Config(s) \in Configs
  BY <1>1 DEF Init, Config, Exists, Absent
<1>6. Rows \in RowsType
  BY <1>2, <1>5 DEF Rows, RowsType
<1>7. TypeOK
  BY <1>2, <1>6, NoRowsTyped, IdleTyped, FilesTyped
     DEF Init, TypeOK, Config0, NoRepair
<1>8. Filed
  BY <1>3 DEF Init, Filed, Idle
<1>9. RowsFrom(Rows)
  BY <1>4, <1>7, <1>8, RowsTyped
<1>10. Copied
  BY <1>9, NoRowsFrom DEF Init, Copied, Idle, NoRepair, Whole, Missing
<1> QED BY <1>4, <1>7, <1>8, <1>10 DEF HistInv

-----------------------------------------------------------------------------
(* Steps that leave the registry alone: what a thread has in memory.        *)

\* What a change of the registry keeps of it.
Grows ==
  \A s \in Schedules :
    /\ Exists(s) => Exists(s)'
    /\ Len(revisions[s]) <= Len(revisions'[s])
    /\ \A r \in 1..Len(revisions[s]) : original'[s][r] = original[s][r]

LEMMA SameGrows == ASSUME TypeOK, UNCHANGED store PROVE Grows
BY DEF TypeOK, store, Grows, Exists

LEMMA RowsKept ==
  ASSUME TypeOK, TypeOK', Grows, NEW rows \in RowsType, RowsFrom(rows)
  PROVE  (\A s \in Schedules : rows[s].row.version > 0 =>
            /\ Exists(s)'
            /\ rows[s].row.revision \in 1..Len(revisions'[s])
            /\ rows[s].config \in {original'[s][rows[s].row.revision], Damaged})
<1> SUFFICES ASSUME NEW s \in Schedules, rows[s].row.version > 0
             PROVE  /\ Exists(s)'
                    /\ rows[s].row.revision \in 1..Len(revisions'[s])
                    /\ rows[s].config \in {original'[s][rows[s].row.revision], Damaged}
  OBVIOUS
<1>1. /\ Exists(s)
      /\ rows[s].row.revision \in 1..Len(revisions[s])
      /\ rows[s].config \in {original[s][rows[s].row.revision], Damaged}
  BY DEF RowsFrom
<1>2. Len(revisions[s]) \in Nat /\ Len(revisions'[s]) \in Nat
  BY DEF TypeOK
<1> QED BY <1>1, <1>2 DEF Grows

LEMMA RegistryKept ==
  ASSUME HistInv, UNCHANGED store
  PROVE  HistoryTrue' /\ (\A s \in Schedules : IF Exists(s)' THEN template'[s].revision \in 1..Len(revisions'[s])
                                               ELSE revisions'[s] = <<>>)
BY DEF HistInv, HistoryTrue, Filed, store, Exists

\* The step of one thread: its memory stays well typed and well founded.
Remembers(r) ==
  /\ r \in WorkType
  /\ r.step \in {"checking", "writing"} => Exists(r.schedule)
  /\ RowsFrom(r.rows)

LEMMA MemoryKept ==
  ASSUME HistInv, NEW t \in Thread, NEW r, Remembers(r), work' = [work EXCEPT ![t] = r]
  PROVE  /\ work' \in [Thread -> WorkType]
         /\ \A u \in Thread : Remembers(work'[u])
<1>1. ASSUME NEW u \in Thread PROVE Remembers(work[u])
  BY DEF HistInv, TypeOK, Filed, Copied, Remembers
<1>2. DOMAIN work = Thread
  BY DEF HistInv, TypeOK
<1>3. ASSUME NEW u \in Thread PROVE Remembers(work'[u])
  BY <1>1, <1>2
<1> QED BY <1>2, <1>3 DEF Remembers

LEMMA SameRemembers ==
  ASSUME HistInv, NEW t \in Thread
  PROVE  /\ Remembers(work[t]) /\ Remembers(Idle)
         /\ \A step \in {"reading", "opening", "filling", "replacing"} :
              Remembers([work[t] EXCEPT !.step = step])
         /\ Remembers([Idle EXCEPT !.step = "reading"])
<1>1. work[t] \in WorkType /\ RowsFrom(work[t].rows)
  BY DEF HistInv, TypeOK, Copied
<1>2. Remembers(work[t])
  BY <1>1 DEF HistInv, Filed, Remembers
<1>3. Idle \in WorkType /\ Idle.step = "idle" /\ Idle.rows = NoRows
  BY IdleTyped DEF Idle
<1>4. ASSUME NEW step \in {"reading", "opening", "filling", "replacing"}, NEW r \in WorkType, RowsFrom(r.rows)
      PROVE  Remembers([r EXCEPT !.step = step])
  BY <1>4 DEF Remembers, WorkType
<1>5. Remembers(Idle)
  BY <1>3, NoRowsFrom DEF Remembers
<1> QED BY <1>1, <1>2, <1>3, <1>4, <1>5, NoRowsFrom

\* A step keeps the invariant when the registry grows and everything copied
\* from it before the step, or held by a thread, came from it.
LEMMA Assembled ==
  ASSUME HistInv, TypeOK', HistoryTrue', Grows,
         (\A s \in Schedules : IF Exists(s) THEN template[s].revision \in 1..Len(revisions[s])
                               ELSE revisions[s] = <<>>)',
         \A u \in Thread : Remembers(work'[u]),
         RowsFrom(current'.rows), RowsFrom(temp'.rows), RowsFrom(repair'.rows)
  PROVE  HistInv'
<1>1. ASSUME NEW rows \in RowsType, RowsFrom(rows)
      PROVE  \A s \in Schedules : rows[s].row.version > 0 =>
               /\ Exists(s)'
               /\ rows[s].row.revision \in 1..Len(revisions'[s])
               /\ rows[s].config \in {original'[s][rows[s].row.revision], Damaged}
  BY <1>1, RowsKept DEF HistInv
<1>2. (RowsFrom(current.rows) /\ RowsFrom(temp.rows) /\ RowsFrom(repair.rows))'
  <2>1. current'.rows \in RowsType /\ temp'.rows \in RowsType /\ repair'.rows \in RowsType
    BY DEF TypeOK, FileType
  <2> QED BY <1>1, <2>1 DEF RowsFrom
<1>3. (\A t \in Thread : RowsFrom(work[t].rows))'
  <2>1. \A t \in Thread : work'[t].rows \in RowsType /\ RowsFrom(work'[t].rows)
    BY DEF Remembers, WorkType
  <2> QED BY <1>1, <2>1 DEF RowsFrom
<1>4. (\A t \in Thread : work[t].step \in {"checking", "writing"} => Exists(work[t].schedule))'
  <2>1. ASSUME NEW t \in Thread, work'[t].step \in {"checking", "writing"}
        PROVE  Exists(work[t].schedule)'
    <3>1. work'[t].schedule \in Schedules /\ Exists(work'[t].schedule)
      BY <2>1 DEF Remembers, WorkType
    <3>2. template'[work'[t].schedule].version > 0
      BY <3>1 DEF Grows, Exists
    <3> QED BY <3>2 DEF Exists
  <2> QED BY <2>1
<1> QED BY <1>2, <1>3, <1>4 DEF HistInv, Filed, Copied

\* A step that leaves the registry alone.
LEMMA RegistryUntouched ==
  ASSUME HistInv, UNCHANGED store,
         up' \in {"down", "starting", "up"},
         current' \in FileType, temp' \in FileType,
         RowsFrom(current'.rows), RowsFrom(temp'.rows), RowsFrom(repair'.rows),
         repair' \in [step : {"idle", "loading", "applying", "revalidating"}, rows : RowsType],
         work' \in [Thread -> WorkType],
         \A u \in Thread : Remembers(work'[u]),
         outdated' \subseteq Thread, missed' \in BOOLEAN, edits' \in Nat, faults' \in Nat
  PROVE  HistInv'
<1>1. TypeOK'
  BY DEF HistInv, TypeOK, store
<1>2. Grows
  BY SameGrows DEF HistInv
<1> QED BY <1>1, <1>2, RegistryKept, Assembled DEF HistInv

-----------------------------------------------------------------------------
(* Type correctness and the history, action by action.                      *)

LEMMA CommandHist ==
  ASSUME HistInv, NEW t \in Thread, NEW s \in Schedules, NEW op \in Status \cup {"update"},
         Command(t, s, op)
  PROVE  HistInv'
<1> DEFINE r == [Idle EXCEPT !.step = "checking", !.op = op, !.schedule = s, !.seen = template[s]]
<1>1. /\ Idle \in WorkType /\ Idle.rows = NoRows /\ template[s] \in RowType
  BY IdleTyped DEF Idle, HistInv, TypeOK
<1>2. r \in WorkType /\ r.rows = NoRows /\ r.schedule = s
  BY <1>1 DEF WorkType
<1>3. Remembers(r)
  BY <1>2, NoRowsFrom DEF Remembers, Command
<1>4. work' = [work EXCEPT ![t] = r]
  BY DEF Command
<1>5. work' \in [Thread -> WorkType] /\ \A u \in Thread : Remembers(work'[u])
  BY <1>3, <1>4, MemoryKept
<1>6. edits' \in Nat /\ faults' = faults /\ outdated' \subseteq Thread /\ up' = up /\ missed' = missed
  BY DEF Command, HistInv, TypeOK
<1>7. current' = current /\ temp' = temp /\ repair' = repair /\ UNCHANGED store
  BY DEF Command, files
<1> QED BY <1>5, <1>6, <1>7, RegistryUntouched DEF HistInv, TypeOK, Copied

\* A step in which one thread goes on, or ends, and the files stay.
LEMMA ThreadHist ==
  ASSUME HistInv, NEW t \in Thread, NEW r, Remembers(r), work' = [work EXCEPT ![t] = r],
         UNCHANGED <<up, store, repair, outdated, bounds>>, missed' \in BOOLEAN,
         current' \in FileType, temp' \in FileType,
         RowsFrom(current'.rows), RowsFrom(temp'.rows)
  PROVE  HistInv'
<1>1. work' \in [Thread -> WorkType] /\ \A u \in Thread : Remembers(work'[u])
  BY MemoryKept
<1> QED BY <1>1, RegistryUntouched DEF HistInv, TypeOK, Copied, bounds

LEMMA CheckHist == ASSUME HistInv, NEW t \in Thread, Check(t) PROVE HistInv'
<1> DEFINE r == [work[t] EXCEPT !.step = "writing",
                                !.revision = template[work[t].schedule].revision]
<1>1. CASE SeenVersion(t)
  <2>1. work[t] \in WorkType /\ template[work[t].schedule] \in RowType /\ work[t].step = "checking"
    BY DEF HistInv, TypeOK, WorkType, Check, At
  <2>2. r \in WorkType /\ r.rows = work[t].rows /\ r.schedule = work[t].schedule
    BY <2>1 DEF WorkType, RowType
  <2>3. Remembers(r)
    BY <2>1, <2>2, SameRemembers DEF Remembers
  <2> QED BY <1>1, <2>3, ThreadHist DEF Check, HistInv, TypeOK, Copied, files
<1>2. CASE ~ SeenVersion(t)
  BY <1>2, SameRemembers, ThreadHist DEF Check, Ends, HistInv, TypeOK, Copied, files
<1> QED BY <1>1, <1>2

LEMMA ReadRowsHist == ASSUME HistInv, NEW t \in Thread, ReadRows(t) PROVE HistInv'
<1> DEFINE r == [work[t] EXCEPT !.step = "opening", !.rows = Rows]
<1>1. work[t] \in WorkType /\ Rows \in RowsType /\ RowsFrom(Rows)
  BY RowsTyped DEF HistInv, TypeOK
<1>2. r \in WorkType /\ r.rows = Rows /\ r.step = "opening"
  BY <1>1 DEF WorkType
<1>3. Remembers(r)
  BY <1>1, <1>2 DEF Remembers
<1> QED BY <1>3, ThreadHist DEF ReadRows, HistInv, TypeOK, Copied, files

LEMMA OpenTempHist == ASSUME HistInv, NEW t \in Thread, OpenTemp(t) PROVE HistInv'
<1>1. Torn \in FileType /\ RowsFrom(Torn.rows)
  BY FilesTyped, NoRowsFrom DEF Torn
<1> QED BY <1>1, SameRemembers, ThreadHist DEF OpenTemp, Goes, HistInv, TypeOK, Copied

LEMMA FillTempHist == ASSUME HistInv, NEW t \in Thread, FillTemp(t) PROVE HistInv'
<1>1. Torn \in FileType /\ RowsFrom(Torn.rows)
  BY FilesTyped, NoRowsFrom DEF Torn
<1>2. Whole(work[t].rows) \in FileType /\ RowsFrom(Whole(work[t].rows).rows)
  <2>1. work[t].rows \in RowsType /\ RowsFrom(work[t].rows)
    BY DEF HistInv, TypeOK, WorkType, Copied
  <2> QED BY <2>1, FilesTyped DEF Whole
<1>3. temp' \in FileType /\ RowsFrom(temp'.rows)
  BY <1>1, <1>2 DEF FillTemp
<1> QED BY <1>3, SameRemembers, ThreadHist DEF FillTemp, Goes, HistInv, TypeOK, Copied

LEMMA ReplaceHist == ASSUME HistInv, NEW t \in Thread, Replace(t) PROVE HistInv'
<1>1. Missing \in FileType /\ RowsFrom(Missing.rows)
  BY FilesTyped, NoRowsFrom DEF Missing
<1>2. /\ current' \in FileType /\ temp' \in FileType
      /\ RowsFrom(current'.rows) /\ RowsFrom(temp'.rows) /\ missed' \in BOOLEAN
  BY <1>1 DEF Replace, files, HistInv, TypeOK, Copied
<1> QED BY <1>2, SameRemembers, ThreadHist DEF Replace, Ends

\* A step of the repair that does not write.
LEMMA RepairHist ==
  ASSUME HistInv, UNCHANGED <<store, files, work, outdated, missed, bounds>>,
         up' \in {"down", "starting", "up"}, RowsFrom(repair'.rows),
         repair' \in [step : {"idle", "loading", "applying", "revalidating"}, rows : RowsType]
  PROVE  HistInv'
<1>1. \A u \in Thread : Remembers(work[u])
  BY SameRemembers
<1>2. work' = work /\ current' = current /\ temp' = temp
  BY DEF files
<1> QED BY <1>1, <1>2, RegistryUntouched DEF HistInv, TypeOK, Copied, bounds

LEMMA RepairReadsHist ==
  ASSUME HistInv, Discover \/ Load \/ Revalidate \/ Start
  PROVE  HistInv'
<1>1. NoRepair \in [step : {"idle", "loading", "applying", "revalidating"}, rows : RowsType]
      /\ RowsFrom(NoRepair.rows)
  BY NoRowsTyped, NoRowsFrom DEF NoRepair
<1>2. /\ repair \in [step : {"idle", "loading", "applying", "revalidating"}, rows : RowsType]
      /\ RowsFrom(repair.rows) /\ up \in {"down", "starting", "up"}
      /\ current.rows \in RowsType /\ RowsFrom(current.rows)
  BY DEF HistInv, TypeOK, Copied, FileType
<1>3. CASE Discover
  BY <1>2, <1>3, RepairHist DEF Discover
<1>4. CASE Load
  <2>1. /\ up' \in {"down", "starting", "up"} /\ RowsFrom(repair'.rows)
        /\ repair' \in [step : {"idle", "loading", "applying", "revalidating"}, rows : RowsType]
    BY <1>1, <1>2, <1>4 DEF Load, GiveUp
  <2> QED BY <1>4, <2>1, RepairHist DEF Load
<1>5. CASE Revalidate
  BY <1>1, <1>2, <1>5, RepairHist DEF Revalidate, GiveUp
<1>6. CASE Start
  BY <1>2, <1>6, RepairHist DEF Start
<1> QED BY <1>3, <1>4, <1>5, <1>6

LEMMA StopHist == ASSUME HistInv, Stop PROVE HistInv'
<1>1. work' \in [Thread -> WorkType] /\ \A u \in Thread : Remembers(work'[u])
  BY IdleTyped, SameRemembers DEF Stop
<1>2. NoRepair \in [step : {"idle", "loading", "applying", "revalidating"}, rows : RowsType]
      /\ RowsFrom(NoRepair.rows)
  BY NoRowsTyped, NoRowsFrom DEF NoRepair
<1>3. missed' \in BOOLEAN /\ faults' \in Nat /\ edits' = edits
  BY DEF Stop, HistInv, TypeOK
<1> QED BY <1>1, <1>2, <1>3, RegistryUntouched DEF Stop, HistInv, TypeOK, Copied, files

\* One template is written with a new content of its own log.
LEMMA WrittenHist ==
  ASSUME HistInv, NEW s \in Schedules, NEW row \in RowType, row.version > 0,
         NEW log \in Seq(Config0), NEW accepted \in Seq(Configs),
         Len(log) = Len(accepted), row.revision \in 1..Len(log),
         Len(revisions[s]) <= Len(log),
         \A r \in 1..Len(log) : log[r] \in {accepted[r], Damaged},
         \A r \in 1..Len(revisions[s]) : accepted[r] = original[s][r],
         template' = [template EXCEPT ![s] = row],
         revisions' = [revisions EXCEPT ![s] = log],
         original' = [original EXCEPT ![s] = accepted],
         UNCHANGED <<up, files, repair, outdated>>,
         missed' \in BOOLEAN, edits' \in Nat, faults' \in Nat,
         work' \in [Thread -> WorkType], \A u \in Thread : Remembers(work'[u])
  PROVE  HistInv'
<1>1. TypeOK'
  BY DEF HistInv, TypeOK, Config0, files
<1>2. /\ \A x \in Schedules \ {s} : /\ template'[x] = template[x] /\ revisions'[x] = revisions[x]
                                    /\ original'[x] = original[x]
      /\ template'[s] = row /\ revisions'[s] = log /\ original'[s] = accepted
  BY DEF HistInv, TypeOK
<1>3. HistoryTrue'
  BY <1>2 DEF HistInv, HistoryTrue
<1>4. Grows
  <2>1. \A x \in Schedules : Len(revisions[x]) <= Len(revisions'[x])
    BY <1>2 DEF HistInv, TypeOK
  <2> QED BY <1>2, <2>1 DEF Grows, Exists
<1>5. \A x \in Schedules : IF Exists(x)' THEN template'[x].revision \in 1..Len(revisions'[x])
                          ELSE revisions'[x] = <<>>
  BY <1>2 DEF HistInv, Filed, Exists
<1>6. RowsFrom(current'.rows) /\ RowsFrom(temp'.rows) /\ RowsFrom(repair'.rows)
  BY DEF HistInv, Copied, files
<1> QED BY <1>1, <1>3, <1>4, <1>5, <1>6, Assembled

\* What a thread that has written goes on with.
LEMMA WrittenRemembers ==
  ASSUME HistInv, NEW t \in Thread, Written(t) \/ Ends(t)
  PROVE  work' \in [Thread -> WorkType] /\ \A u \in Thread : Remembers(work'[u])
<1>1. Remembers(Idle) /\ Remembers([Idle EXCEPT !.step = "reading"])
  BY SameRemembers
<1> QED BY <1>1, MemoryKept DEF Written, Ends

LEMMA UpdateHist ==
  ASSUME HistInv, NEW t \in Thread, NEW c \in Configs, Update(t, c)
  PROVE  HistInv'
<1> DEFINE s == work[t].schedule
           r == work[t].revision + 1
           row == [status |-> template[s].status, version |-> template[s].version + 1, revision |-> r]
           accepted == IF r > Len(original[s]) THEN Append(original[s], c) ELSE original[s]
<1>1. work[t] \in WorkType /\ work[t].step = "writing"
  BY DEF HistInv, TypeOK, Update, At
<1>2. s \in Schedules /\ r \in Nat
  BY <1>1 DEF WorkType
<1>3. CASE Free(s, r)
  <2>1. /\ template[s] \in RowType /\ revisions[s] \in Seq(Config0) /\ original[s] \in Seq(Configs)
        /\ Len(revisions[s]) = Len(original[s])
    BY <1>2 DEF HistInv, TypeOK, HistoryTrue, Config0
  <2>2. r = Len(revisions[s]) + 1 /\ r > Len(revisions[s])
    BY <1>2, <1>3, <2>1 DEF Free
  <2>3. /\ revisions' = [revisions EXCEPT ![s] = Append(revisions[s], c)]
        /\ original' = [original EXCEPT ![s] = Append(original[s], c)]
        /\ template' = [template EXCEPT ![s] = row]
    <3>1. /\ revisions' = [revisions EXCEPT ![s] = Recorded(revisions[s], r, c)]
          /\ original' = [original EXCEPT ![s] = accepted]
      BY <1>3 DEF Update
    <3>2. template' = [template EXCEPT ![s] = row]
      BY <1>3 DEF Update
    <3>3. Recorded(revisions[s], r, c) = Append(revisions[s], c) /\ accepted = Append(original[s], c)
      BY <2>1, <2>2 DEF Recorded
    <3> QED BY <3>1, <3>2, <3>3
  <2>4. /\ row \in RowType /\ row.version > 0 /\ row.revision = r
    <3>1. template[s].status \in Status \cup {"none"} /\ template[s].version \in Nat
      BY <2>1 DEF RowType
    <3> QED BY <1>2, <3>1 DEF RowType
  <2>5. /\ Append(revisions[s], c) \in Seq(Config0) /\ Append(original[s], c) \in Seq(Configs)
        /\ Len(Append(revisions[s], c)) = r /\ Len(Append(original[s], c)) = r
    BY <2>1, <2>2 DEF Config0
  <2>6. \A k \in 1..Len(Append(revisions[s], c)) :
          Append(revisions[s], c)[k] \in {Append(original[s], c)[k], Damaged}
    <3> SUFFICES ASSUME NEW k \in 1..r
                 PROVE  Append(revisions[s], c)[k] \in {Append(original[s], c)[k], Damaged}
      BY <2>5
    <3>1. CASE k = r
      BY <2>1, <2>2, <3>1
    <3>2. CASE k # r
      <4>1. k \in 1..Len(revisions[s]) /\ k \in 1..Len(original[s])
        BY <1>2, <2>1, <2>2, <3>2
      <4>2. /\ Append(revisions[s], c)[k] = revisions[s][k]
            /\ Append(original[s], c)[k] = original[s][k]
        BY <2>1, <4>1
      <4> QED BY <1>2, <4>1, <4>2 DEF HistInv, HistoryTrue
    <3> QED BY <3>1, <3>2
  <2>7. \A k \in 1..Len(revisions[s]) : Append(original[s], c)[k] = original[s][k]
    BY <2>1
  <2>8. work' \in [Thread -> WorkType] /\ \A u \in Thread : Remembers(work'[u])
    BY <1>3, WrittenRemembers DEF Update
  <2>9. /\ missed' \in BOOLEAN /\ edits' \in Nat /\ faults' \in Nat
        /\ UNCHANGED <<up, files, repair, outdated>>
    BY <1>3 DEF Update, Overlaps, HistInv, TypeOK, bounds
  <2>10. r \in 1..Len(Append(revisions[s], c)) /\ Len(revisions[s]) <= Len(Append(revisions[s], c))
    BY <1>2, <2>1, <2>2, <2>5
  <2> HIDE DEF s, r, row
  <2> QED BY <1>2, <2>3, <2>4, <2>5, <2>6, <2>7, <2>8, <2>9, <2>10, WrittenHist
<1>4. CASE ~ Free(s, r)
  BY <1>4, SameRemembers, ThreadHist DEF Update, Ends, HistInv, TypeOK, Copied, files
<1> QED BY <1>3, <1>4

\* A change of the template alone.
LEMMA TemplateHist ==
  ASSUME HistInv, NEW s \in Schedules, NEW row \in RowType, row.version > 0,
         row.revision \in 1..Len(revisions[s]),
         template' = [template EXCEPT ![s] = row],
         UNCHANGED <<revisions, original, up, files, repair, outdated>>,
         missed' \in BOOLEAN, edits' \in Nat, faults' \in Nat,
         work' \in [Thread -> WorkType], \A u \in Thread : Remembers(work'[u])
  PROVE  HistInv'
<1>1. /\ revisions[s] \in Seq(Config0) /\ original[s] \in Seq(Configs)
      /\ revisions' = [revisions EXCEPT ![s] = revisions[s]]
      /\ original' = [original EXCEPT ![s] = original[s]]
  BY DEF HistInv, TypeOK, Config0
<1>2. /\ Len(revisions[s]) = Len(original[s])
      /\ \A r \in 1..Len(revisions[s]) : revisions[s][r] \in {original[s][r], Damaged}
  BY DEF HistInv, HistoryTrue
<1>3. Len(revisions[s]) <= Len(revisions[s])
  BY <1>1
<1> QED BY <1>1, <1>2, <1>3, WrittenHist

LEMMA SetStatusHist == ASSUME HistInv, NEW t \in Thread, SetStatus(t) PROVE HistInv'
<1> DEFINE s == work[t].schedule
           row == [status |-> work[t].op, version |-> template[s].version + 1,
                   revision |-> template[s].revision]
<1>1. work[t] \in WorkType /\ work[t].step = "writing" /\ s \in Schedules /\ Exists(s)
  BY DEF HistInv, TypeOK, Filed, SetStatus, At, WorkType
<1>2. template[s] \in RowType /\ template[s].revision \in 1..Len(revisions[s])
  BY <1>1 DEF HistInv, TypeOK, Filed
<1>3. row \in RowType /\ row.version > 0 /\ row.revision = template[s].revision
  <2>1. work[t].op \in Status /\ template[s].version \in Nat /\ template[s].revision \in Nat
    BY <1>2 DEF SetStatus, RowType
  <2> QED BY <2>1 DEF RowType
<1>4. work' \in [Thread -> WorkType] /\ \A u \in Thread : Remembers(work'[u])
  BY WrittenRemembers DEF SetStatus, AfterStatus
<1>5. missed' \in BOOLEAN /\ edits' \in Nat /\ faults' \in Nat
  BY DEF SetStatus, Overlaps, HistInv, TypeOK, bounds
<1>6. template' = [template EXCEPT ![s] = row]
  BY DEF SetStatus
<1>7. UNCHANGED <<revisions, original, up, files, repair, outdated>>
  BY DEF SetStatus
<1> HIDE DEF s, row
<1> QED BY <1>1, <1>2, <1>3, <1>4, <1>5, <1>6, <1>7, TemplateHist

LEMMA CreateHist ==
  ASSUME HistInv, NEW t \in Thread, NEW s \in Schedules, NEW c \in Configs, Create(t, s, c)
  PROVE  HistInv'
<1> DEFINE row == [status |-> "active", version |-> 1, revision |-> 1]
<1>1. row \in RowType /\ row.version > 0 /\ row.revision = 1
  BY DEF RowType
<1>2. revisions[s] = <<>> /\ Len(revisions[s]) = 0
  BY DEF HistInv, Filed, Create
<1>3. <<c>> \in Seq(Config0) /\ <<c>> \in Seq(Configs) /\ Len(<<c>>) = 1 /\ <<c>>[1] = c
  BY DEF Config0
<1>4. work' \in [Thread -> WorkType] /\ \A u \in Thread : Remembers(work'[u])
  BY WrittenRemembers DEF Create
<1>5. missed' \in BOOLEAN /\ edits' \in Nat /\ faults' \in Nat
  BY DEF Create, Overlaps, HistInv, TypeOK
<1>6. /\ template' = [template EXCEPT ![s] = row] /\ revisions' = [revisions EXCEPT ![s] = <<c>>]
      /\ original' = [original EXCEPT ![s] = <<c>>]
      /\ UNCHANGED <<up, files, repair, outdated>>
  BY DEF Create
<1>7. \A r \in 1..Len(revisions[s]) : <<c>>[r] = original[s][r]
  BY <1>2
<1> DEFINE log == <<c>>
<1>8. log \in Seq(Config0) /\ log \in Seq(Configs) /\ Len(log) = Len(log) /\ row.revision \in 1..Len(log)
      /\ Len(revisions[s]) <= Len(log) /\ \A r \in 1..Len(log) : log[r] \in {log[r], Damaged}
  BY <1>1, <1>2, <1>3
<1> HIDE DEF row, log
<1> QED BY <1>1, <1>4, <1>5, <1>6, <1>7, <1>8, WrittenHist DEF log

LEMMA DamageHist == ASSUME HistInv, NEW s \in Schedules, Damage(s) PROVE HistInv'
<1> DEFINE k == template[s].revision
           log == [revisions[s] EXCEPT ![k] = Damaged]
<1>1. /\ template[s] \in RowType /\ template[s].version > 0 /\ k \in 1..Len(revisions[s])
      /\ revisions[s] \in Seq(Config0) /\ original[s] \in Seq(Configs)
  BY DEF HistInv, TypeOK, Filed, Damage, Exists, Config0
<1>2. log \in Seq(Config0) /\ Len(log) = Len(revisions[s])
  BY <1>1 DEF Config0
<1>3. \A r \in 1..Len(log) : log[r] \in {original[s][r], Damaged}
  BY <1>1, <1>2 DEF HistInv, HistoryTrue
<1>4. /\ template' = [template EXCEPT ![s] = template[s]]
      /\ original' = [original EXCEPT ![s] = original[s]]
      /\ revisions' = [revisions EXCEPT ![s] = log]
      /\ UNCHANGED <<up, files, repair, outdated>>
  BY DEF Damage, HistInv, TypeOK
<1>5. work' \in [Thread -> WorkType] /\ \A u \in Thread : Remembers(work'[u])
  BY SameRemembers DEF Damage, HistInv, TypeOK
<1>6. missed' \in BOOLEAN /\ edits' \in Nat /\ faults' \in Nat
  BY DEF Damage, HistInv, TypeOK
<1>7. /\ Len(log) = Len(original[s]) /\ Len(revisions[s]) <= Len(log)
      /\ k \in 1..Len(log)
  BY <1>1, <1>2 DEF HistInv, HistoryTrue
<1> HIDE DEF log
<1> QED BY <1>1, <1>2, <1>3, <1>4, <1>5, <1>6, <1>7, WrittenHist

\* A repair writes under each number what was accepted under it.
LEMMA ApplyHist == ASSUME HistInv, Apply PROVE HistInv'
<1> DEFINE row(s) == repair.rows[s].row
           log(s) == Recorded(revisions[s], row(s).revision, repair.rows[s].config)
<1>1. ASSUME NEW s \in Schedules, Known(s)
      PROVE  /\ row(s) \in RowType /\ row(s).version > 0 /\ Exists(s)
             /\ row(s).revision \in 1..Len(revisions[s])
             /\ log(s) = [revisions[s] EXCEPT ![row(s).revision] = repair.rows[s].config]
             /\ log(s) \in Seq(Config0) /\ Len(log(s)) = Len(revisions[s])
             /\ \A r \in 1..Len(log(s)) : log(s)[r] \in {original[s][r], Damaged}
  <2>1. row(s) \in RowType /\ repair.rows[s].config \in Config0 /\ revisions[s] \in Seq(Config0)
    BY DEF HistInv, TypeOK, RowsType, Config0
  <2>2. /\ row(s).version > 0 /\ Exists(s) /\ row(s).revision \in 1..Len(revisions[s])
        /\ repair.rows[s].config \in {original[s][row(s).revision], Damaged}
    BY <1>1 DEF HistInv, Copied, RowsFrom, Known
  <2>3. log(s) = [revisions[s] EXCEPT ![row(s).revision] = repair.rows[s].config]
    BY <2>1, <2>2 DEF Recorded, RowType
  <2>4. log(s) \in Seq(Config0) /\ Len(log(s)) = Len(revisions[s])
    BY <2>1, <2>2, <2>3
  <2>5. \A r \in 1..Len(log(s)) : log(s)[r] \in {original[s][r], Damaged}
    BY <2>1, <2>2, <2>3, <2>4 DEF HistInv, HistoryTrue
  <2> QED BY <2>1, <2>2, <2>3, <2>4, <2>5
<1>2. ASSUME NEW s \in Schedules
      PROVE  /\ template'[s] = IF Known(s) THEN row(s) ELSE template[s]
             /\ revisions'[s] = IF Known(s) THEN log(s) ELSE revisions[s]
  BY DEF Apply
<1> HIDE DEF row, log
<1>3. ASSUME NEW s \in Schedules
      PROVE  /\ template'[s] \in RowType /\ revisions'[s] \in Seq(Config0)
             /\ Len(revisions'[s]) = Len(revisions[s]) /\ Len(revisions[s]) \in Nat
             /\ Exists(s) => Exists(s)'
             /\ IF Exists(s)' THEN template'[s].revision \in 1..Len(revisions'[s])
                ELSE revisions'[s] = <<>>
             /\ \A r \in 1..Len(revisions'[s]) : revisions'[s][r] \in {original[s][r], Damaged}
  <2>1. /\ template[s] \in RowType /\ revisions[s] \in Seq(Config0)
        /\ \A r \in 1..Len(revisions[s]) : revisions[s][r] \in {original[s][r], Damaged}
    BY DEF HistInv, TypeOK, HistoryTrue, Config0
  <2>2. CASE Known(s)
    BY <1>1, <1>2, <2>1, <2>2 DEF Exists
  <2>3. CASE ~ Known(s)
    BY <1>2, <2>1, <2>3 DEF HistInv, Filed, Exists
  <2> QED BY <2>2, <2>3
<1>4. HistoryTrue'
  BY <1>3 DEF HistoryTrue, HistInv, Apply
<1>5. Grows
  BY <1>3 DEF Grows, Apply
<1>6. template' \in [Schedules -> RowType] /\ revisions' \in [Schedules -> Seq(Config0)]
  BY <1>3 DEF Apply
<1>7. /\ repair' \in [step : {"idle", "loading", "applying", "revalidating"}, rows : RowsType]
      /\ RowsFrom(repair'.rows)
  BY NoRowsTyped, NoRowsFrom DEF Apply
<1>8. TypeOK'
  BY <1>6, <1>7 DEF HistInv, TypeOK, Apply, files, bounds, Config0
<1>9. RowsFrom(current'.rows) /\ RowsFrom(temp'.rows)
  BY DEF Apply, files, HistInv, Copied
<1>10. \A u \in Thread : Remembers(work'[u])
  BY SameRemembers DEF Apply
<1> QED BY <1>3, <1>4, <1>5, <1>7, <1>8, <1>9, <1>10, Assembled

LEMMA HistNext == HistInv /\ [Next]_vars => HistInv'
<1> SUFFICES ASSUME HistInv, [Next]_vars PROVE HistInv'
  OBVIOUS
<1>1. ASSUME NEW t \in Thread, Check(t) PROVE HistInv'
  BY <1>1, CheckHist
<1>2. ASSUME NEW t \in Thread, SetStatus(t) PROVE HistInv'
  BY <1>2, SetStatusHist
<1>3. ASSUME NEW t \in Thread, NEW s \in Schedules, NEW op \in Status \cup {"update"}, Command(t, s, op)
      PROVE  HistInv'
  BY <1>3, CommandHist
<1>4. ASSUME NEW t \in Thread, NEW c \in Configs, Update(t, c) PROVE HistInv'
  BY <1>4, UpdateHist
<1>5. ASSUME NEW t \in Thread, NEW s \in Schedules, NEW c \in Configs, Create(t, s, c) PROVE HistInv'
  BY <1>5, CreateHist
<1>6. ASSUME NEW t \in Thread, ReadRows(t) \/ OpenTemp(t) \/ FillTemp(t) \/ Replace(t) PROVE HistInv'
  BY <1>6, ReadRowsHist, OpenTempHist, FillTempHist, ReplaceHist
<1>7. CASE Discover \/ Load \/ Apply \/ Revalidate \/ Stop \/ Start
  BY <1>7, RepairReadsHist, ApplyHist, StopHist
<1>8. ASSUME NEW s \in Schedules, Damage(s) PROVE HistInv'
  BY <1>8, DamageHist
<1>9. CASE UNCHANGED vars
  <2>1. UNCHANGED <<store, files, work, outdated, missed, bounds, repair, up>>
    BY <1>9 DEF vars, store, files, bounds
  <2> QED BY <2>1, RepairHist DEF HistInv, TypeOK, Copied
<1> QED BY <1>1, <1>2, <1>3, <1>4, <1>5, <1>6, <1>7, <1>8, <1>9 DEF Next

(* Every state is well typed. *)
THEOREM TypeCorrect == Spec => []TypeOK
<1>1. Spec => []HistInv
  BY HistInit, HistNext, PTL DEF Spec
<1>2. HistInv => TypeOK
  BY DEF HistInv
<1> QED BY <1>1, <1>2, PTL

(* A revision is never anything but what was accepted under its number:
   neither an edit nor a repair from an old snapshot rewrites history. *)
THEOREM HistoryStands == Spec => []HistoryTrue
<1>1. Spec => []HistInv
  BY HistInit, HistNext, PTL DEF Spec
<1>2. HistInv => HistoryTrue
  BY DEF HistInv
<1> QED BY <1>1, <1>2, PTL

-----------------------------------------------------------------------------
(* What an update replaces.                                                 *)

\* A command that no repair has overtaken: a version names one revision of
\* the template, and revisions only go up.
OnSeen ==
  \A t \in Thread \ outdated :
    /\ work[t].step = "checking" =>
         /\ work[t].seen.version <= template[work[t].schedule].version
         /\ work[t].seen.version = template[work[t].schedule].version
              => work[t].seen.revision = template[work[t].schedule].revision
    /\ work[t].step = "writing" =>
         /\ work[t].seen.revision = work[t].revision
         /\ work[t].revision <= template[work[t].schedule].revision

\* A template is left alone or moves on.
MovesOn(s) ==
  \/ template'[s] = template[s]
  \/ /\ template'[s].version > template[s].version
     /\ template'[s].revision >= template[s].revision

LEMMA SeenKept ==
  ASSUME HistInv, HistInv', OnSeen, outdated \subseteq outdated',
         \A s \in Schedules : Exists(s) => MovesOn(s),
         \A t \in Thread : work'[t] = work[t] \/ work'[t].step \notin {"checking", "writing"}
  PROVE  OnSeen'
<1> SUFFICES ASSUME NEW t \in Thread \ outdated', work'[t].step \in {"checking", "writing"}
             PROVE  /\ work'[t].step = "checking" =>
                         /\ work'[t].seen.version <= template'[work'[t].schedule].version
                         /\ work'[t].seen.version = template'[work'[t].schedule].version
                              => work'[t].seen.revision = template'[work'[t].schedule].revision
                    /\ work'[t].step = "writing" =>
                         /\ work'[t].seen.revision = work'[t].revision
                         /\ work'[t].revision <= template'[work'[t].schedule].revision
  BY DEF OnSeen
<1>1. work'[t] = work[t] /\ t \notin outdated
  OBVIOUS
<1>2. work[t] \in WorkType /\ Exists(work[t].schedule)
  BY <1>1 DEF HistInv, TypeOK, Filed
<1> DEFINE s == work[t].schedule
<1>3. s \in Schedules /\ work[t].seen \in RowType /\ work[t].revision \in Nat
  BY <1>2 DEF WorkType
<1>4. template[s] \in RowType /\ template'[s] \in RowType
  BY <1>3 DEF HistInv, TypeOK
<1>5. MovesOn(s)
  BY <1>2, <1>3
<1>6. /\ template[s].version \in Nat /\ template[s].revision \in Nat
      /\ template'[s].version \in Nat /\ template'[s].revision \in Nat
      /\ work[t].seen.version \in Nat /\ work[t].seen.revision \in Nat
  BY <1>3, <1>4 DEF RowType
<1>7. CASE work[t].step = "checking"
  BY <1>1, <1>5, <1>6, <1>7 DEF MovesOn, OnSeen
<1>8. CASE work[t].step = "writing"
  BY <1>1, <1>3, <1>5, <1>6, <1>8 DEF MovesOn, OnSeen
<1> QED BY <1>1, <1>7, <1>8

LEMMA UpdateMovesOn ==
  ASSUME HistInv, NEW t \in Thread, NEW c \in Configs, Update(t, c), NEW x \in Schedules
  PROVE  MovesOn(x)
<1> DEFINE s == work[t].schedule
           r == work[t].revision + 1
<1>1. work[t] \in WorkType /\ s \in Schedules /\ Exists(s) /\ r \in Nat
  BY DEF HistInv, TypeOK, Filed, Update, At, WorkType
<1>2. /\ template[s] \in RowType /\ template[s].revision \in 1..Len(revisions[s])
      /\ revisions[s] \in Seq(Config0)
  BY <1>1 DEF HistInv, TypeOK, Filed, Config0
<1>3. CASE Free(s, r)
  <2>1. template' = [template EXCEPT ![s] =
          [status |-> template[s].status, version |-> template[s].version + 1, revision |-> r]]
    BY <1>3 DEF Update
  <2>2. r > template[s].revision
    BY <1>2, <1>3 DEF Free
  <2>3. template[s].version \in Nat /\ template[s].revision \in Nat /\ DOMAIN template = Schedules
    BY <1>2 DEF RowType, HistInv, TypeOK
  <2> HIDE DEF s, r
  <2> QED BY <1>1, <2>1, <2>2, <2>3 DEF MovesOn
<1>4. CASE ~ Free(s, r)
  BY <1>4 DEF Update, store, MovesOn
<1> QED BY <1>3, <1>4

LEMMA SetStatusMovesOn ==
  ASSUME HistInv, NEW t \in Thread, SetStatus(t), NEW x \in Schedules
  PROVE  MovesOn(x)
<1> DEFINE s == work[t].schedule
<1>1. s \in Schedules
  BY DEF HistInv, TypeOK, WorkType
<1>2. template[s] \in RowType /\ DOMAIN template = Schedules
  BY <1>1 DEF HistInv, TypeOK
<1>3. template[s].version \in Nat /\ template[s].revision \in Nat
  BY <1>2 DEF RowType
<1>4. template' = [template EXCEPT ![s] =
         [status |-> work[t].op, version |-> template[s].version + 1, revision |-> template[s].revision]]
  BY DEF SetStatus
<1> HIDE DEF s
<1> QED BY <1>1, <1>2, <1>3, <1>4 DEF MovesOn

\* How a step changes what the threads hold, apart from sending and comparing.
LEMMA OthersHold ==
  ASSUME HistInv, NEW t \in Thread, NEW r, r.step \notin {"checking", "writing"},
         work' = [work EXCEPT ![t] = r]
  PROVE  \A u \in Thread : work'[u] = work[u] \/ work'[u].step \notin {"checking", "writing"}
BY DEF HistInv, TypeOK

LEMMA IdleStep == Idle.step = "idle" /\ [Idle EXCEPT !.step = "reading"].step = "reading"
BY DEF Idle

LEMMA SeenWrite ==
  ASSUME HistInv, HistInv', OnSeen, NEW t \in Thread,
         (\E c \in Configs : Update(t, c)) \/ SetStatus(t)
         \/ (\E s \in Schedules, c \in Configs : Create(t, s, c))
  PROVE  OnSeen'
<1>1. \A u \in Thread : work'[u] = work[u] \/ work'[u].step \notin {"checking", "writing"}
  <2>1. Written(t) \/ Ends(t)
    BY DEF Update, SetStatus, AfterStatus, Create
  <2> QED BY <2>1, IdleStep, OthersHold DEF Written, Ends
<1>2. outdated' = outdated
  BY DEF Update, SetStatus, Create
<1>3. ASSUME NEW s \in Schedules, NEW c \in Configs, Create(t, s, c), NEW x \in Schedules, Exists(x)
      PROVE  MovesOn(x)
  BY <1>3 DEF Create, MovesOn, HistInv, TypeOK
<1> QED BY <1>1, <1>2, <1>3, UpdateMovesOn, SetStatusMovesOn, SeenKept

LEMMA SeenSnapshot ==
  ASSUME HistInv, HistInv', OnSeen, NEW t \in Thread,
         ReadRows(t) \/ OpenTemp(t) \/ FillTemp(t) \/ Replace(t)
  PROVE  OnSeen'
<1>1. work[t] \in WorkType
  BY DEF HistInv, TypeOK
<1>2. \E r : r.step \notin {"checking", "writing"} /\ work' = [work EXCEPT ![t] = r]
  <2>1. CASE ReadRows(t)
    BY <1>1, <2>1 DEF ReadRows, WorkType
  <2>2. CASE OpenTemp(t)
    BY <1>1, <2>2 DEF OpenTemp, Goes, WorkType
  <2>3. CASE FillTemp(t)
    BY <1>1, <2>3 DEF FillTemp, Goes, WorkType
  <2>4. CASE Replace(t)
    BY <2>4, IdleStep DEF Replace, Ends
  <2> QED BY <2>1, <2>2, <2>3, <2>4
<1>3. outdated' = outdated /\ template' = template
  BY DEF ReadRows, OpenTemp, FillTemp, Replace, store
<1> QED BY <1>2, <1>3, OthersHold, SeenKept DEF MovesOn

LEMMA SeenCommand ==
  ASSUME HistInv, HistInv', OnSeen, NEW t \in Thread, NEW s \in Schedules,
         NEW op \in Status \cup {"update"}, Command(t, s, op)
  PROVE  OnSeen'
<1> DEFINE r == [Idle EXCEPT !.step = "checking", !.op = op, !.schedule = s, !.seen = template[s]]
<1>1. work' = [work EXCEPT ![t] = r] /\ outdated' = outdated \ {t} /\ template' = template
  BY DEF Command, store
<1>2. r.step = "checking" /\ r.schedule = s /\ r.seen = template[s]
  BY DEF Idle
<1>3. template[s].version \in Nat
  BY DEF HistInv, TypeOK, RowType
<1> HIDE DEF r
<1>4. ASSUME NEW u \in Thread, u # t PROVE work'[u] = work[u]
  BY <1>1, <1>4 DEF HistInv, TypeOK
<1>5. work'[t] = r
  BY <1>1 DEF HistInv, TypeOK
<1> QED BY <1>1, <1>2, <1>3, <1>4, <1>5 DEF OnSeen

LEMMA SeenCheck ==
  ASSUME HistInv, HistInv', OnSeen, NEW t \in Thread, Check(t)
  PROVE  OnSeen'
<1> DEFINE r == [work[t] EXCEPT !.step = "writing",
                                !.revision = template[work[t].schedule].revision]
<1>1. outdated' = outdated /\ template' = template /\ work[t].step = "checking"
  BY DEF Check, store, At
<1>2. CASE SeenVersion(t)
  <2>1. work' = [work EXCEPT ![t] = r]
    BY <1>2 DEF Check
  <2>2. /\ r.step = "writing" /\ r.schedule = work[t].schedule /\ r.seen = work[t].seen
        /\ r.revision = template[work[t].schedule].revision
        /\ template[work[t].schedule].revision \in Nat
    BY DEF HistInv, TypeOK, WorkType, RowType
  <2> HIDE DEF r
  <2>3. t \notin outdated => work[t].seen.revision = template[work[t].schedule].revision
    BY <1>1, <1>2 DEF OnSeen, SeenVersion
  <2>4. ASSUME NEW u \in Thread, u # t PROVE work'[u] = work[u]
    BY <2>1, <2>4 DEF HistInv, TypeOK
  <2>5. work'[t] = r
    BY <2>1 DEF HistInv, TypeOK
  <2> QED BY <1>1, <2>2, <2>3, <2>4, <2>5 DEF OnSeen
<1>3. CASE ~ SeenVersion(t)
  <2>1. Ends(t)
    BY <1>3 DEF Check
  <2> QED BY <1>1, <2>1, IdleStep, OthersHold, SeenKept DEF Ends, MovesOn
<1> QED BY <1>2, <1>3

LEMMA SeenNext == HistInv /\ HistInv' /\ OnSeen /\ [Next]_vars => OnSeen'
<1> SUFFICES ASSUME HistInv, HistInv', OnSeen, [Next]_vars PROVE OnSeen'
  OBVIOUS
<1>1. ASSUME NEW t \in Thread, Check(t) PROVE OnSeen'
  BY <1>1, SeenCheck
<1>2. ASSUME NEW t \in Thread, NEW s \in Schedules, NEW op \in Status \cup {"update"}, Command(t, s, op)
      PROVE  OnSeen'
  BY <1>2, SeenCommand
<1>3. ASSUME NEW t \in Thread,
             (\E c \in Configs : Update(t, c)) \/ SetStatus(t)
             \/ (\E s \in Schedules, c \in Configs : Create(t, s, c))
      PROVE  OnSeen'
  BY <1>3, SeenWrite
<1>4. ASSUME NEW t \in Thread, ReadRows(t) \/ OpenTemp(t) \/ FillTemp(t) \/ Replace(t)
      PROVE  OnSeen'
  BY <1>4, SeenSnapshot
<1>5. CASE Discover \/ Load \/ Revalidate \/ Start \/ (\E s \in Schedules : Damage(s)) \/ UNCHANGED vars
  <2>1. outdated' = outdated /\ template' = template /\ work' = work
    BY <1>5 DEF Discover, Load, Revalidate, Start, Damage, vars, store
  <2> QED BY <2>1 DEF OnSeen
<1>6. CASE Apply
  BY <1>6 DEF Apply, OnSeen
<1>7. CASE Stop
  BY <1>7, IdleStep DEF Stop, OnSeen
<1> QED BY <1>1, <1>2, <1>3, <1>4, <1>5, <1>6, <1>7 DEF Next

\* Only an accepted update takes an update from writing to its snapshot.
LEMMA OnlyUpdateWrites ==
  ASSUME HistInv, Next, NEW t \in Thread, work[t].step = "writing",
         work'[t].step = "reading", work[t].op = "update"
  PROVE  \E c \in Configs : Update(t, c)
<1>1. ASSUME NEW u \in Thread \ {t}, NEW r, work' = [work EXCEPT ![u] = r] PROVE FALSE
  BY <1>1 DEF HistInv, TypeOK
<1>2. ASSUME NEW u \in Thread \ {t}, Check(u) \/ SetStatus(u) \/ (\E c \in Configs : Update(u, c)) PROVE FALSE
  BY <1>1, <1>2 DEF Check, SetStatus, AfterStatus, Update, Written, Ends
<1>3. ASSUME NEW u \in Thread \ {t}, ReadRows(u) \/ OpenTemp(u) \/ FillTemp(u) \/ Replace(u) PROVE FALSE
  BY <1>1, <1>3 DEF ReadRows, OpenTemp, FillTemp, Replace, Goes, Ends
<1>4. ASSUME NEW u \in Thread \ {t}, NEW s \in Schedules,
             (\E op \in Status \cup {"update"} : Command(u, s, op)) \/ (\E c \in Configs : Create(u, s, c))
      PROVE  FALSE
  BY <1>1, <1>4 DEF Command, Create, Written
<1>5. ~ (Check(t) \/ ReadRows(t) \/ OpenTemp(t) \/ FillTemp(t) \/ Replace(t))
  BY DEF Check, ReadRows, OpenTemp, FillTemp, Replace, At
<1>6. \A s \in Schedules : /\ \A op \in Status \cup {"update"} : ~ Command(t, s, op)
                           /\ \A c \in Configs : ~ Create(t, s, c)
  BY DEF Command, Create, At
<1>7. ~ SetStatus(t)
  BY DEF SetStatus
<1>8. ~ (Discover \/ Load \/ Apply \/ Revalidate \/ Start \/ \E s \in Schedules : Damage(s))
  <2>1. work' # work
    OBVIOUS
  <2> QED BY <2>1 DEF Discover, Load, Apply, Revalidate, Start, Damage
<1>9. ~ Stop
  BY IdleStep DEF Stop
<1> QED BY <1>2, <1>3, <1>4, <1>5, <1>6, <1>7, <1>8, <1>9 DEF Next

(* Optimistic concurrency: an accepted update replaces the revision its user
   saw, although the comparison is made outside the transaction: the number
   of the next revision would be taken. *)
THEOREM UpdatesReplaceWhatWasSeen == Spec => UpdateOnSeen
<1> DEFINE Replaces == \A t \in Thread, s \in Schedules :
       (work[t].step = "writing" /\ work'[t].step = "reading" /\ work[t].op = "update"
        /\ work[t].schedule = s /\ t \notin outdated)
         => work[t].seen.revision = template[s].revision
<1>1. Init => OnSeen
  BY IdleStep DEF Init, OnSeen
<1>2. HistInv /\ OnSeen /\ [Next]_vars => [Replaces]_vars
  <2> SUFFICES ASSUME HistInv, OnSeen, Next,
                      NEW t \in Thread, work[t].step = "writing", work'[t].step = "reading",
                      work[t].op = "update", t \notin outdated
               PROVE  work[t].seen.revision = template[work[t].schedule].revision
    BY DEF vars
  <2> DEFINE s == work[t].schedule
             r == work[t].revision + 1
  <2>1. PICK c \in Configs : Update(t, c)
    BY OnlyUpdateWrites
  <2>2. Free(s, r)
    <3>1. ~ Free(s, r) => work' = [work EXCEPT ![t] = Idle]
      BY <2>1 DEF Update, Ends
    <3> QED BY <3>1, IdleStep DEF HistInv, TypeOK
  <2>3. /\ work[t] \in WorkType /\ s \in Schedules /\ Exists(s)
        /\ template[s].revision \in 1..Len(revisions[s]) /\ revisions[s] \in Seq(Config0)
    BY DEF HistInv, TypeOK, Filed, WorkType, Config0
  <2>4. work[t].seen.revision = work[t].revision /\ work[t].revision <= template[s].revision
    BY DEF OnSeen
  <2> QED BY <2>2, <2>3, <2>4 DEF Free, WorkType
<1>3. Spec => []HistInv
  BY HistInit, HistNext, PTL DEF Spec
<1>4. Spec => []OnSeen
  BY <1>1, <1>3, SeenNext, PTL DEF Spec
<1> QED BY <1>2, <1>3, <1>4, PTL DEF Spec, UpdateOnSeen

(***************************************************************************)
(* The snapshot.  Unless one was lost, threads that will still write have  *)
(* the registry's rows in memory, and the last of them will move what it   *)
(* wrote itself.                                                           *)
(***************************************************************************)

Taking == {t \in Thread : work[t].step \in {"reading", "opening", "filling", "replacing"}}
Agrees(rows) == \A s \in Schedules : rows[s].row = template[s]
Holds(file) == file.state = "whole" /\ Agrees(file.rows)
LastIs(t) == Taking \subseteq {t}

ReadAgrees == \A t \in Snapshotting : Agrees(work[t].rows)
LastMoves ==
  \A t \in Thread : LastIs(t) =>
    /\ work[t].step = "filling" => temp.state # "whole"
    /\ work[t].step = "replacing" => temp.state = "missing" \/ Holds(temp)
SnapInv == missed \/ (ReadAgrees /\ LastMoves /\ (Taking = {} => Holds(current)))

LEMMA SnapInit == Init => SnapInv
<1> SUFFICES ASSUME Init PROVE SnapInv
  OBVIOUS
<1>1. Taking = {} /\ Snapshotting = {}
  BY IdleStep DEF Init, Taking, Snapshotting
<1>2. Holds(current)
  BY DEF Init, Holds, Agrees, Whole, Rows
<1>3. \A t \in Thread : work[t].step = "idle"
  BY IdleStep DEF Init
<1> QED BY <1>1, <1>2, <1>3 DEF SnapInv, ReadAgrees, LastMoves

\* A step that leaves the templates, the files and the threads that take a
\* snapshot as they are.
LEMMA SnapKept ==
  ASSUME SnapInv, missed' = missed, UNCHANGED <<template, files>>,
         \A t \in Thread : \/ work'[t] = work[t]
                           \/ t \notin Taking /\ work'[t].step \in {"idle", "checking", "writing"}
  PROVE  SnapInv'
<1>1. Taking' = Taking /\ Snapshotting' = Snapshotting
  BY DEF Taking, Snapshotting
<1>2. \A t \in Taking : work'[t] = work[t]
  BY DEF Taking
<1>3. Snapshotting \subseteq Taking
  BY DEF Snapshotting, Taking
<1>4. ReadAgrees => ReadAgrees'
  BY <1>1, <1>2, <1>3 DEF ReadAgrees, Agrees
<1>5. LastMoves => LastMoves'
  <2> SUFFICES ASSUME LastMoves, NEW t \in Thread, LastIs(t)',
                      work'[t].step \in {"filling", "replacing"}
               PROVE  /\ work'[t].step = "filling" => temp'.state # "whole"
                      /\ work'[t].step = "replacing" => temp'.state = "missing" \/ Holds(temp)'
    BY DEF LastMoves
  <2>1. t \in Taking /\ work'[t] = work[t]
    BY <1>1, <1>2 DEF Taking
  <2>2. LastIs(t)
    BY <1>1 DEF LastIs
  <2> QED BY <2>1, <2>2 DEF LastMoves, files, Holds, Agrees
<1> QED BY <1>1, <1>4, <1>5 DEF SnapInv, files, Holds, Agrees

\* A change of the registry: its snapshot is still to be read.
LEMMA SnapWritten ==
  ASSUME HistInv, NEW t \in Thread, Written(t), Overlaps
  PROVE  SnapInv'
<1>1. CASE Snapshotting # {}
  BY <1>1 DEF Overlaps, SnapInv
<1>2. CASE Snapshotting = {}
  <2>1. work'[t].step = "reading" /\ \A u \in Thread \ {t} : work'[u] = work[u]
    BY IdleStep DEF Written, HistInv, TypeOK
  <2>2. t \in Taking'
    BY <2>1 DEF Taking
  <2>3. Snapshotting' = {}
    BY <1>2, <2>1 DEF Snapshotting
  <2> QED BY <2>2, <2>3 DEF SnapInv, ReadAgrees, LastMoves, Snapshotting
<1> QED BY <1>1, <1>2

LEMMA SnapCommands ==
  ASSUME HistInv, SnapInv, NEW t \in Thread,
         \/ Check(t) \/ SetStatus(t)
         \/ \E s \in Schedules, op \in Status \cup {"update"} : Command(t, s, op)
         \/ \E c \in Configs : Update(t, c)
         \/ \E s \in Schedules, c \in Configs : Create(t, s, c)
  PROVE  SnapInv'
<1>1. CASE Check(t)
  <2>1. work'[t].step \in {"idle", "writing"} /\ \A u \in Thread \ {t} : work'[u] = work[u]
    <3>1. CASE SeenVersion(t)
      <4>1. work' = [work EXCEPT ![t] = [work[t] EXCEPT !.step = "writing",
                                                        !.revision = template[work[t].schedule].revision]]
        BY <1>1, <3>1 DEF Check
      <4>2. work[t] \in WorkType /\ DOMAIN work = Thread
        BY DEF HistInv, TypeOK
      <4>3. [work[t] EXCEPT !.step = "writing",
                            !.revision = template[work[t].schedule].revision].step = "writing"
        BY <4>2 DEF WorkType
      <4> QED BY <4>1, <4>2, <4>3
    <3>2. CASE ~ SeenVersion(t)
      BY <1>1, <3>2, IdleStep DEF Check, Ends, HistInv, TypeOK
    <3> QED BY <3>1, <3>2
  <2>2. t \notin Taking
    BY <1>1 DEF Check, At, Taking
  <2> QED BY <1>1, <2>1, <2>2, SnapKept DEF Check, store
<1>2. CASE SetStatus(t)
  BY <1>2, SnapWritten DEF SetStatus, AfterStatus
<1>3. ASSUME NEW s \in Schedules, NEW op \in Status \cup {"update"}, Command(t, s, op)
      PROVE  SnapInv'
  <2>1. work'[t].step = "checking" /\ \A u \in Thread \ {t} : work'[u] = work[u]
    BY <1>3, IdleTyped DEF Command, WorkType, HistInv, TypeOK
  <2>2. t \notin Taking
    BY <1>3 DEF Command, At, Taking
  <2> QED BY <1>3, <2>1, <2>2, SnapKept DEF Command, store
<1>4. ASSUME NEW c \in Configs, Update(t, c) PROVE SnapInv'
  <2> DEFINE s == work[t].schedule
             r == work[t].revision + 1
  <2>1. CASE Free(s, r)
    BY <1>4, <2>1, SnapWritten DEF Update
  <2>2. CASE ~ Free(s, r)
    <3>1. work'[t].step = "idle" /\ \A u \in Thread \ {t} : work'[u] = work[u]
      BY <1>4, <2>2, IdleStep DEF Update, Ends, HistInv, TypeOK
    <3>2. t \notin Taking
      BY <1>4 DEF Update, At, Taking
    <3>3. missed' = missed /\ UNCHANGED <<template, files>>
      BY <1>4, <2>2 DEF Update, store
    <3> QED BY <3>1, <3>2, <3>3, SnapKept
  <2> QED BY <2>1, <2>2
<1>5. ASSUME NEW s \in Schedules, NEW c \in Configs, Create(t, s, c) PROVE SnapInv'
  BY <1>5, SnapWritten DEF Create
<1> QED BY <1>1, <1>2, <1>3, <1>4, <1>5

LEMMA SnapReadRows ==
  ASSUME HistInv, SnapInv, NEW t \in Thread, ReadRows(t) PROVE SnapInv'
<1>1. /\ work'[t].step = "opening" /\ work'[t].rows = Rows
      /\ \A u \in Thread \ {t} : work'[u] = work[u]
  BY DEF ReadRows, HistInv, TypeOK, WorkType
<1>2. /\ t \in Taking' /\ Snapshotting' = Snapshotting \cup {t} /\ missed' = missed
      /\ template' = template
  BY <1>1 DEF Taking, Snapshotting, ReadRows, store
<1>3. \A s \in Schedules : Rows[s].row = template[s]
  BY DEF Rows
<1>4. ASSUME ReadAgrees, NEW u \in Snapshotting' PROVE Agrees(work[u].rows)'
  <2>1. CASE u = t
    BY <1>1, <1>2, <1>3, <2>1 DEF Agrees
  <2>2. CASE u # t
    BY <1>1, <1>2, <1>4, <2>2 DEF ReadAgrees, Agrees, Snapshotting
  <2> QED BY <2>1, <2>2
<1>5. LastMoves'
  BY <1>1, <1>2 DEF LastMoves, LastIs
<1> QED BY <1>2, <1>4, <1>5 DEF SnapInv, ReadAgrees

\* The steps on current.tmp: another thread is never the last one.
LEMMA SnapGoes ==
  ASSUME HistInv, NEW t \in Thread, t \in Snapshotting,
         NEW step \in {"filling", "replacing"}, Goes(t, step), template' = template
  PROVE  /\ work'[t].step = step /\ work'[t].rows = work[t].rows
         /\ t \in Taking' /\ Taking' = Taking
         /\ ReadAgrees => ReadAgrees'
<1>1. /\ work'[t].step = step /\ work'[t].rows = work[t].rows
      /\ \A u \in Thread \ {t} : work'[u] = work[u]
  BY DEF Goes, HistInv, TypeOK, WorkType
<1>2. t \in Taking' /\ Taking' = Taking /\ Snapshotting' = Snapshotting
  BY <1>1 DEF Taking, Snapshotting
<1>3. ReadAgrees => ReadAgrees'
  BY <1>1, <1>2 DEF ReadAgrees, Agrees, Snapshotting
<1> QED BY <1>1, <1>2, <1>3

LEMMA SnapOpenTemp ==
  ASSUME HistInv, SnapInv, NEW t \in Thread, OpenTemp(t) PROVE SnapInv'
<1>1. t \in Snapshotting /\ Goes(t, "filling") /\ template' = template /\ missed' = missed
  BY DEF OpenTemp, At, Snapshotting, store
<1>2. work'[t].step = "filling" /\ t \in Taking' /\ (ReadAgrees => ReadAgrees')
  BY <1>1, SnapGoes
<1>3. temp'.state = "torn"
  BY DEF OpenTemp, Torn
<1>4. LastMoves'
  BY <1>2, <1>3 DEF LastMoves, LastIs
<1> QED BY <1>1, <1>2, <1>4 DEF SnapInv

LEMMA SnapFillTemp ==
  ASSUME HistInv, SnapInv, NEW t \in Thread, FillTemp(t) PROVE SnapInv'
<1>1. t \in Snapshotting /\ Goes(t, "replacing") /\ template' = template /\ missed' = missed
  BY DEF FillTemp, At, Snapshotting, store
<1>2. /\ work'[t].step = "replacing" /\ t \in Taking' /\ Taking' = Taking
      /\ ReadAgrees => ReadAgrees'
  BY <1>1, SnapGoes
<1>3. ASSUME ReadAgrees, LastMoves, LastIs(t) PROVE Holds(temp)'
  <2>1. temp.state # "whole"
    BY <1>3 DEF LastMoves, FillTemp, At
  <2>2. temp' = Whole(work[t].rows)
    BY <2>1 DEF FillTemp
  <2>3. Agrees(work[t].rows)
    BY <1>1, <1>3 DEF ReadAgrees
  <2> QED BY <1>1, <2>2, <2>3 DEF Holds, Agrees, Whole
<1>4. ReadAgrees /\ LastMoves => LastMoves'
  <2> SUFFICES ASSUME ReadAgrees, LastMoves, NEW u \in Thread, LastIs(u)'
               PROVE  /\ work'[u].step = "filling" => temp'.state # "whole"
                      /\ work'[u].step = "replacing" => temp'.state = "missing" \/ Holds(temp)'
    BY DEF LastMoves
  <2>1. u = t /\ LastIs(t)
    BY <1>2 DEF LastIs
  <2> QED BY <1>2, <1>3, <2>1
<1> QED BY <1>1, <1>2, <1>4 DEF SnapInv

LEMMA SnapReplace ==
  ASSUME HistInv, SnapInv, NEW t \in Thread, Replace(t) PROVE SnapInv'
<1>1. CASE temp.state # "missing" /\ \A u \in Thread : work[u].step # "filling"
  <2>1. /\ current' = temp /\ temp' = Missing /\ missed' = missed /\ template' = template
        /\ work[t].step = "replacing"
    BY <1>1 DEF Replace, At, store
  <2>2. work'[t].step = "idle" /\ \A u \in Thread \ {t} : work'[u] = work[u]
    BY IdleStep DEF Replace, Ends, HistInv, TypeOK
  <2>3. Snapshotting' \subseteq Snapshotting \ {t} /\ Taking' = Taking \ {t}
    BY <2>2 DEF Snapshotting, Taking
  <2>4. ASSUME ReadAgrees, NEW u \in Snapshotting' PROVE Agrees(work[u].rows)'
    <3>1. u \in Snapshotting /\ u \in Thread \ {t}
      BY <2>3 DEF Snapshotting
    <3> QED BY <2>1, <2>2, <2>4, <3>1 DEF ReadAgrees, Agrees
  <2>5. LastMoves'
    BY <1>1, <2>1, <2>2 DEF LastMoves, Missing
  <2>6. ASSUME LastMoves, Taking' = {} PROVE Holds(current)'
    <3>1. LastIs(t)
      BY <2>3, <2>6 DEF LastIs
    <3>2. Holds(temp)
      BY <1>1, <2>1, <2>6, <3>1 DEF LastMoves
    <3> QED BY <2>1, <3>2 DEF Holds, Agrees
  <2> QED BY <2>1, <2>4, <2>5, <2>6 DEF SnapInv, ReadAgrees
<1>2. CASE ~ (temp.state # "missing" /\ \A u \in Thread : work[u].step # "filling")
  BY <1>2 DEF Replace, SnapInv
<1> QED BY <1>1, <1>2

\* A repair that finds the last snapshot and no command under way brings
\* nothing back: the templates it does not know were in no snapshot.
LEMMA SnapApply == ASSUME HistInv, SnapInv, Apply PROVE SnapInv'
<1>1. CASE Snapshotting # {} \/ current # Whole(repair.rows) \/ missed
  BY <1>1 DEF Apply, SnapInv
<1>2. CASE Snapshotting = {} /\ current = Whole(repair.rows) /\ ~ missed
  <2>1. work' = work /\ current' = current
    BY DEF Apply, files
  <2>2. Snapshotting' = {} /\ Taking' = Taking
    BY <1>2, <2>1 DEF Snapshotting, Taking
  <2>3. ReadAgrees' /\ LastMoves'
    BY <2>2 DEF ReadAgrees, LastMoves, Snapshotting
  <2>4. ASSUME Taking = {} PROVE Holds(current)'
    <3>1. Holds(current)
      BY <1>2, <2>4 DEF SnapInv
    <3>2. current.rows = repair.rows /\ current.state = "whole"
      BY <1>2 DEF Whole
    <3>3. ASSUME NEW s \in Schedules PROVE current'.rows[s].row = template'[s]
      <4>1. template'[s] = IF Known(s) THEN repair.rows[s].row ELSE template[s]
        BY DEF Apply
      <4> QED BY <2>1, <3>1, <3>2, <4>1 DEF Holds, Agrees
    <3> QED BY <2>1, <3>2, <3>3 DEF Holds, Agrees
  <2> QED BY <2>2, <2>3, <2>4 DEF SnapInv
<1> QED BY <1>1, <1>2

LEMMA SnapStop == ASSUME HistInv, SnapInv, Stop PROVE SnapInv'
<1>1. \A t \in Thread : work'[t].step = "idle"
  BY IdleStep DEF Stop
<1>2. Taking' = {} /\ Snapshotting' = {}
  BY <1>1 DEF Taking, Snapshotting
<1>3. CASE missed \/ Taking # {}
  BY <1>3 DEF Stop, SnapInv, Taking, Snapshotting
<1>4. CASE ~ missed /\ Taking = {}
  <2>1. Holds(current)
    BY <1>4 DEF SnapInv
  <2>2. Holds(current)'
    BY <2>1 DEF Stop, store, files, Holds, Agrees
  <2> QED BY <1>1, <1>2, <2>2 DEF SnapInv, ReadAgrees, LastMoves
<1> QED BY <1>3, <1>4

LEMMA SnapNext == HistInv /\ SnapInv /\ [Next]_vars => SnapInv'
<1> SUFFICES ASSUME HistInv, SnapInv, [Next]_vars PROVE SnapInv'
  OBVIOUS
<1>1. ASSUME NEW t \in Thread,
             \/ Check(t) \/ SetStatus(t)
             \/ \E s \in Schedules, op \in Status \cup {"update"} : Command(t, s, op)
             \/ \E c \in Configs : Update(t, c)
             \/ \E s \in Schedules, c \in Configs : Create(t, s, c)
      PROVE  SnapInv'
  BY <1>1, SnapCommands
<1>2. ASSUME NEW t \in Thread, ReadRows(t) \/ OpenTemp(t) \/ FillTemp(t) \/ Replace(t)
      PROVE  SnapInv'
  BY <1>2, SnapReadRows, SnapOpenTemp, SnapFillTemp, SnapReplace
<1>3. CASE Discover \/ Load \/ Revalidate \/ Start \/ \E s \in Schedules : Damage(s)
  <2>1. work' = work /\ missed' = missed /\ UNCHANGED <<template, files>>
    BY <1>3 DEF Discover, Load, Revalidate, Start, Damage, store
  <2> QED BY <2>1, SnapKept
<1>4. CASE Apply
  BY <1>4, SnapApply
<1>5. CASE Stop
  BY <1>5, SnapStop
<1>6. CASE UNCHANGED vars
  <2>1. work' = work /\ missed' = missed /\ UNCHANGED <<template, files>>
    BY <1>6 DEF vars, files
  <2> QED BY <2>1, SnapKept
<1> QED BY <1>1, <1>2, <1>3, <1>4, <1>5, <1>6 DEF Next

(* The snapshot a repair would read is that of the registry, whatever the
   threads, stops and repairs, unless one was lost. *)
THEOREM SnapshotKeepsUp == Spec => []SnapshotCurrent
<1>1. SnapInv => SnapshotCurrent
  BY DEF SnapInv, SnapshotCurrent, Taking, Holds, Agrees
<1>2. Spec => []HistInv
  BY HistInit, HistNext, PTL DEF Spec
<1>3. Spec => []SnapInv
  BY <1>2, SnapInit, SnapNext, PTL DEF Spec
<1> QED BY <1>1, <1>3, PTL

(***************************************************************************)
(* What a repair restores.  A damaged configuration in a snapshot that is  *)
(* not outdated is damaged in the registry too: a repair damages nothing.  *)
(***************************************************************************)

DamageTold(rows) ==
  \A s \in Schedules : rows[s].row.version > 0 /\ rows[s].config = Damaged =>
    revisions[s][rows[s].row.revision] = Damaged

HealInv ==
  missed \/
    /\ \A t \in Snapshotting : DamageTold(work[t].rows)
    /\ (\E t \in Thread : work[t].step \in {"filling", "replacing"}) => DamageTold(temp.rows)
    /\ DamageTold(current.rows)

\* What is damaged stays so.
StaysDamaged ==
  \A s \in Schedules : \A r \in 1..Len(revisions[s]) :
    revisions[s][r] = Damaged => revisions'[s][r] = Damaged

LEMMA OnlyRepairsHeal == ASSUME HistInv, [Next]_vars, ~ Apply PROVE StaysDamaged
<1>0. \A s \in Schedules : revisions[s] \in Seq(Config0)
  BY DEF HistInv, TypeOK, Config0
<1>1. CASE revisions' = revisions
  BY <1>1 DEF StaysDamaged
<1>2. ASSUME NEW t \in Thread, NEW c \in Configs, Update(t, c) PROVE StaysDamaged
  <2> DEFINE s == work[t].schedule
             n == work[t].revision + 1
  <2>1. CASE ~ Free(s, n)
    BY <1>1, <1>2, <2>1 DEF Update, store
  <2>2. CASE Free(s, n)
    <3>1. s \in Schedules /\ DOMAIN revisions = Schedules
      BY DEF HistInv, TypeOK, WorkType
    <3>2. n = Len(revisions[s]) + 1 /\ Len(revisions[s]) \in Nat
      BY <1>0, <2>2, <3>1 DEF Free
    <3>3. Recorded(revisions[s], n, c) = Append(revisions[s], c)
      BY <3>2 DEF Recorded
    <3>4. revisions' = [revisions EXCEPT ![s] = Append(revisions[s], c)]
      BY <1>2, <2>2, <3>3 DEF Update
    <3> QED BY <1>0, <3>1, <3>4 DEF StaysDamaged
  <2> QED BY <2>1, <2>2
<1>3. ASSUME NEW t \in Thread, NEW s \in Schedules, NEW c \in Configs, Create(t, s, c)
      PROVE  StaysDamaged
  <2>1. revisions[s] = <<>> /\ DOMAIN revisions = Schedules
    BY <1>3 DEF Create, HistInv, Filed, TypeOK
  <2>2. revisions' = [revisions EXCEPT ![s] = <<c>>]
    BY <1>3 DEF Create
  <2> QED BY <2>1, <2>2 DEF StaysDamaged
<1>4. ASSUME NEW s \in Schedules, Damage(s) PROVE StaysDamaged
  <2>1. revisions' = [revisions EXCEPT ![s] = [revisions[s] EXCEPT ![template[s].revision] = Damaged]]
    BY <1>4 DEF Damage
  <2>2. DOMAIN revisions = Schedules
    BY DEF HistInv, TypeOK
  <2> QED BY <1>0, <2>1, <2>2 DEF StaysDamaged
<1> QED
  BY <1>1, <1>2, <1>3, <1>4
  DEF Next, vars, store, Check, SetStatus, Command, ReadRows, OpenTemp, FillTemp, Replace,
      Discover, Load, Revalidate, Stop, Start

LEMMA ToldKept ==
  ASSUME StaysDamaged, NEW rows, RowsFrom(rows), DamageTold(rows)
  PROVE  \A s \in Schedules : rows[s].row.version > 0 /\ rows[s].config = Damaged =>
           revisions'[s][rows[s].row.revision] = Damaged
BY DEF StaysDamaged, RowsFrom, DamageTold

\* A step that leaves the files and the threads that take a snapshot as they are.
LEMMA HealKept ==
  ASSUME HistInv, HealInv, StaysDamaged, missed => missed', UNCHANGED files,
         \A t \in Thread : work'[t] = work[t]
                             \/ work'[t].step \notin {"opening", "filling", "replacing"}
  PROVE  HealInv'
<1> SUFFICES ASSUME ~ missed' PROVE HealInv'
  BY DEF HealInv
<1>1. /\ \A t \in Snapshotting : DamageTold(work[t].rows)
      /\ (\E t \in Thread : work[t].step \in {"filling", "replacing"}) => DamageTold(temp.rows)
      /\ DamageTold(current.rows)
  BY DEF HealInv
<1>2. RowsFrom(current.rows) /\ RowsFrom(temp.rows) /\ \A t \in Thread : RowsFrom(work[t].rows)
  BY DEF HistInv, Copied
<1>3. \A t \in Snapshotting' : t \in Snapshotting /\ work'[t] = work[t]
  BY DEF Snapshotting
<1>4. ASSUME NEW t \in Snapshotting' PROVE DamageTold(work[t].rows)'
  <2>1. t \in Snapshotting /\ work'[t] = work[t] /\ RowsFrom(work[t].rows) /\ DamageTold(work[t].rows)
    BY <1>1, <1>2, <1>3 DEF Snapshotting
  <2> QED BY <2>1, ToldKept DEF DamageTold
<1>5. ASSUME NEW t \in Thread, work'[t].step \in {"filling", "replacing"} PROVE DamageTold(temp.rows)'
  <2>1. temp' = temp /\ DamageTold(temp.rows)
    BY <1>1, <1>5 DEF files
  <2> QED BY <1>2, <2>1, ToldKept DEF DamageTold
<1>6. DamageTold(current.rows)'
  BY <1>1, <1>2, ToldKept DEF DamageTold, files
<1> QED BY <1>4, <1>5, <1>6 DEF HealInv

LEMMA HealCommands ==
  ASSUME HistInv, HealInv, StaysDamaged, NEW t \in Thread,
         \/ Check(t) \/ SetStatus(t)
         \/ \E s \in Schedules, op \in Status \cup {"update"} : Command(t, s, op)
         \/ \E c \in Configs : Update(t, c)
         \/ \E s \in Schedules, c \in Configs : Create(t, s, c)
  PROVE  HealInv'
<1>1. /\ work[t] \in WorkType /\ DOMAIN work = Thread /\ Idle \in WorkType
  BY IdleTyped DEF HistInv, TypeOK
<1>2. \A n : [work[t] EXCEPT !.step = "writing", !.revision = n].step = "writing"
  BY <1>1 DEF WorkType
<1>3. /\ work'[t].step \in {"idle", "writing", "reading", "checking"}
      /\ \A u \in Thread \ {t} : work'[u] = work[u]
  <2>1. CASE Check(t)
    <3>1. CASE SeenVersion(t)
      <4> DEFINE n == template[work[t].schedule].revision
                 r == [work[t] EXCEPT !.step = "writing", !.revision = n]
      <4>1. work' = [work EXCEPT ![t] = r]
        BY <2>1, <3>1 DEF Check
      <4>2. r.step = "writing"
        BY <1>2
      <4> HIDE DEF r
      <4> QED BY <1>1, <4>1, <4>2
    <3>2. CASE ~ SeenVersion(t)
      BY <1>1, <2>1, <3>2, IdleStep DEF Check, Ends
    <3> QED BY <3>1, <3>2
  <2>2. CASE \E s \in Schedules, op \in Status \cup {"update"} : Command(t, s, op)
    <3> PICK s \in Schedules, op \in Status \cup {"update"} : Command(t, s, op)
      BY <2>2
    <3> QED BY IdleTyped DEF Command, WorkType, HistInv, TypeOK
  <2>3. CASE SetStatus(t) \/ \E c \in Configs : Update(t, c)
    BY <1>1, <2>3, IdleStep DEF SetStatus, AfterStatus, Update, Written, Ends
  <2>4. CASE \E s \in Schedules, c \in Configs : Create(t, s, c)
    BY <1>1, <2>4, IdleStep DEF Create, Written
  <2> QED BY <2>1, <2>2, <2>3, <2>4
<1>4. (missed => missed') /\ UNCHANGED files
  BY DEF Check, SetStatus, Command, Update, Create, Overlaps
<1>5. \A u \in Thread : work'[u] = work[u] \/ work'[u].step \notin {"opening", "filling", "replacing"}
  BY <1>3
<1> QED BY <1>4, <1>5, HealKept

LEMMA HealSnapshot ==
  ASSUME HistInv, HealInv, NEW t \in Thread,
         ReadRows(t) \/ OpenTemp(t) \/ FillTemp(t) \/ Replace(t)
  PROVE  HealInv'
<1> SUFFICES ASSUME ~ missed' PROVE HealInv'
  BY DEF HealInv
<1>0. /\ work[t] \in WorkType /\ DOMAIN work = Thread
      /\ ~ missed /\ revisions' = revisions /\ template' = template
  BY DEF HistInv, TypeOK, ReadRows, OpenTemp, FillTemp, Replace, store
<1>1. /\ \A u \in Snapshotting : DamageTold(work[u].rows)
      /\ (\E u \in Thread : work[u].step \in {"filling", "replacing"}) => DamageTold(temp.rows)
      /\ DamageTold(current.rows)
  BY <1>0 DEF HealInv
<1>2. DamageTold(NoRows)
  BY DEF DamageTold, NoRows, Absent
<1>3. CASE ReadRows(t)
  <2>1. /\ work'[t].step = "opening" /\ work'[t].rows = Rows
        /\ \A u \in Thread \ {t} : work'[u] = work[u]
    BY <1>0, <1>3 DEF ReadRows, WorkType
  <2>2. DamageTold(Rows)
    BY DEF DamageTold, Rows, Exists, Config
  <2>3. \A u \in Snapshotting' : u = t \/ (u \in Snapshotting /\ work'[u] = work[u])
    BY <2>1 DEF Snapshotting
  <2>4. temp' = temp /\ current' = current
    BY <1>3 DEF ReadRows, files
  <2>5. ASSUME NEW u \in Thread, work'[u].step \in {"filling", "replacing"}
        PROVE  work[u].step \in {"filling", "replacing"}
    BY <2>1, <2>5
  <2>6. \A u \in Snapshotting' : DamageTold(work'[u].rows)
    BY <1>1, <2>1, <2>2, <2>3
  <2> QED BY <1>0, <1>1, <2>4, <2>5, <2>6 DEF HealInv, DamageTold
<1>4. ASSUME NEW step \in {"filling", "replacing"}, Goes(t, step), t \in Snapshotting
      PROVE  /\ Snapshotting' \subseteq Snapshotting
             /\ \A u \in Snapshotting' : DamageTold(work'[u].rows)
  <2>1. /\ work'[t].rows = work[t].rows /\ \A u \in Thread \ {t} : work'[u] = work[u]
    BY <1>0, <1>4 DEF Goes, WorkType
  <2> QED BY <1>1, <1>4, <2>1 DEF Snapshotting
<1>5. CASE OpenTemp(t)
  <2>1. Goes(t, "filling") /\ t \in Snapshotting /\ temp'.rows = NoRows /\ current' = current
    BY <1>5 DEF OpenTemp, At, Snapshotting, Torn
  <2>2. \A u \in Snapshotting' : DamageTold(work'[u].rows)
    BY <1>4, <2>1
  <2> QED BY <1>0, <1>1, <1>2, <2>1, <2>2 DEF HealInv, DamageTold
<1>6. CASE FillTemp(t)
  <2>1. Goes(t, "replacing") /\ t \in Snapshotting /\ current' = current
    BY <1>6 DEF FillTemp, At, Snapshotting
  <2>2. \A u \in Snapshotting' : DamageTold(work'[u].rows)
    BY <1>4, <2>1
  <2>3. temp'.rows \in {work[t].rows, NoRows}
    BY <1>6 DEF FillTemp, Whole, Torn
  <2>4. DamageTold(temp'.rows)
    BY <1>1, <1>2, <2>1, <2>3
  <2> QED BY <1>0, <1>1, <2>1, <2>2, <2>4 DEF HealInv, DamageTold
<1>7. CASE Replace(t)
  <2>1. /\ current' = temp /\ temp' = Missing /\ work[t].step = "replacing" /\ Ends(t)
    BY <1>0, <1>7 DEF Replace, At
  <2>2. DamageTold(temp.rows) /\ temp'.rows = NoRows
    BY <1>1, <2>1 DEF Missing
  <2>3. work'[t].step = "idle" /\ \A u \in Thread \ {t} : work'[u] = work[u]
    BY <1>0, <2>1, IdleStep DEF Ends
  <2>4. \A u \in Snapshotting' : u \in Snapshotting /\ work'[u] = work[u]
    BY <2>3 DEF Snapshotting
  <2>5. \A u \in Snapshotting' : DamageTold(work'[u].rows)
    BY <1>1, <2>4
  <2> QED BY <1>0, <1>2, <2>1, <2>2, <2>5 DEF HealInv, DamageTold
<1> QED BY <1>3, <1>5, <1>6, <1>7

\* What a repair writes, the snapshot it was read from.
LEMMA Repaired ==
  ASSUME HistInv, Apply, NEW s \in Schedules, Known(s)
  PROVE  /\ template'[s] = repair.rows[s].row
         /\ repair.rows[s].row.revision \in 1..Len(revisions[s])
         /\ repair.rows[s].config \in {original[s][repair.rows[s].row.revision], Damaged}
         /\ revisions'[s] = [revisions[s] EXCEPT ![repair.rows[s].row.revision] = repair.rows[s].config]
<1> DEFINE n == repair.rows[s].row.revision
           c == repair.rows[s].config
<1>1. n \in 1..Len(revisions[s]) /\ c \in {original[s][n], Damaged} /\ Len(revisions[s]) \in Nat
  BY DEF HistInv, TypeOK, Copied, RowsFrom, Known
<1>2. Recorded(revisions[s], n, c) = [revisions[s] EXCEPT ![n] = c]
  BY <1>1 DEF Recorded
<1>3. template'[s] = repair.rows[s].row /\ revisions'[s] = Recorded(revisions[s], n, c)
  BY DEF Apply
<1> QED BY <1>1, <1>2, <1>3

LEMMA HealApply == ASSUME HistInv, HealInv, Apply PROVE HealInv'
<1> SUFFICES ASSUME ~ missed' PROVE HealInv'
  BY DEF HealInv
<1>1. /\ Snapshotting = {} /\ current = Whole(repair.rows) /\ ~ missed
      /\ work' = work /\ current' = current
  BY DEF Apply, files, HistInv, TypeOK
<1>2. Snapshotting' = {}
  BY <1>1 DEF Snapshotting
<1>3. ASSUME NEW s \in Schedules, repair.rows[s].row.version > 0, repair.rows[s].config = Damaged
      PROVE  revisions'[s][repair.rows[s].row.revision] = Damaged
  <2>1. Known(s) /\ revisions[s] \in Seq(Config0)
    BY <1>3 DEF Known, HistInv, TypeOK, Config0
  <2>2. /\ repair.rows[s].row.revision \in 1..Len(revisions[s])
        /\ revisions'[s] = [revisions[s] EXCEPT ![repair.rows[s].row.revision] = repair.rows[s].config]
    BY <2>1, Repaired
  <2> QED BY <1>3, <2>1, <2>2
<1>4. DamageTold(current.rows)'
  BY <1>1, <1>3 DEF DamageTold, Whole
<1> QED BY <1>2, <1>4 DEF HealInv, Snapshotting

LEMMA HealNext == HistInv /\ HealInv /\ [Next]_vars => HealInv'
<1> SUFFICES ASSUME HistInv, HealInv, [Next]_vars PROVE HealInv'
  OBVIOUS
<1>1. CASE Apply
  BY <1>1, HealApply
<1>2. CASE ~ Apply
  <2>0. StaysDamaged
    BY <1>2, OnlyRepairsHeal
  <2>1. ASSUME NEW t \in Thread,
               \/ Check(t) \/ SetStatus(t)
               \/ \E s \in Schedules, op \in Status \cup {"update"} : Command(t, s, op)
               \/ \E c \in Configs : Update(t, c)
               \/ \E s \in Schedules, c \in Configs : Create(t, s, c)
        PROVE  HealInv'
    BY <2>0, <2>1, HealCommands
  <2>2. ASSUME NEW t \in Thread, ReadRows(t) \/ OpenTemp(t) \/ FillTemp(t) \/ Replace(t)
        PROVE  HealInv'
    BY <2>2, HealSnapshot
  <2>3. CASE \/ Discover \/ Load \/ Revalidate \/ Start \/ (\E s \in Schedules : Damage(s))
             \/ UNCHANGED vars
    <3>1. work' = work /\ missed' = missed /\ UNCHANGED files
      BY <2>3 DEF Discover, Load, Revalidate, Start, Damage, vars, files
    <3> QED BY <2>0, <3>1, HealKept
  <2>4. CASE Stop
    <3>1. /\ \A t \in Thread : work'[t].step = "idle"
          /\ missed => missed'
          /\ UNCHANGED files
      BY <2>4, IdleStep DEF Stop
    <3> QED BY <2>0, <3>1, HealKept
  <2> QED BY <1>2, <2>1, <2>2, <2>3, <2>4 DEF Next
<1> QED BY <1>1, <1>2

LEMMA HealInit == Init => HealInv
<1> SUFFICES ASSUME Init PROVE HealInv
  OBVIOUS
<1>1. \A t \in Thread : work[t].step = "idle"
  BY IdleStep DEF Init
<1>2. current.rows = Rows
  BY DEF Init, Whole
<1>3. DamageTold(current.rows)
  BY <1>2 DEF DamageTold, Rows, Exists, Config
<1> QED BY <1>1, <1>3 DEF HealInv, Snapshotting

(* Unless a snapshot was lost, a repair brings back what was accepted and
   takes nothing back that was committed since, beside any commands. *)
THEOREM RepairsRestore == Spec => RepairRestores
<1>1. HistInv /\ SnapInv /\ HealInv /\ [Next]_vars =>
        [Apply /\ ~missed' =>
           /\ \A s \in Schedules : \A r \in 1..Len(revisions[s]) :
                revisions'[s][r] \in {revisions[s][r], original[s][r]}
           /\ (\A t \in Thread : work[t].step # "reading") => template' = template]_vars
  <2> SUFFICES ASSUME HistInv, SnapInv, HealInv, Apply, ~ missed'
               PROVE  /\ \A s \in Schedules : \A r \in 1..Len(revisions[s]) :
                           revisions'[s][r] \in {revisions[s][r], original[s][r]}
                      /\ (\A t \in Thread : work[t].step # "reading") => template' = template
    OBVIOUS
  <2>1. Snapshotting = {} /\ current = Whole(repair.rows) /\ ~ missed
    BY DEF Apply, HistInv, TypeOK
  <2>2. ASSUME NEW s \in Schedules, NEW r \in 1..Len(revisions[s])
        PROVE  revisions'[s][r] \in {revisions[s][r], original[s][r]}
    <3>1. CASE ~ Known(s)
      BY <3>1 DEF Apply
    <3>2. CASE Known(s)
      <4> DEFINE n == repair.rows[s].row.revision
                 c == repair.rows[s].config
      <4>1. /\ n \in 1..Len(revisions[s]) /\ c \in {original[s][n], Damaged}
            /\ revisions'[s] = [revisions[s] EXCEPT ![n] = c]
            /\ revisions[s] \in Seq(Config0)
        BY <3>2, Repaired DEF HistInv, TypeOK, Config0
      <4>2. c = Damaged => revisions[s][n] = Damaged
        BY <2>1, <3>2 DEF HealInv, DamageTold, Whole, Known
      <4> QED BY <4>1, <4>2
    <3> QED BY <3>1, <3>2
  <2>3. ASSUME \A t \in Thread : work[t].step # "reading" PROVE template' = template
    <3>1. Taking = {}
      BY <2>1, <2>3 DEF Taking, Snapshotting
    <3>2. Agrees(repair.rows)
      BY <2>1, <3>1 DEF SnapInv, Holds, Whole
    <3>3. \A s \in Schedules : template'[s] = template[s]
      BY <3>2 DEF Apply, Agrees
    <3> QED BY <3>3 DEF Apply, HistInv, TypeOK
  <2> QED BY <2>2, <2>3
<1>2. Spec => []HistInv
  BY HistInit, HistNext, PTL DEF Spec
<1>3. Spec => []SnapInv
  BY <1>2, SnapInit, SnapNext, PTL DEF Spec
<1>4. Spec => []HealInv
  BY <1>2, HealInit, HealNext, PTL DEF Spec
<1> QED BY <1>1, <1>2, <1>3, <1>4, PTL DEF Spec, RepairRestores
=============================================================================
