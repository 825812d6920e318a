-------------------------------- MODULE Reports --------------------------------
(***************************************************************************)
(* The reports a player files in a pool and their way to the review queue, *)
(* moderation_reports in D1: sent when they are filed, and brought again   *)
(* by the daily maintenance and by the operator's backfill when that       *)
(* failed.  The operator exports the queue page by page while all of this  *)
(* goes on (handlePeerSafety, centralizeModerationReports and scheduled of *)
(* index.ts, safety_authority.ts, safety_operator.mjs).                    *)
(***************************************************************************)
EXTENDS Integers, FiniteSets

CONSTANTS
  Reasons,     \* what one player reports another for, in id order
  DailyLimit,  \* unique reports of one day: 10 in the code
  PageSize,    \* reports in one page of a listing: 100 in the code
  DayLength,   \* instants of a day
  Retention,   \* moderationReportRetentionMs, in instants
  Horizon,     \* bound: the last instant
  Files,       \* bound: reports in the pool
  Handlers,    \* bound: reports being handled at the same time
  ReportFaults,\* bound: failed calls and evictions
  NoTime       \* undefined

(* A report is of a day and for a reason; a cursor is the time and the id of
   the last row that was read.                                               *)
Cursors == Nat \X (Nat \X Nat)

ASSUME ReportsAssumption ==
  /\ Reasons \subseteq Nat \ {0} /\ IsFiniteSet(Reasons)
  /\ DailyLimit \in Nat /\ PageSize \in 1 .. 500
  /\ DayLength \in Nat \ {0} /\ Retention \in Nat /\ Retention >= DayLength
  /\ Horizon \in Nat /\ Files \in Nat /\ Handlers \in Nat
  /\ ReportFaults \in Nat
  /\ NoTime \notin Nat /\ NoTime \notin Cursors

VARIABLES
  now,          \* Date.now()
  shard,        \* player_reports of the pool: created_at of each
  central,      \* moderation_reports of D1: created_at of each
  sending,      \* reports whose handler waits, for the hash or for D1
  sweep,        \* the run of the maintenance and that of the backfill
  export,       \* the operator's export of the queue
  reportFaults  \* failures so far

reportVars == <<now, shard, central, sending, sweep, export, reportFaults>>

-----------------------------------------------------------------------------
(* Rows.  The reporter reports another player for a reason on a day, which is
   what moderationReportId hashes.                                           *)

Day(t) == t \div DayLength
ReportIds == (0 .. Day(Horizon)) \X Reasons

Pruned(t) == [id \in ReportIds |->
  IF shard[id] # NoTime /\ shard[id] < t - Retention THEN NoTime
  ELSE shard[id]]

UnderLimit(rows, day) ==
  Cardinality({id \in ReportIds: id[1] = day /\ rows[id] # NoTime})
    < DailyLimit

(* Listings are ordered by created_at and report_id. *)
IdBefore(a, b) == a[1] < b[1] \/ (a[1] = b[1] /\ a[2] < b[2])

Sooner(rows, a, b) ==
  rows[a] < rows[b] \/ (rows[a] = rows[b] /\ IdBefore(a, b))

AfterByTime(created, id, cursor) == created > cursor[1]

(* created_at > ? OR (created_at = ? AND report_id > ?) *)
After(created, id, cursor) ==
  \/ created > cursor[1]
  \/ created = cursor[1] /\ IdBefore(cursor[2], id)

Start == <<0, <<0, 0>> >>

FirstRows(rows, ids) ==
  {id \in ids: Cardinality({k \in ids: Sooner(rows, k, id)}) < PageSize}

LastRow(rows, ids) ==
  CHOOSE id \in ids: \A k \in ids: k = id \/ Sooner(rows, k, id)

(* Another page exists if one more row than a page was found. *)
NextCursor(rows, ids) ==
  LET page == FirstRows(rows, ids) IN
  IF ids # page THEN <<rows[LastRow(rows, page)], LastRow(rows, page)>>
  ELSE NoTime

-----------------------------------------------------------------------------
(* handlePeerSafety *)

(* Up to its first await: a known report goes to D1 with the time of its row, a
   new one waits for its hash.                                               *)
ReportAnew(reason) ==
  LET id == <<Day(now), reason>>
      rows == Pruned(now)
      known == rows[id] # NoTime
  IN /\ Cardinality(sending) < Handlers
     /\ Cardinality({k \in ReportIds: rows[k] # NoTime} \cup {id}) <= Files
     /\ shard' = rows
     /\ sending' = IF known \/ UnderLimit(rows, Day(now))
                   THEN sending \cup {[id |-> id, hashed |-> known,
                                      created |-> now]}
                   ELSE sending
     /\ UNCHANGED <<now, central, sweep, export, reportFaults>>

Report(reason) ==
  LET id == <<Day(now), reason>>
      rows == Pruned(now)
      known == rows[id] # NoTime
  IN /\ Cardinality(sending) < Handlers
     /\ Cardinality({k \in ReportIds: rows[k] # NoTime} \cup {id}) <= Files
     /\ shard' = rows
     /\ sending' = IF known \/ UnderLimit(rows, Day(now))
                   THEN sending \cup {[id |-> id, hashed |-> known,
                                      created |-> IF known THEN rows[id]
                                                  ELSE now]}
                   ELSE sending
     /\ UNCHANGED <<now, central, sweep, export, reportFaults>>

(* The row is inserted when the hash is there, with the time the handler began
   at.  A row that came meanwhile is a conflict, and the handler throws.      *)
ReportFiled(r) ==
  /\ ~r.hashed
  /\ IF shard[r.id] = NoTime
     THEN /\ shard' = [shard EXCEPT ![r.id] = r.created]
          /\ sending' = (sending \ {r}) \cup {[r EXCEPT !.hashed = TRUE]}
     ELSE /\ sending' = sending \ {r}
          /\ UNCHANGED shard
  /\ UNCHANGED <<now, central, sweep, export, reportFaults>>

(* recordModerationReport: INSERT OR IGNORE. *)
Recorded(id, created) ==
  [central EXCEPT ![id] = IF @ = NoTime THEN created ELSE @]

ReportSent(r) ==
  /\ r.hashed
  /\ central' = Recorded(r.id, r.created)
  /\ sending' = sending \ {r}
  /\ UNCHANGED <<now, shard, sweep, export, reportFaults>>

(* The catch of the handler: the shard copy is left to the maintenance. *)
ReportDeferred(r) ==
  /\ r.hashed /\ reportFaults < ReportFaults
  /\ sending' = sending \ {r}
  /\ reportFaults' = reportFaults + 1
  /\ UNCHANGED <<now, shard, central, sweep, export>>

(* The pool is evicted: sockets hibernate, waiting handlers are lost. *)
Evict ==
  /\ sending # {} /\ reportFaults < ReportFaults
  /\ sending' = {}
  /\ reportFaults' = reportFaults + 1
  /\ UNCHANGED <<now, shard, central, sweep, export>>

-----------------------------------------------------------------------------
(* The maintenance (scheduled), and the operator's backfill, which reads the
   same pages without deleting expired rows first.  Each may run while the
   other does.                                                               *)

Runs == {"scheduled", "operator"}
NoRun == [running |-> FALSE, cursor |-> NoTime, page |-> {}]
FirstPage == [running |-> TRUE, cursor |-> Start, page |-> {}]

(* pruneExpiredModerationReports; an export that runs no longer owes them. *)
Kept == {id \in ReportIds: central[id] # NoTime
                           /\ central[id] + Retention > now}

PruneExpired ==
  /\ central' = [id \in ReportIds |-> IF id \in Kept THEN central[id]
                                      ELSE NoTime]
  /\ export' = [export EXCEPT !.owed = @ \cap Kept]

StartSweep ==
  /\ ~sweep["scheduled"].running
  /\ PruneExpired
  /\ sweep' = [sweep EXCEPT !["scheduled"] = FirstPage]
  /\ UNCHANGED <<now, shard, sending, reportFaults>>

(* The operator's program does one thing at a time. *)
Backfill ==
  /\ ~sweep["operator"].running /\ export.stage # "running"
  /\ sweep' = [sweep EXCEPT !["operator"] = FirstPage]
  /\ UNCHANGED <<now, shard, central, sending, export, reportFaults>>

Rows(cursor) ==
  {id \in ReportIds: /\ shard[id] # NoTime /\ shard[id] >= now - Retention
                     /\ After(shard[id], id, cursor)}

(* centralizeModerationReports reads a page; without a next cursor it is the
   last.                                                                     *)
ReadPage(w) ==
  LET rows == Rows(sweep[w].cursor) IN
  /\ sweep[w].running /\ sweep[w].page = {} /\ sweep[w].cursor # NoTime
  /\ sweep' = [sweep EXCEPT
       ![w].page = {[id |-> id, created |-> shard[id]]:
                      id \in FirstRows(shard, rows)},
       ![w].cursor = NextCursor(shard, rows)]
  /\ UNCHANGED <<now, shard, central, sending, export, reportFaults>>

(* Each row of it waits for D1. *)
SweepRow(w) ==
  \E r \in sweep[w].page:
    /\ \A k \in sweep[w].page:
         k = r \/ k.created > r.created
               \/ (k.created = r.created /\ IdBefore(r.id, k.id))
    /\ central' = Recorded(r.id, r.created)
    /\ sweep' = [sweep EXCEPT ![w].page = @ \ {r}]
    /\ UNCHANGED <<now, shard, sending, export, reportFaults>>

EndSweep(w) ==
  /\ sweep[w].running /\ sweep[w].page = {} /\ sweep[w].cursor = NoTime
  /\ sweep' = [sweep EXCEPT ![w] = NoRun]
  /\ UNCHANGED <<now, shard, central, sending, export, reportFaults>>

(* An error ends the run; the next one starts from the beginning. *)
SweepFails(w) ==
  /\ sweep[w].running /\ reportFaults < ReportFaults
  /\ sweep' = [sweep EXCEPT ![w] = NoRun]
  /\ reportFaults' = reportFaults + 1
  /\ UNCHANGED <<now, shard, central, sending, export>>

(* Operator.pruneReports *)
PruneReports ==
  /\ PruneExpired
  /\ UNCHANGED <<now, shard, sending, sweep, reportFaults>>

-----------------------------------------------------------------------------
(* export-reports.  The field owed is what has been in the queue since the
   export began and has not been read.                                       *)

NoExport == [stage |-> "none", cursor |-> NoTime, owed |-> {}]

StartExport ==
  /\ export.stage # "running" /\ ~sweep["operator"].running
  /\ export' = [stage |-> "running", cursor |-> Start,
                owed |-> {id \in ReportIds: central[id] # NoTime}]
  /\ UNCHANGED <<now, shard, central, sending, sweep, reportFaults>>

Queued(cursor) ==
  {id \in ReportIds: central[id] # NoTime /\ After(central[id], id, cursor)}

(* listModerationReports; the artifact is written after the last page. *)
ListPage ==
  LET rows == Queued(export.cursor)
      next == NextCursor(central, rows)
  IN /\ export.stage = "running"
     /\ export' = [export EXCEPT
          !.stage = IF next = NoTime THEN "written" ELSE @,
          !.cursor = next,
          !.owed = @ \ FirstRows(central, rows)]
     /\ UNCHANGED <<now, shard, central, sending, sweep, reportFaults>>

(* The run dies, or its artifact is put away. *)
EndExport ==
  /\ export # NoExport
  /\ export' = NoExport
  /\ UNCHANGED <<now, shard, central, sending, sweep, reportFaults>>

(* A hash takes no noticeable part of an instant. *)
ReportTick ==
  /\ now < Horizon /\ \A r \in sending: r.hashed
  /\ now' = now + 1
  /\ UNCHANGED <<shard, central, sending, sweep, export, reportFaults>>

-----------------------------------------------------------------------------
ReportInit ==
  /\ now = 0 /\ reportFaults = 0
  /\ shard = [id \in ReportIds |-> NoTime]
  /\ central = [id \in ReportIds |-> NoTime]
  /\ sending = {}
  /\ sweep = [w \in Runs |-> NoRun]
  /\ export = NoExport

SweepStep(w) == ReadPage(w) \/ SweepRow(w) \/ EndSweep(w)
Maintenance == StartSweep \/ SweepStep("scheduled")

ReportNext ==
  \/ ReportTick
  \/ \E reason \in Reasons: Report(reason)
  \/ \E r \in sending: ReportFiled(r) \/ ReportSent(r) \/ ReportDeferred(r)
  \/ Evict
  \/ Maintenance \/ Backfill \/ SweepStep("operator")
  \/ \E w \in Runs: SweepFails(w)
  \/ PruneReports \/ StartExport \/ ListPage \/ EndExport

-----------------------------------------------------------------------------
(* The review queue has the time a report was first filed at, whoever sent it:
   the handler, the handler of the same report made again, or the maintenance,
   before or after a failure.  Its retention counts from there (index.ts
   2199-2237).                                                               *)
CentralFaithful ==
  \A id \in ReportIds:
    central[id] # NoTime /\ shard[id] # NoTime => central[id] = shard[id]

(* A retained report is in the review queue, and an expired one is not.  On
   the last instant of its retention it may be either.                       *)
Collected ==
  \A id \in ReportIds:
    /\ shard[id] # NoTime /\ shard[id] + Retention > now
         => central[id] # NoTime
    /\ central[id] # NoTime => central[id] + Retention >= now

(* However the first copies of the reports fared and whenever new ones come,
   the maintenance brings the review queue up to date again and again: every
   retained report arrives, every expired one leaves (index.ts 290-311,
   2577-2654).                                                               *)
ReportsArriveAndExpire == []<>Collected

(* An export has every report that was in the queue from its beginning to its
   end, although others arrive and expire between its pages, some of them older
   than what it has already read (safety_authority.ts 335-373,
   safety_operator.mjs 77-88).                                               *)
ExportComplete == export.stage = "written" => export.owed = {}

=============================================================================
