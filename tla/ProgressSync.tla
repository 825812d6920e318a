----------------------------- MODULE ProgressSync -----------------------------
(***************************************************************************)
(* Cloud backup of one player's progress (ProgressSyncService with its     *)
(* planner, assessment, checkpoint store and Firestore repository): each   *)
(* device saves locally first and reconciles with one revisioned cloud     *)
(* document.  A step runs from one await to the next, so saving, restarts, *)
(* other devices and the player act while an answer is awaited.            *)
(***************************************************************************)
EXTENDS Naturals, Sequences, FiniteSets

CONSTANTS
  Devices,  \* installations signed in to the same protected identity
  Plays,    \* gameplay events; the content of a save is a set of them
  Choices,  \* bound: cloud revisions after which no device is kept by choice
  Faults,   \* bound: failures, restarts and interruptions of one behaviour
  None      \* null

ASSUME SyncAssumption ==
  /\ Choices \in Nat /\ Faults \in Nat
  /\ None \notin Nat /\ \A content \in SUBSET Plays: content # None

VARIABLES
  cloud,       \* the contents the cloud document has had, by revision
  game,        \* the state GameService holds in memory
  saved,       \* the save on the device
  checkpoint,  \* the stored ProgressSyncCheckpoint: the last common ancestor
  service,     \* flags of the ProgressSyncService of each device
  task,        \* its one running operation, suspended at an await
  faults       \* how many faults there were (a bound, no part of the program)

deviceVars == <<game, saved, checkpoint>>
vars == <<cloud, deviceVars, service, task, faults>>

-----------------------------------------------------------------------------
(* The data *)

Content == SUBSET Plays
Save == {None} \cup Content
Checkpoint == [save: Content, rev: Nat]
Latest == Len(cloud)                  \* revision 0: the document is missing

Operations == {"none", "synchronize", "prepareConflictReview",
               "keepThisDevice", "useCloud", "retrySyncConfirmation"}

Task == [op: Operations,
         at: {"start", "device", "cloud", "write", "reread", "applied",
              "pending", "record", "confirm"},
         local: Save, ancestor: Checkpoint \cup {None},
         rev: Nat,                    \* the revision its cloud read returned
         choice: Nat \cup {None},     \* the revision the player compared
         want: Checkpoint \cup {None},
         stale: BOOLEAN]              \* revision != _selectionRevision

NoTask == [op |-> "none", at |-> "start", local |-> None, ancestor |-> None,
           rev |-> 0, choice |-> None, want |-> None, stale |-> FALSE]

Service == [timer: BOOLEAN,           \* _timer is active
            rerun: BOOLEAN,           \* _rerunRequested
            conflict: BOOLEAN,        \* _conflict # null
            review: Nat \cup {None},  \* cloud revision of _activeReview
            issue: BOOLEAN,           \* _checkpointIssue
            asks: BOOLEAN,            \* state.status is conflict
            pending: Checkpoint \cup {None},
            held: BOOLEAN,            \* _localPersistencePaused
            import: {"no", "draining", "drained"}]

NewService == [timer |-> FALSE, rerun |-> FALSE, conflict |-> FALSE,
               review |-> None, issue |-> FALSE, asks |-> FALSE,
               pending |-> None, held |-> FALSE, import |-> "no"]

Busy(d) == task[d].op # "none"
Configured(s) == s.import = "no" /\ ~s.held

-----------------------------------------------------------------------------
(* ProgressSyncPlanner.plan, for a cloud read that is not unknown *)

NewestCloudPlan(local, ancestor, rev) ==
  CASE local = None /\ rev = 0 -> "noData"
    [] local # None /\ rev = 0 -> "uploadLocal"
    [] local = None /\ rev > 0 -> "downloadCloud"
    [] local # None /\ rev > 0 ->
         IF local = cloud[rev] THEN "alreadySynchronized"
         ELSE IF ancestor = None THEN "requirePlayerChoice"
         ELSE IF rev = ancestor.rev THEN "uploadLocal" ELSE "downloadCloud"

Plan(local, ancestor, rev) ==
  CASE local = None /\ rev = 0 -> "noData"
    [] local # None /\ rev = 0 -> "uploadLocal"
    [] local = None /\ rev > 0 -> "downloadCloud"
    [] local # None /\ rev > 0 ->
         IF local = cloud[rev] THEN "alreadySynchronized"
         ELSE IF ancestor = None THEN "requirePlayerChoice"
         ELSE IF local # ancestor.save /\ rev = ancestor.rev
              THEN "uploadLocal"
         ELSE IF local = ancestor.save /\ rev # ancestor.rev
              THEN "downloadCloud"
         ELSE "requirePlayerChoice"

-----------------------------------------------------------------------------
(* The service's flags *)

(* _showCheckpointIssue, _setConflict, _scheduleRetry *)
ShowIssue(s) == [s EXCEPT !.issue = TRUE, !.timer = FALSE, !.rerun = FALSE,
                          !.review = None, !.asks = FALSE]

ShowConflict(s) == [s EXCEPT !.asks = TRUE, !.timer = FALSE, !.rerun = FALSE]

NeverRetry(s) == s

ScheduleRetry(s) == [s EXCEPT !.timer = TRUE]

(* localProgressSaved *)
SavedOverChoice(s, busy) ==
  IF ~Configured(s) \/ s.issue \/ s.pending # None THEN s
  ELSE IF busy THEN [s EXCEPT !.rerun = TRUE]
  ELSE [s EXCEPT !.timer = TRUE]

ProgressSaved(s, busy) ==
  IF ~Configured(s) \/ s.issue \/ s.pending # None THEN s
  ELSE IF busy THEN [s EXCEPT !.rerun = TRUE]
  ELSE IF s.conflict THEN s
  ELSE [s EXCEPT !.timer = TRUE]

(* What every change of _selectionRevision also cancels. *)
Invalidated(s) == [s EXCEPT !.timer = FALSE, !.review = None]

(* setLocalPersistencePaused, when GameService.saveNeedsAttention changes *)
Held(s) == [Invalidated(s) EXCEPT !.held = TRUE, !.rerun = FALSE,
                                  !.asks = FALSE]

Released(s, busy) ==
  LET r == [Invalidated(s) EXCEPT !.held = FALSE, !.rerun = FALSE] IN
  IF r.issue \/ r.pending # None THEN ShowIssue(r)
  ELSE IF r.conflict THEN ShowConflict(r)
  ELSE ProgressSaved(r, busy)

(* _finishSynchronization *)
Finished(s) ==
  LET drained == [s EXCEPT !.rerun = FALSE,
                           !.import = IF @ = "no" THEN @ ELSE "drained"]
  IN IF s.issue /\ Configured(s) THEN ShowIssue(drained)
     ELSE IF s.rerun /\ Configured(s) /\ ~s.conflict
          THEN [drained EXCEPT !.timer = TRUE]
     ELSE drained

-----------------------------------------------------------------------------
(* Steps of an operation *)

Continue(d, t) == task' = [task EXCEPT ![d] = t]

Return(d, s) == /\ task' = [task EXCEPT ![d] = NoTask]
                /\ service' = [service EXCEPT ![d] = Finished(s)]

Begin(d, op, s) == /\ task' = [task EXCEPT ![d] = [NoTask EXCEPT !.op = op,
                                                     !.at = "device"]]
                   /\ service' = [service EXCEPT ![d] = [s EXCEPT
                                                           !.asks = FALSE]]

Stale(t) == [t EXCEPT !.stale = t.op # "none"]

Fault == faults < Faults /\ faults' = faults + 1

Automatic(t) == t.op \in {"synchronize", "retrySyncConfirmation"}

(* The last catch clause of every operation. *)
Fail(d, s) ==
  LET t == task[d]
  IN Return(d, CASE t.stale -> s
                 [] ~t.stale /\ t.op = "synchronize" -> ScheduleRetry(s)
                 [] ~t.stale /\ t.op = "retrySyncConfirmation" -> ShowIssue(s)
                 [] ~t.stale /\ ~Automatic(t) -> ShowConflict(s))

(* _record as far as its await: an acknowledgement that is held is not
   replaced.                                                                 *)
Record(d, t, s, save, rev) ==
  LET want == IF s.pending = None THEN [save |-> save, rev |-> rev]
              ELSE s.pending
  IN /\ Continue(d, [t EXCEPT !.at = "record", !.want = want,
                              !.local = None, !.ancestor = None])
     /\ service' = [service EXCEPT ![d] = [s EXCEPT !.pending = want]]

(* _assess, first half: the local save, then the checkpoint.  Nothing but
   this task changes the checkpoint, so the two reads are one step.          *)
AssessDevice(d) ==
  /\ task[d].at = "device"
  /\ \/ /\ Continue(d, [task[d] EXCEPT !.at = "cloud", !.local = saved[d],
                                       !.ancestor = checkpoint[d]])
        /\ UNCHANGED <<service, faults>>
     \/ /\ Fault                                \* CheckpointStorageException
        /\ Return(d, IF task[d].stale THEN service[d]
                     ELSE ShowIssue(service[d]))
     \/ Fault /\ Fail(d, service[d])             \* ProgressReadException
  /\ UNCHANGED <<cloud, deviceVars>>

(* _applyAssessment, as far as its first await. *)
Apply(d, t, s) ==
  LET action == Plan(t.local, t.ancestor, t.rev) IN
  \/ /\ action = "noData"
     /\ Return(d, s)
  \/ /\ action = "alreadySynchronized"
     /\ t.ancestor # [save |-> cloud[t.rev], rev |-> t.rev]
     /\ Record(d, t, s, cloud[t.rev], t.rev)
  \/ /\ action = "alreadySynchronized"
     /\ t.ancestor = [save |-> cloud[t.rev], rev |-> t.rev]
     /\ Continue(d, [t EXCEPT !.at = "confirm", !.want = t.ancestor,
                              !.local = None, !.ancestor = None])
     /\ service' = [service EXCEPT ![d] = s]
  \/ /\ action \in {"uploadLocal", "downloadCloud"}
     /\ Continue(d, [t EXCEPT !.ancestor = None,
                              !.at = IF action = "uploadLocal" THEN "write"
                                     ELSE "reread"])
     /\ service' = [service EXCEPT ![d] = s]
  \/ /\ action = "requirePlayerChoice"
     /\ Return(d, [ShowConflict(s) EXCEPT !.conflict = TRUE])

(* GameService.replaceProgressFromCloud loads the state at once and saves it
   by an await.                                                              *)
Restore(d, t) ==
  /\ game' = [game EXCEPT ![d] = cloud[t.rev]]
  /\ Continue(d, [t EXCEPT !.at = "applied"])
  /\ UNCHANGED service

(* _matchesReviewedCloud *)
MatchesAnyCloud(t) == TRUE

MatchesReviewedCloud(t) == t.rev = t.choice

(* What follows the cloud read of an assessment.  A choice is only ever shown
   for a device that has a save, and a save does not disappear.              *)
Assessed(d, t, s) ==
  \/ /\ Automatic(t)
     /\ Apply(d, t, [s EXCEPT !.issue = FALSE,
                              !.conflict = IF t.op = "synchronize" THEN @
                                           ELSE FALSE])
     /\ UNCHANGED game
  \/ /\ t.op = "prepareConflictReview"
     /\ Return(d, IF t.local = None \/ t.rev = 0 THEN ShowConflict(s)
                  ELSE [ShowConflict(s) EXCEPT !.review = t.rev])
     /\ UNCHANGED game
  \/ /\ t.op \in {"keepThisDevice", "useCloud"}
     /\ ~MatchesReviewedCloud(t)
     /\ Return(d, ShowConflict(s))
     /\ UNCHANGED game
  \/ /\ t.op = "keepThisDevice"
     /\ MatchesReviewedCloud(t)
     /\ Continue(d, [t EXCEPT !.at = "write", !.ancestor = None])
     /\ UNCHANGED <<service, game>>
  \/ /\ t.op = "useCloud"
     /\ MatchesReviewedCloud(t)
     /\ Restore(d, [t EXCEPT !.local = None, !.ancestor = None])

(* _assess, second half: the cloud read, which answers unknown on any error. *)
ReadCloud(d) ==
  LET t == [task[d] EXCEPT !.rev = Latest] IN
  /\ t.at = "cloud"
  /\ \/ /\ t.stale
        /\ Return(d, service[d])
        /\ UNCHANGED <<game, faults>>
     \/ /\ ~t.stale
        /\ Assessed(d, t, service[d])
        /\ UNCHANGED faults
     \/ /\ ~t.stale
        /\ Fault
        /\ Return(d, IF Automatic(t)
                     THEN ScheduleRetry([service[d] EXCEPT !.issue = FALSE,
                            !.conflict = t.op = "synchronize" /\ @])
                     ELSE ShowConflict(service[d]))
        /\ UNCHANGED game
  /\ UNCHANGED <<cloud, saved, checkpoint>>

(* The transaction of FirebaseProgressRepository.write *)
RevisionMatches(t) == Latest = t.rev

AckExpected(t) == t.rev

AckRevision(t) == t.rev + 1

WriteCloud(d) ==
  LET t == task[d]
      s == service[d]
  IN
  /\ t.at = "write"
  /\ \/ /\ RevisionMatches(t)
        /\ cloud' = Append(cloud, t.local)
        /\ \/ /\ t.stale
              /\ Return(d, s)
              /\ UNCHANGED faults
           \/ /\ ~t.stale
              /\ Record(d, t, s, t.local, AckRevision(t))
              /\ UNCHANGED faults
           \/ Fault /\ Fail(d, s)                    \* the answer is lost
     \/ /\ ~RevisionMatches(t)              \* CloudProgressWriteConflict
        /\ Return(d, IF Automatic(t) THEN [s EXCEPT !.rerun = TRUE]
                     ELSE IF t.stale THEN s ELSE ShowConflict(s))
        /\ UNCHANGED <<cloud, faults>>
     \/ /\ Fault
        /\ Fail(d, s)
        /\ UNCHANGED cloud
  /\ UNCHANGED deviceVars

(* downloadCloud reads the cloud again before it restores. *)
RereadCloud(d) ==
  LET t == task[d] IN
  /\ t.at = "reread"
  /\ \/ /\ t.stale
        /\ Return(d, service[d])
        /\ UNCHANGED <<game, faults>>
     \/ /\ ~t.stale /\ Latest # t.rev
        /\ Return(d, [service[d] EXCEPT !.rerun = TRUE])
        /\ UNCHANGED <<game, faults>>
     \/ /\ ~t.stale
        /\ Fault
        /\ Return(d, [service[d] EXCEPT !.rerun = TRUE])
        /\ UNCHANGED game
     \/ /\ ~t.stale /\ Latest = t.rev
        /\ Restore(d, t)
        /\ UNCHANGED faults
  /\ UNCHANGED <<cloud, saved, checkpoint>>

(* The restored state is saved, or the save needs attention (_saveQuietly). *)
SaveRestored(d) ==
  LET t == [task[d] EXCEPT !.local = None]
      s == ProgressSaved(service[d], TRUE)
  IN
  /\ t.at = "applied"
  /\ \/ /\ ~service[d].held
        /\ saved' = [saved EXCEPT ![d] = game[d]]
        /\ \/ t.stale /\ Return(d, s) /\ UNCHANGED faults
           \/ ~t.stale /\ Fault /\ Fail(d, s)      \* it cannot be read back
           \/ /\ ~t.stale
              /\ Record(d, t, s, cloud[t.rev], t.rev)
              /\ UNCHANGED faults
     \/ /\ service[d].held
        /\ Return(d, service[d])
        /\ UNCHANGED <<saved, faults>>
     \/ /\ ~service[d].held
        /\ Fault
        /\ Return(d, Held(service[d]))
        /\ UNCHANGED saved
  /\ UNCHANGED <<cloud, game, checkpoint>>

(* _record from its await on.  "pending" is the acknowledgement that
   retrySyncConfirmation writes before it assesses afresh.                   *)
StoreCheckpoint(d) ==
  LET t == task[d]
      s == [service[d] EXCEPT !.pending = None, !.issue = FALSE]
  IN
  /\ t.at \in {"record", "pending"}
  /\ \/ /\ checkpoint' = [checkpoint EXCEPT ![d] = t.want]
        /\ \/ t.stale /\ Return(d, service[d])
           \/ /\ ~t.stale /\ t.at = "record"
              /\ Continue(d, [t EXCEPT !.at = "confirm"])
              /\ service' = [service EXCEPT ![d] =
                   [s EXCEPT !.conflict = Automatic(t) /\ @]]
           \/ /\ ~t.stale /\ t.at = "pending"
              /\ Begin(d, t.op, [s EXCEPT !.conflict = FALSE, !.review = None])
        /\ UNCHANGED faults
     \/ /\ Fault                     \* it may have been stored all the same
        /\ checkpoint' \in {checkpoint, [checkpoint EXCEPT ![d] = t.want]}
        /\ Return(d, IF t.stale THEN service[d] ELSE ShowIssue(service[d]))
  /\ UNCHANGED <<cloud, game, saved>>

(* _confirmCurrent *)
ConfirmTrusting(d, t) == service[d]

ConfirmCurrent(d, t) ==
  IF t.stale \/ saved[d] = t.want.save THEN service[d]
  ELSE [service[d] EXCEPT !.rerun = TRUE]

Confirm(d) ==
  /\ task[d].at = "confirm"
  /\ \/ Return(d, ConfirmCurrent(d, task[d])) /\ UNCHANGED faults
     \/ Fault /\ Fail(d, service[d])             \* ProgressReadException
  /\ UNCHANGED <<cloud, deviceVars>>

(* The eight second watchdog of _record *)
Watchdog(d) ==
  /\ task[d].at \in {"record", "pending"}
  /\ ~task[d].stale
  /\ ~service[d].issue
  /\ service' = [service EXCEPT ![d] = ShowIssue(@)]
  /\ UNCHANGED <<cloud, deviceVars, task, faults>>

-----------------------------------------------------------------------------
(* What starts an operation *)

(* _timer fires: synchronize.  Its early returns are never taken then, as
   AutomationYields says.                                                    *)
Synchronize(d) ==
  LET s == [service[d] EXCEPT !.timer = FALSE] IN
  /\ service[d].timer
  /\ Configured(s) /\ ~s.issue /\ ~Busy(d) /\ ~s.conflict
  /\ Begin(d, "synchronize", s)
  /\ UNCHANGED <<cloud, deviceVars, faults>>

PrepareConflictReview(d) ==
  LET s == service[d] IN
  /\ s.conflict /\ Configured(s) /\ ~Busy(d) /\ ~s.issue
  /\ Begin(d, "prepareConflictReview", [s EXCEPT !.review = None])
  /\ UNCHANGED <<cloud, deviceVars, faults>>

(* keepThisDevice, useCloud *)
Resolve(d, op) ==
  LET s == service[d] IN
  /\ s.review # None /\ s.conflict /\ Configured(s) /\ ~s.issue /\ ~Busy(d)
  /\ op = "keepThisDevice" => Latest < Choices
  /\ task' = [task EXCEPT ![d] = [NoTask EXCEPT !.op = op, !.at = "device",
                                               !.choice = s.review]]
  /\ service' = [service EXCEPT ![d] = [Invalidated(s) EXCEPT !.asks = FALSE]]
  /\ UNCHANGED <<cloud, deviceVars, faults>>

(* retrySyncConfirmation.  Only one runtime uses a device's storage here, so a
   stored record never changed behind the service (_checkpointChanged).      *)
RetrySyncConfirmation(d) ==
  LET s == service[d] IN
  /\ Configured(s) /\ s.issue /\ ~Busy(d)
  /\ task' = [task EXCEPT ![d] =
       [NoTask EXCEPT !.op = "retrySyncConfirmation", !.want = s.pending,
                      !.at = IF s.pending = None THEN "device"
                             ELSE "pending"]]
  /\ service' = [service EXCEPT ![d] = ShowIssue(s)]
  /\ UNCHANGED <<cloud, deviceVars, faults>>

-----------------------------------------------------------------------------
(* The game and the app around the service *)

(* Anything that changes the game saves it (GameService.save); the game itself
   is paused once the service is drained for an import.                      *)
Play(d) == \E p \in Plays:
  /\ ~service[d].held
  /\ service[d].import # "drained"
  /\ \A e \in Devices: p \notin game[e]
  /\ \A r \in 1..Latest: p \notin cloud[r]
  /\ game' = [game EXCEPT ![d] = @ \cup {p}]
  /\ \/ /\ saved' = [saved EXCEPT ![d] = game'[d]]
        /\ service' = [service EXCEPT ![d] = ProgressSaved(@, Busy(d))]
        /\ UNCHANGED <<task, faults>>
     \/ /\ Fault
        /\ service' = [service EXCEPT ![d] = Held(@)]
        /\ task' = [task EXCEPT ![d] = Stale(@)]
        /\ UNCHANGED saved
  /\ UNCHANGED <<cloud, checkpoint>>

(* retryProgressSave: the held state is saved after all. *)
RetryProgressSave(d) ==
  /\ service[d].held
  /\ saved' = [saved EXCEPT ![d] = game[d]]
  /\ service' = [service EXCEPT ![d] = Released(@, Busy(d))]
  /\ UNCHANGED <<cloud, game, checkpoint, task, faults>>

(* selectAccount again with the same identity, also while an operation of the
   earlier selection is still running.                                       *)
SelectAccount(d) ==
  LET s == [Invalidated(service[d]) EXCEPT !.pending = None, !.issue = FALSE,
                                           !.conflict = FALSE, !.asks = FALSE]
  IN
  /\ Fault
  /\ \/ /\ Configured(s) /\ ~Busy(d)
        /\ Begin(d, "synchronize", s)
     \/ /\ Configured(s) => Busy(d)
        /\ task' = [task EXCEPT ![d] = Stale(@)]
        /\ service' = [service EXCEPT ![d] =
             [s EXCEPT !.rerun = @ \/ Configured(s)]]
  /\ UNCHANGED <<cloud, deviceVars>>

(* The app is killed and started again; it loads the save, if there is one. *)
LoadedAsIs(save) == save

Loaded(save) == IF save = None THEN {} ELSE save

Restart(d) ==
  /\ Fault
  /\ game' = [game EXCEPT ![d] = Loaded(saved[d])]
  /\ Begin(d, "synchronize", NewService)
  /\ UNCHANGED <<cloud, saved, checkpoint>>

(* pauseForSaveImport: it returns when the running operation has ended. *)
DrainAtOnce(s, busy) == [Invalidated(s) EXCEPT !.rerun = FALSE,
                                               !.import = "drained"]

Drain(s, busy) ==
  [Invalidated(s) EXCEPT !.rerun = FALSE,
                         !.import = IF busy THEN "draining" ELSE "drained"]

PauseForSaveImport(d) ==
  /\ service[d].import = "no"
  /\ ~service[d].held
  /\ Fault
  /\ service' = [service EXCEPT ![d] = Drain(@, Busy(d))]
  /\ task' = [task EXCEPT ![d] = Stale(@)]
  /\ UNCHANGED <<cloud, deviceVars>>

-----------------------------------------------------------------------------
(* Every device starts empty and selects its account. *)
Init ==
  /\ cloud = <<>>
  /\ game = [d \in Devices |-> {}]
  /\ saved = [d \in Devices |-> None]
  /\ checkpoint = [d \in Devices |-> None]
  /\ service = [d \in Devices |-> NewService]
  /\ task = [d \in Devices |-> [NoTask EXCEPT !.op = "synchronize",
                                              !.at = "device"]]
  /\ faults = 0

Step(d) == \/ AssessDevice(d) \/ ReadCloud(d) \/ WriteCloud(d)
           \/ RereadCloud(d) \/ SaveRestored(d) \/ StoreCheckpoint(d)
           \/ Confirm(d)

Player(d) == \/ Play(d) \/ RetryProgressSave(d)
             \/ PrepareConflictReview(d)
             \/ Resolve(d, "keepThisDevice") \/ Resolve(d, "useCloud")
             \/ RetrySyncConfirmation(d)

App(d) == \/ SelectAccount(d) \/ Restart(d) \/ PauseForSaveImport(d)

Next == \E d \in Devices: Step(d) \/ Synchronize(d) \/ Watchdog(d)
                            \/ Player(d) \/ App(d)

Spec == Init /\ [][Next]_vars

(* Awaited calls return and timers fire; the player need not do anything. *)
Fairness == \A d \in Devices: WF_vars(Step(d)) /\ WF_vars(Synchronize(d))

FairSpec == Spec /\ Fairness

-----------------------------------------------------------------------------
(* Type invariant *)

TypeOK ==
  /\ cloud \in Seq(Content)
  /\ \A d \in Devices: game[d] # None       \* there is always a game loaded
  /\ game \in [Devices -> Content]
  /\ saved \in [Devices -> Save]
  /\ checkpoint \in [Devices -> Checkpoint \cup {None}]
  /\ service \in [Devices -> Service]
  /\ task \in [Devices -> Task]
  /\ faults \in 0..Faults

-----------------------------------------------------------------------------
(* Safety *)

(* A stored checkpoint names a revision the cloud really had with exactly that
   content, so it may serve as the common ancestor, whatever answers are lost
   and however often a confirmation is retried (_record, retrySyncConfirmation).
   While the cloud is still at that revision the device also still contains
   it, so an automatic upload can only add to it.                            *)
CheckpointIsAncestor ==
  \A d \in Devices: checkpoint[d] # None =>
    /\ checkpoint[d].rev \in 1..Latest
    /\ cloud[checkpoint[d].rev] = checkpoint[d].save
    /\ checkpoint[d].rev = Latest => checkpoint[d].save \subseteq saved[d]

(* No save is forgotten: a configured service that is at rest, with no timer,
   choice or issue to show, has confirmed exactly what is on the device.  This
   needs a first confirmation: a device's first save, made while
   retrySyncConfirmation finds the cloud empty, waits for a second one.  See
   localProgressSaved, _confirmCurrent and _finishSynchronization.           *)
NothingForgotten ==
  \A d \in Devices:
    LET s == service[d] IN
    (/\ Configured(s) /\ ~Busy(d) /\ ~s.timer /\ ~s.asks /\ ~s.issue
     /\ checkpoint[d] # None)
      => checkpoint[d].save = saved[d]

(* Automatic work is scheduled only when nothing else goes on: never behind an
   operation, a choice or an issue the player has to see, nor while saving or
   importing needs the device to itself (localProgressSaved, _setConflict,
   _showCheckpointIssue, _finishSynchronization).                            *)
AutomationYields ==
  \A d \in Devices:
    LET s == service[d] IN
    s.timer => Configured(s) /\ ~s.issue /\ ~s.conflict /\ ~Busy(d)

(* When pauseForSaveImport has returned, nothing of the service is running or
   scheduled, so the import works on storage that holds still.               *)
DrainedIsQuiet ==
  \A d \in Devices: service[d].import = "drained" =>
    ~Busy(d) /\ ~service[d].timer

(* Progress in the cloud is dropped only by keepThisDevice, and only when what
   it replaces is the very revision the player had compared: the service's
   comment, lines 33-34, "divergent saves wait for an explicit player choice".
   See _matchesReviewedCloud and the transaction of the repository.          *)
CloudLossIsChosen ==
  [][(/\ cloud' # cloud /\ Latest > 0
      /\ ~(cloud[Latest] \subseteq cloud'[Latest + 1]))
       => \E d \in Devices: /\ task[d].op = "keepThisDevice"
                            /\ task'[d] # task[d]
                            /\ task[d].choice = Latest]_vars

Downloads(d) == /\ Automatic(task[d])
                /\ task[d].at = "reread"
                /\ task'[d].at = "applied"

(* What an automatic download replaces, as the assessment read it, is an
   earlier revision of the cloud: progress that was never backed up is not
   discarded on the strength of the plan (plan, _applyAssessment).           *)
DownloadReplacesAncestor ==
  [][\A d \in Devices: Downloads(d) =>
       \/ task[d].local = None
       \/ \E r \in 1..Latest: cloud[r] = task[d].local]_vars

(* An automatic download never discards progress of this device that was not
   backed up: the assessment service's comment, lines 27-28, says download
   must "confirm the assessment is still current".                           *)
DownloadDropsNothingNew ==
  [][\A d \in Devices: Downloads(d) =>
       \A p \in game[d]: \E r \in 1..Latest: p \in cloud[r]]_vars

-----------------------------------------------------------------------------
(* Liveness *)

(* Whatever is saved reaches the cloud, unless the player has something to
   decide or to repair first or the progress was replaced: saves made meanwhile,
   lost answers and other devices do not stop the backup.                    *)
EventuallyBackedUp ==
  \A d \in Devices, p \in Plays:
    saved[d] # None /\ p \in saved[d] ~>
      \/ \E r \in 1..Latest: p \in cloud[r]
      \/ saved[d] = None \/ p \notin saved[d]
      \/ service[d].asks \/ service[d].issue \/ checkpoint[d] = None
      \/ ~Configured(service[d])
=============================================================================
