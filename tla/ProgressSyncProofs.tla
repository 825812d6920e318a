-------------------------- MODULE ProgressSyncProofs --------------------------
(***************************************************************************)
(* Safety of the cloud backup for any number of devices, plays and faults. *)
(* A step is a step of one device, beside the one document all of them     *)
(* share, so the invariant is stated of the state of one device: g its     *)
(* game, sv its save, cp its checkpoint, s its service and t its task,     *)
(* with the contents cl the document has had.                              *)
(***************************************************************************)
EXTENDS ProgressSync, TLAPS

(* Which operation may wait for which answer. *)
Waits(t) ==
  /\ t.op = "none" => t = NoTask
  /\ t.op # "none" => t.at # "start"
  /\ t.at = "write" => Automatic(t) \/ t.op = "keepThisDevice"
  /\ t.at = "reread" => Automatic(t)
  /\ t.at = "applied" => Automatic(t) \/ t.op = "useCloud"
  /\ t.at \in {"record", "confirm"} => t.op # "prepareConflictReview"
  /\ t.at = "pending" => t.op = "retrySyncConfirmation"
  /\ t.op \in {"keepThisDevice", "useCloud"} => t.choice # None

-----------------------------------------------------------------------------
(* The flags of a service *)

(* A service at rest has confirmed what is saved, or will run again, or shows
   the player what is wrong.                                                 *)
AtRest(sv, cp, s) ==
  Configured(s) =>
    /\ s.pending # None => s.issue
    /\ s.conflict => s.asks \/ s.issue
    /\ s.timer \/ s.asks \/ s.issue \/ cp = None \/ cp.save = sv

(* An operation that still counts: an acknowledgement is pending only while it
   is stored, and an operation without a choice has none to make.            *)
Running(s, t) ==
  /\ Configured(s)
  /\ s.pending # None => t.at \in {"record", "pending"}
  /\ t.op = "synchronize" => ~s.conflict /\ (s.issue => t.at = "record")
  /\ t.op = "retrySyncConfirmation" /\ t.at \notin {"device", "cloud", "pending"}
       => ~s.conflict
  /\ t.at = "confirm" => ~s.conflict

(* One that does not: the service will run again, or shows why not. *)
Cancelled(s) ==
  Configured(s) =>
    /\ s.pending # None => s.issue
    /\ s.issue \/ s.asks \/ (s.rerun /\ ~s.conflict)

Flags(sv, cp, s, t) ==
  /\ s.timer => Configured(s) /\ ~s.issue /\ ~s.conflict /\ t.op = "none"
  /\ s.import = "drained" => t.op = "none"
  /\ t.op = "none" => AtRest(sv, cp, s)
  /\ t.op # "none" /\ ~t.stale => Running(s, t)
  /\ t.stale => Cancelled(s)

-----------------------------------------------------------------------------
(* The data *)

(* A content the cloud had under this revision; while it is the latest, the
   device contains it, in memory and on disk.                                *)
Base(cl, g, sv, c) ==
  c # None => /\ c.rev \in 1 .. Len(cl) /\ cl[c.rev] = c.save
              /\ sv # None
              /\ c.rev = Len(cl) => c.save \subseteq g /\ c.save \subseteq sv

(* A revision the player may compare with the save of the device. *)
Offered(cl, sv, r) == r # None => r \in 1 .. Len(cl) /\ sv # None

(* The memory contains the save, unless the cloud was just restored into it. *)
Contains(g, sv, s, t) ==
  \/ sv = None \/ sv \subseteq g
  \/ t.at = "applied" \/ (s.held /\ t.op = "none")

(* What an operation has read and still relies on, by the answer it awaits. *)
ReadsHold(cl, g, cp, t) ==
  /\ t.at = "cloud" =>
       /\ t.ancestor = cp
       /\ cp # None \/ t.op \in {"keepThisDevice", "useCloud"} => t.local # None
       /\ cp # None /\ cp.rev = Len(cl) => cp.save \subseteq t.local
  /\ t.at = "write" =>
       /\ t.local # None /\ t.rev <= Len(cl)
       /\ t.op = "keepThisDevice" => t.choice = t.rev
       /\ Automatic(t) /\ t.rev = Len(cl) /\ t.rev > 0
            => cl[t.rev] \subseteq t.local
  /\ t.at \in {"reread", "applied"} => t.rev \in 1 .. Len(cl)
  /\ t.at = "reread" =>
       t.local = None \/ \E r \in 1 .. Len(cl): cl[r] = t.local
  /\ t.at = "applied" => cl[t.rev] \subseteq g
  /\ t.at = "confirm" => t.want = cp

Data(cl, g, sv, cp, s, t) ==
  /\ Base(cl, g, sv, cp) /\ Base(cl, g, sv, s.pending) /\ Base(cl, g, sv, t.want)
  /\ Offered(cl, sv, s.review) /\ Offered(cl, sv, t.choice)
  /\ Contains(g, sv, s, t)
  /\ t.local # None => sv # None
  /\ t.at \in {"cloud", "write"} /\ t.local # None =>
       t.local \subseteq g /\ t.local \subseteq sv
  /\ ReadsHold(cl, g, cp, t)

Device(cl, g, sv, cp, s, t) ==
  /\ g \in Content /\ sv \in Save /\ cp \in Checkpoint \cup {None}
  /\ s \in Service /\ t \in Task
  /\ Waits(t) /\ Flags(sv, cp, s, t) /\ Data(cl, g, sv, cp, s, t)

SyncInv ==
  /\ TypeOK
  /\ \A d \in Devices: Device(cloud, game[d], saved[d], checkpoint[d],
                              service[d], task[d])

-----------------------------------------------------------------------------
(* The document only grows *)

Grows(cl, new) ==
  /\ new \in Seq(Content) /\ Len(new) \in {Len(cl), Len(cl) + 1}
  /\ \A r \in 1 .. Len(cl): new[r] = cl[r]

LEMMA Appended ==
  ASSUME NEW cl \in Seq(Content), NEW c \in Content
  PROVE  /\ Grows(cl, cl) /\ Grows(cl, Append(cl, c))
         /\ Len(cl) \in Nat /\ Len(Append(cl, c)) = Len(cl) + 1
         /\ Append(cl, c)[Len(cl) + 1] = c
BY DEF Grows

LEMMA BaseStays ==
  ASSUME NEW cl \in Seq(Content), NEW new, Grows(cl, new), NEW g, NEW sv, NEW c,
         Base(cl, g, sv, c), c \in Checkpoint \cup {None}
  PROVE  Base(new, g, sv, c)
<1>1. Len(cl) \in Nat /\ Len(new) \in Nat /\ Len(new) >= Len(cl)
  BY DEF Grows
<1> QED BY <1>1 DEF Base, Grows

(* Other devices see the document grow, and nothing else. *)
LEMMA DeviceStays ==
  ASSUME NEW cl \in Seq(Content), NEW new, Grows(cl, new),
         NEW g, NEW sv, NEW cp, NEW s, NEW t, Device(cl, g, sv, cp, s, t)
  PROVE  Device(new, g, sv, cp, s, t)
<1>1. Len(cl) \in Nat /\ Len(new) \in Nat /\ Len(new) >= Len(cl)
  BY DEF Grows
<1>2. s.pending \in Checkpoint \cup {None} /\ t.want \in Checkpoint \cup {None}
      /\ t.rev \in Nat
  BY DEF Device, Service, Task
<1>3. Base(new, g, sv, cp) /\ Base(new, g, sv, s.pending)
      /\ Base(new, g, sv, t.want)
  BY <1>2, BaseStays DEF Device, Data
<1>4. Offered(new, sv, s.review) /\ Offered(new, sv, t.choice)
  BY <1>1 DEF Device, Data, Offered
<1>5. ReadsHold(new, g, cp, t)
  <2>1. t.at = "cloud" =>
          /\ t.ancestor = cp
          /\ cp # None \/ t.op \in {"keepThisDevice", "useCloud"} => t.local # None
          /\ cp # None /\ cp.rev = Len(new) => cp.save \subseteq t.local
    BY <1>1, <1>3 DEF Device, Data, ReadsHold, Base
  <2>2. t.at = "write" =>
          /\ t.local # None /\ t.rev <= Len(new)
          /\ t.op = "keepThisDevice" => t.choice = t.rev
          /\ Automatic(t) /\ t.rev = Len(new) /\ t.rev > 0
               => new[t.rev] \subseteq t.local
    BY <1>1, <1>2 DEF Device, Data, ReadsHold, Grows
  <2>3. /\ t.at \in {"reread", "applied"} => t.rev \in 1 .. Len(new)
        /\ t.at = "applied" => new[t.rev] \subseteq g
    BY <1>1, <1>2 DEF Device, Data, ReadsHold, Grows
  <2>4. t.at = "reread" =>
          t.local = None \/ \E r \in 1 .. Len(new): new[r] = t.local
    BY <1>1 DEF Device, Data, ReadsHold, Grows
  <2>5. t.at = "confirm" => t.want = cp
    BY DEF Device, Data, ReadsHold
  <2> QED BY <2>1, <2>2, <2>3, <2>4, <2>5 DEF ReadsHold
<1> QED BY <1>3, <1>4, <1>5 DEF Device, Data

-----------------------------------------------------------------------------
(* The service's flags *)

LEMMA ShownIssue ==
  ASSUME NEW s \in Service
  PROVE  LET r == ShowIssue(s) IN
         /\ r \in Service /\ r.issue /\ ~r.timer /\ ~r.rerun /\ ~r.asks
         /\ r.review = None
         /\ r.pending = s.pending /\ r.held = s.held /\ r.import = s.import
         /\ r.conflict = s.conflict
BY DEF ShowIssue, Service

LEMMA ShownConflict ==
  ASSUME NEW s \in Service
  PROVE  LET r == ShowConflict(s) IN
         /\ r \in Service /\ r.asks /\ ~r.timer /\ ~r.rerun
         /\ r.review = s.review /\ r.issue = s.issue
         /\ r.pending = s.pending /\ r.held = s.held /\ r.import = s.import
         /\ r.conflict = s.conflict
BY DEF ShowConflict, Service

LEMMA ScheduledRetry ==
  ASSUME NEW s \in Service
  PROVE  LET r == ScheduleRetry(s) IN
         /\ r \in Service /\ r.timer /\ r.rerun = s.rerun /\ r.asks = s.asks
         /\ r.review = s.review /\ r.issue = s.issue
         /\ r.pending = s.pending /\ r.held = s.held /\ r.import = s.import
         /\ r.conflict = s.conflict
BY DEF ScheduleRetry, Service

LEMMA FinishedIs ==
  ASSUME NEW s \in Service
  PROVE  LET r == Finished(s) IN
         /\ r \in Service
         /\ r.pending = s.pending /\ r.held = s.held /\ r.conflict = s.conflict
         /\ r.issue = s.issue /\ r.review \in {s.review, None}
         /\ Configured(r) <=> Configured(s)
         /\ IF s.issue /\ Configured(s) THEN ~r.timer
            ELSE /\ r.asks = s.asks
                 /\ r.timer <=> \/ s.timer
                                \/ s.rerun /\ Configured(s) /\ ~s.conflict
<1> DEFINE drained == [s EXCEPT !.rerun = FALSE,
                                !.import = IF @ = "no" THEN @ ELSE "drained"]
<1>1. /\ drained \in Service
      /\ drained.pending = s.pending /\ drained.held = s.held
      /\ drained.conflict = s.conflict /\ drained.issue = s.issue
      /\ drained.review = s.review /\ drained.asks = s.asks
      /\ drained.timer = s.timer
      /\ Configured(drained) <=> Configured(s)
  BY DEF Service, Configured
<1>2. Finished(s) = IF s.issue /\ Configured(s) THEN ShowIssue(drained)
                    ELSE IF s.rerun /\ Configured(s) /\ ~s.conflict
                         THEN [drained EXCEPT !.timer = TRUE] ELSE drained
  BY DEF Finished
<1> HIDE DEF drained
<1>3. CASE s.issue /\ Configured(s)
  BY <1>1, <1>2, <1>3, ShownIssue DEF Configured
<1>4. CASE ~(s.issue /\ Configured(s)) /\ s.rerun /\ Configured(s) /\ ~s.conflict
  <2> DEFINE r == [drained EXCEPT !.timer = TRUE]
  <2>1. /\ r \in Service /\ r.timer
        /\ r.pending = drained.pending /\ r.held = drained.held
        /\ r.conflict = drained.conflict /\ r.issue = drained.issue
        /\ r.review = drained.review /\ r.asks = drained.asks
        /\ Configured(r) <=> Configured(drained)
    BY <1>1 DEF Service, Configured
  <2> HIDE DEF r
  <2>2. Finished(s) = r
    BY <1>2, <1>4 DEF r
  <2> QED BY <1>1, <1>4, <2>1, <2>2
<1>5. CASE /\ ~(s.issue /\ Configured(s))
           /\ ~(s.rerun /\ Configured(s) /\ ~s.conflict)
  BY <1>1, <1>2, <1>5 DEF Service
<1> QED BY <1>3, <1>4, <1>5

LEMMA SavedIs ==
  ASSUME NEW s \in Service, NEW busy \in BOOLEAN
  PROVE  LET r == ProgressSaved(s, busy) IN
         /\ r \in Service
         /\ r.pending = s.pending /\ r.held = s.held /\ r.conflict = s.conflict
         /\ r.issue = s.issue /\ r.review = s.review /\ r.asks = s.asks
         /\ r.import = s.import
         /\ busy => r.timer = s.timer
         /\ busy /\ s.rerun => r.rerun
         /\ Configured(s) /\ ~s.issue /\ s.pending = None =>
              IF busy THEN r.rerun ELSE s.conflict \/ r.timer
         /\ r.timer => \/ s.timer
                       \/ Configured(s) /\ ~s.issue /\ ~s.conflict
<1> DEFINE r == ProgressSaved(s, busy)
<1>1. CASE (~Configured(s) \/ s.issue \/ s.pending # None) /\ r = s
  <2> HIDE DEF r
  <2> QED BY <1>1 DEF r
<1>2. CASE /\ ~(~Configured(s) \/ s.issue \/ s.pending # None) /\ busy
           /\ r = [s EXCEPT !.rerun = TRUE]
  <2> HIDE DEF r
  <2>1. /\ r \in Service /\ r.rerun
        /\ r.pending = s.pending /\ r.held = s.held /\ r.conflict = s.conflict
        /\ r.issue = s.issue /\ r.review = s.review /\ r.asks = s.asks
        /\ r.import = s.import /\ r.timer = s.timer
    BY <1>2 DEF Service
  <2> QED BY <1>2, <2>1 DEF r
<1>3. CASE /\ ~(~Configured(s) \/ s.issue \/ s.pending # None) /\ ~busy
           /\ r = IF s.conflict THEN s ELSE [s EXCEPT !.timer = TRUE]
  <2> HIDE DEF r
  <2>1. /\ r \in Service /\ (s.conflict \/ r.timer)
        /\ r.pending = s.pending /\ r.held = s.held /\ r.conflict = s.conflict
        /\ r.issue = s.issue /\ r.review = s.review /\ r.asks = s.asks
        /\ r.import = s.import
        /\ r.timer => s.timer \/ ~s.conflict
    BY <1>3 DEF Service
  <2> QED BY <1>3, <2>1 DEF r
<1> QED BY <1>1, <1>2, <1>3 DEF ProgressSaved

-----------------------------------------------------------------------------
(* The end of an operation *)

(* What an operation leaves behind when it returns. *)
Leaves(sv, cp, s) ==
  /\ s.timer => Configured(s) /\ ~s.conflict
  /\ Configured(s) =>
       \/ s.issue
       \/ /\ s.pending = None
          /\ s.conflict => s.asks
          /\ s.timer \/ s.asks \/ (s.rerun /\ ~s.conflict)
             \/ cp = None \/ cp.save = sv

LEMMA ReturnRests ==
  ASSUME NEW sv, NEW cp, NEW s \in Service, Leaves(sv, cp, s)
  PROVE  Flags(sv, cp, Finished(s), NoTask)
<1> DEFINE r == Finished(s)
<1>1. /\ r \in Service
      /\ r.pending = s.pending /\ r.held = s.held /\ r.conflict = s.conflict
      /\ r.issue = s.issue
      /\ Configured(r) <=> Configured(s)
      /\ IF s.issue /\ Configured(s) THEN ~r.timer
         ELSE /\ r.asks = s.asks
              /\ r.timer <=> \/ s.timer
                             \/ s.rerun /\ Configured(s) /\ ~s.conflict
  BY FinishedIs
<1> HIDE DEF r
<1>2. r.timer => Configured(r) /\ ~r.issue /\ ~r.conflict
  BY <1>1 DEF Leaves
<1>3. AtRest(sv, cp, r)
  BY <1>1 DEF Leaves, AtRest
<1>4. Flags(sv, cp, r, NoTask)
  BY <1>2, <1>3 DEF Flags, NoTask
<1> QED BY <1>4 DEF r

LEMMA ReturnKeeps ==
  ASSUME NEW cl, NEW g \in Content, NEW sv \in Save,
         NEW cp \in Checkpoint \cup {None}, NEW s \in Service,
         Leaves(sv, cp, s),
         Base(cl, g, sv, cp), Base(cl, g, sv, s.pending),
         Offered(cl, sv, s.review), sv = None \/ sv \subseteq g \/ s.held
  PROVE  Device(cl, g, sv, cp, Finished(s), NoTask)
<1>1. /\ Finished(s) \in Service /\ Finished(s).pending = s.pending
      /\ Finished(s).held = s.held /\ Finished(s).review \in {s.review, None}
  BY FinishedIs
<1>2. NoTask \in Task /\ Waits(NoTask)
  BY DEF NoTask, Task, Operations, Save, Waits, Automatic
<1>3. Data(cl, g, sv, cp, Finished(s), NoTask)
  BY <1>1 DEF Data, NoTask, Base, Offered, Contains, ReadsHold
<1> QED BY <1>1, <1>2, <1>3, ReturnRests DEF Device

(* A service to return with, whatever was saved meanwhile. *)
Gives(s, r) ==
  /\ r \in Service
  /\ r.pending = s.pending /\ r.held = s.held /\ r.review \in {s.review, None}
  /\ \A sv, cp: Leaves(sv, cp, r)

LEMMA StaleGives ==
  ASSUME NEW s \in Service, NEW t, NEW sv, NEW cp, Flags(sv, cp, s, t),
         Waits(t), t.stale
  PROVE  Gives(s, s)
<1>1. t.op # "none"
  BY DEF Waits, NoTask
<1> QED BY <1>1 DEF Gives, Flags, Cancelled, Leaves

(* So does an operation that asks to be run again. *)
LEMMA RerunGives ==
  ASSUME NEW s \in Service, NEW t, NEW sv, NEW cp, Flags(sv, cp, s, t),
         t.op # "none", t.at \notin {"record", "pending"},
         ~t.stale => ~s.conflict, t.stale \in BOOLEAN
  PROVE  Gives(s, [s EXCEPT !.rerun = TRUE])
<1> DEFINE r == [s EXCEPT !.rerun = TRUE]
<1>1. /\ r \in Service /\ r.rerun /\ r.pending = s.pending
      /\ r.held = s.held /\ r.review = s.review /\ r.timer = s.timer
      /\ r.issue = s.issue /\ r.asks = s.asks /\ r.conflict = s.conflict
      /\ Configured(r) <=> Configured(s)
  BY DEF Service, Configured
<1> HIDE DEF r
<1>2. /\ ~s.timer
      /\ Configured(s) => \/ s.issue
                          \/ s.pending = None /\ (s.asks \/ ~s.conflict)
  <2>1. CASE t.stale
    BY <2>1 DEF Flags, Cancelled
  <2>2. CASE ~t.stale
    BY <2>2 DEF Flags, Running
  <2> QED BY <2>1, <2>2
<1>3. ASSUME NEW x, NEW y PROVE Leaves(x, y, r)
  BY <1>1, <1>2 DEF Leaves
<1> QED BY <1>1, <1>3 DEF r, Gives

LEMMA FailGives ==
  ASSUME NEW d, NEW s \in Service, NEW sv, NEW cp,
         Flags(sv, cp, s, task[d]), Waits(task[d]), task[d] \in Task,
         task[d].op # "none", task[d].at \notin {"record", "pending"},
         Fail(d, s)
  PROVE  \E r: Return(d, r) /\ Gives(s, r)
<1> DEFINE t == task[d]
<1>1. t.stale \in BOOLEAN /\ (t.stale => Gives(s, s))
  BY StaleGives DEF Task
<1>2. ~t.stale => Configured(s) /\ s.pending = None /\ ~s.timer
                  /\ (t.op = "synchronize" => ~s.conflict /\ ~s.issue)
  BY DEF Flags, Running
<1>3. ~t.stale /\ t.op = "synchronize" => Gives(s, ScheduleRetry(s))
  BY <1>2, ScheduledRetry DEF Gives, Leaves, Configured
<1>4. ~t.stale => Gives(s, ShowIssue(s))
  BY <1>2, ShownIssue DEF Gives, Leaves, Configured
<1>5. ~t.stale => Gives(s, ShowConflict(s))
  BY <1>2, ShownConflict DEF Gives, Leaves, Configured
<1>6. \/ t.stale /\ Return(d, s)
      \/ ~t.stale /\ t.op = "synchronize" /\ Return(d, ScheduleRetry(s))
      \/ ~t.stale /\ Return(d, ShowIssue(s))
      \/ ~t.stale /\ Return(d, ShowConflict(s))
  BY <1>1, Zenon DEF Fail, Automatic
<1> QED BY <1>1, <1>3, <1>4, <1>5, <1>6

(* A save while an operation is under way makes the service run again. *)
LEMMA SavedWhileBusy ==
  ASSUME NEW s \in Service, NEW t, NEW sv, NEW cp, Flags(sv, cp, s, t),
         t.op # "none", NEW new
  PROVE  LET r == ProgressSaved(s, TRUE) IN
         /\ r \in Service /\ Flags(new, cp, r, t)
         /\ r.pending = s.pending /\ r.held = s.held /\ r.review = s.review
<1> DEFINE r == ProgressSaved(s, TRUE)
<1>1. /\ r \in Service
      /\ r.pending = s.pending /\ r.held = s.held /\ r.conflict = s.conflict
      /\ r.issue = s.issue /\ r.review = s.review /\ r.asks = s.asks
      /\ r.import = s.import /\ r.timer = s.timer /\ (s.rerun => r.rerun)
  BY SavedIs
<1> HIDE DEF r
<1>2. Configured(r) <=> Configured(s)
  BY <1>1 DEF Configured
<1>3. (Running(s, t) => Running(r, t)) /\ (Cancelled(s) => Cancelled(r))
  BY <1>1, <1>2 DEF Running, Cancelled
<1>4. Flags(new, cp, r, t)
  BY <1>1, <1>2, <1>3 DEF Flags
<1> QED BY <1>1, <1>4 DEF r

-----------------------------------------------------------------------------
(* From one device to all of them *)

LEMMA Lifted ==
  ASSUME SyncInv, NEW d \in Devices, Grows(cloud, cloud'),
         faults' \in 0 .. Faults,
         NEW g, NEW sv, NEW cp, NEW s, NEW t,
         game' = [game EXCEPT ![d] = g], saved' = [saved EXCEPT ![d] = sv],
         checkpoint' = [checkpoint EXCEPT ![d] = cp],
         service' = [service EXCEPT ![d] = s], task' = [task EXCEPT ![d] = t],
         Device(cloud', g, sv, cp, s, t)
  PROVE  SyncInv'
<1>1. /\ cloud \in Seq(Content) /\ cloud' \in Seq(Content)
      /\ game \in [Devices -> Content] /\ saved \in [Devices -> Save]
      /\ checkpoint \in [Devices -> Checkpoint \cup {None}]
      /\ service \in [Devices -> Service] /\ task \in [Devices -> Task]
  BY DEF SyncInv, TypeOK, Grows
<1>2. ASSUME NEW e \in Devices
      PROVE  Device(cloud', game'[e], saved'[e], checkpoint'[e], service'[e],
                    task'[e])
  <2>1. CASE e = d
    <3>1. /\ game'[e] = g /\ saved'[e] = sv /\ checkpoint'[e] = cp
          /\ service'[e] = s /\ task'[e] = t
      BY <1>1, <2>1
    <3> QED BY <3>1
  <2>2. CASE e # d
    <3>1. Device(cloud, game[e], saved[e], checkpoint[e], service[e], task[e])
      BY DEF SyncInv
    <3>2. Device(cloud', game[e], saved[e], checkpoint[e], service[e], task[e])
      BY <1>1, <3>1, DeviceStays
    <3>3. /\ game'[e] = game[e] /\ saved'[e] = saved[e]
          /\ checkpoint'[e] = checkpoint[e] /\ service'[e] = service[e]
          /\ task'[e] = task[e]
      BY <1>1, <2>2
    <3> QED BY <3>2, <3>3
  <2> QED BY <2>1, <2>2
<1>3. /\ game' \in [Devices -> Content] /\ saved' \in [Devices -> Save]
      /\ checkpoint' \in [Devices -> Checkpoint \cup {None}]
      /\ service' \in [Devices -> Service] /\ task' \in [Devices -> Task]
  <2>1. g \in Content /\ sv \in Save /\ cp \in Checkpoint \cup {None}
        /\ s \in Service /\ t \in Task
    BY DEF Device
  <2> QED BY <1>1, <2>1
<1>4. \A e \in Devices: game'[e] # None
  BY <1>3, SyncAssumption DEF Content
<1> QED BY <1>1, <1>2, <1>3, <1>4 DEF SyncInv, TypeOK

LEMMA Own ==
  ASSUME SyncInv, NEW d \in Devices
  PROVE  /\ Device(cloud, game[d], saved[d], checkpoint[d], service[d], task[d])
         /\ game[d] \in Content /\ saved[d] \in Save
         /\ checkpoint[d] \in Checkpoint \cup {None}
         /\ service[d] \in Service /\ task[d] \in Task
         /\ Waits(task[d]) /\ Flags(saved[d], checkpoint[d], service[d], task[d])
         /\ Data(cloud, game[d], saved[d], checkpoint[d], service[d], task[d])
         /\ cloud \in Seq(Content) /\ Len(cloud) \in Nat /\ Grows(cloud, cloud)
         /\ Fault \/ UNCHANGED faults => faults' \in 0 .. Faults
<1>1. cloud \in Seq(Content) /\ faults \in 0 .. Faults /\ Faults \in Nat
  BY SyncAssumption DEF SyncInv, TypeOK
<1>2. Fault \/ UNCHANGED faults => faults' \in 0 .. Faults
  BY <1>1 DEF Fault
<1> QED BY <1>1, <1>2, Appended DEF SyncInv, Device

(* What a step leaves alone. *)
LEMMA Unmoved ==
  ASSUME SyncInv, NEW d \in Devices
  PROVE  /\ UNCHANGED cloud => Grows(cloud, cloud')
         /\ UNCHANGED game => game' = [game EXCEPT ![d] = game[d]]
         /\ UNCHANGED saved => saved' = [saved EXCEPT ![d] = saved[d]]
         /\ UNCHANGED checkpoint =>
              checkpoint' = [checkpoint EXCEPT ![d] = checkpoint[d]]
         /\ UNCHANGED service => service' = [service EXCEPT ![d] = service[d]]
         /\ UNCHANGED task => task' = [task EXCEPT ![d] = task[d]]
<1>1. Grows(cloud, cloud)
  BY Own
<1> QED BY <1>1 DEF SyncInv, TypeOK

(* An operation that goes on to its next await with nothing stored. *)
LEMMA GoesOnHolds ==
  ASSUME SyncInv, NEW d \in Devices, UNCHANGED <<cloud, deviceVars>>,
         faults' \in 0 .. Faults, NEW s, NEW t,
         service' = [service EXCEPT ![d] = s], task' = [task EXCEPT ![d] = t],
         Device(cloud, game[d], saved[d], checkpoint[d], s, t)
  PROVE  SyncInv'
<1>1. /\ game' = [game EXCEPT ![d] = game[d]]
      /\ saved' = [saved EXCEPT ![d] = saved[d]]
      /\ checkpoint' = [checkpoint EXCEPT ![d] = checkpoint[d]]
      /\ Grows(cloud, cloud') /\ cloud' = cloud
  BY Unmoved DEF deviceVars
<1> QED BY <1>1, Lifted

(* An operation that ends, whatever it has stored. *)
LEMMA ReturnHolds ==
  ASSUME SyncInv, NEW d \in Devices, Grows(cloud, cloud'),
         NEW sv \in Save, NEW cp \in Checkpoint \cup {None}, NEW s \in Service,
         saved' = [saved EXCEPT ![d] = sv],
         checkpoint' = [checkpoint EXCEPT ![d] = cp],
         UNCHANGED game, Return(d, s), faults' \in 0 .. Faults,
         Leaves(sv, cp, s),
         Base(cloud', game[d], sv, cp), Base(cloud', game[d], sv, s.pending),
         Offered(cloud', sv, s.review),
         sv = None \/ sv \subseteq game[d] \/ s.held
  PROVE  SyncInv'
<1>1. game[d] \in Content
  BY Own
<1>2. Device(cloud', game[d], sv, cp, Finished(s), NoTask)
  BY <1>1, ReturnKeeps
<1>3. /\ game' = [game EXCEPT ![d] = game[d]]
      /\ service' = [service EXCEPT ![d] = Finished(s)]
      /\ task' = [task EXCEPT ![d] = NoTask]
  BY Unmoved DEF Return
<1> QED BY <1>2, <1>3, Lifted

(* An operation that ends without having changed anything stored. *)
LEMMA StopHolds ==
  ASSUME SyncInv, NEW d \in Devices, Busy(d), task[d].at # "applied",
         NEW s \in Service, Leaves(saved[d], checkpoint[d], s),
         s.pending = service[d].pending, Offered(cloud, saved[d], s.review),
         Return(d, s), UNCHANGED <<cloud, deviceVars>>, faults' \in 0 .. Faults
  PROVE  SyncInv'
<1>1. /\ game[d] \in Content /\ saved[d] \in Save
      /\ checkpoint[d] \in Checkpoint \cup {None}
      /\ Data(cloud, game[d], saved[d], checkpoint[d], service[d], task[d])
  BY Own
<1>2. saved[d] = None \/ saved[d] \subseteq game[d]
  BY <1>1 DEF Data, Contains, Busy
<1>3. /\ saved' = [saved EXCEPT ![d] = saved[d]] /\ Grows(cloud, cloud')
      /\ checkpoint' = [checkpoint EXCEPT ![d] = checkpoint[d]]
      /\ cloud' = cloud /\ UNCHANGED game
  BY Unmoved DEF deviceVars
<1>4. /\ Base(cloud, game[d], saved[d], checkpoint[d])
      /\ Base(cloud, game[d], saved[d], s.pending)
  BY <1>1 DEF Data
<1> QED BY <1>1, <1>2, <1>3, <1>4, ReturnHolds

LEMMA GiveHolds ==
  ASSUME SyncInv, NEW d \in Devices, Busy(d), task[d].at # "applied",
         NEW s, Gives(service[d], s), Return(d, s),
         UNCHANGED <<cloud, deviceVars>>, faults' \in 0 .. Faults
  PROVE  SyncInv'
<1>1. Offered(cloud, saved[d], service[d].review)
  BY Own DEF Data
<1>2. Offered(cloud, saved[d], s.review)
  BY <1>1 DEF Gives, Offered
<1> QED BY <1>2, StopHolds DEF Gives

(* An operation starts. *)
LEMMA StartHolds ==
  ASSUME SyncInv, NEW d \in Devices, UNCHANGED <<cloud, saved>>,
         faults' \in 0 .. Faults,
         NEW g \in Content, NEW cp \in Checkpoint \cup {None},
         NEW s \in Service, NEW u \in Task,
         game' = [game EXCEPT ![d] = g],
         checkpoint' = [checkpoint EXCEPT ![d] = cp],
         service' = [service EXCEPT ![d] = s], task' = [task EXCEPT ![d] = u],
         u.at \in {"device", "pending"}, u.local = None,
         Waits(u), Flags(saved[d], cp, s, u),
         saved[d] = None \/ saved[d] \subseteq g,
         Base(cloud, g, saved[d], cp), Base(cloud, g, saved[d], s.pending),
         Base(cloud, g, saved[d], u.want),
         Offered(cloud, saved[d], s.review), Offered(cloud, saved[d], u.choice)
  PROVE  SyncInv'
<1>1. saved[d] \in Save /\ Data(cloud, g, saved[d], cp, s, u)
  BY Own DEF Data, Contains, ReadsHold
<1>2. Device(cloud, g, saved[d], cp, s, u)
  BY <1>1 DEF Device
<1>3. /\ Grows(cloud, cloud') /\ cloud' = cloud
      /\ saved' = [saved EXCEPT ![d] = saved[d]]
  BY Unmoved
<1> QED BY <1>2, <1>3, Lifted

(* Something happens beside it: progress is made or saved, a flag changes. *)
LEMMA BesideHolds ==
  ASSUME SyncInv, NEW d \in Devices, UNCHANGED <<cloud, checkpoint>>,
         faults' \in 0 .. Faults,
         NEW g \in Content, NEW sv \in Save, NEW s \in Service,
         NEW u \in {task[d], Stale(task[d])},
         game' = [game EXCEPT ![d] = g], saved' = [saved EXCEPT ![d] = sv],
         service' = [service EXCEPT ![d] = s], task' = [task EXCEPT ![d] = u],
         game[d] \subseteq g, sv = saved[d] \/ sv = g,
         service[d].held => s.held \/ sv = g,
         s.pending \in {service[d].pending, None},
         s.review \in {service[d].review, None},
         Flags(sv, checkpoint[d], s, u)
  PROVE  SyncInv'
<1> DEFINE t == task[d]
           cp == checkpoint[d]
<1>1. /\ game[d] \in Content /\ saved[d] \in Save
      /\ cp \in Checkpoint \cup {None}
      /\ t \in Task /\ Waits(t)
      /\ Data(cloud, game[d], saved[d], cp, service[d], t)
      /\ g # None
  BY Own, SyncAssumption DEF Content
<1>2. /\ u \in Task /\ u.op = t.op /\ u.at = t.at /\ u.local = t.local
      /\ u.ancestor = t.ancestor /\ u.rev = t.rev /\ u.choice = t.choice
      /\ u.want = t.want
  BY <1>1 DEF Stale, Task
<1>3. Waits(u)
  <2>1. ASSUME t.op = "none" PROVE u = t
    <3>1. ~t.stale /\ t.stale \in BOOLEAN
      BY <1>1, <2>1 DEF Waits, NoTask, Task
    <3>2. [t EXCEPT !.stale = FALSE] = t
      BY <1>1, <3>1 DEF Task
    <3> QED BY <2>1, <3>2 DEF Stale
  <2> QED BY <1>1, <1>2, <2>1 DEF Waits, Automatic
<1>4. ASSUME NEW c, Base(cloud, game[d], saved[d], c) PROVE Base(cloud, g, sv, c)
  BY <1>1, <1>4 DEF Base
<1>5. /\ Base(cloud, g, sv, cp) /\ Base(cloud, g, sv, s.pending)
      /\ Base(cloud, g, sv, u.want)
  <2>1. Base(cloud, g, sv, None)
    BY DEF Base
  <2> QED BY <1>1, <1>2, <1>4, <2>1 DEF Data
<1>6. Offered(cloud, sv, s.review) /\ Offered(cloud, sv, u.choice)
  BY <1>1, <1>2 DEF Data, Offered
<1>7. Contains(g, sv, s, u)
  BY <1>1, <1>2 DEF Data, Contains
<1>8. /\ u.local # None => sv # None
      /\ u.at \in {"cloud", "write"} /\ u.local # None =>
           u.local \subseteq g /\ u.local \subseteq sv
  BY <1>1, <1>2 DEF Data
<1>9. ReadsHold(cloud, g, cp, u)
  BY <1>1, <1>2 DEF Data, ReadsHold, Automatic
<1>10. Device(cloud, g, sv, cp, s, u)
  BY <1>1, <1>2, <1>3, <1>5, <1>6, <1>7, <1>8, <1>9 DEF Device, Data
<1>11. /\ Grows(cloud, cloud') /\ cloud' = cloud
       /\ checkpoint' = [checkpoint EXCEPT ![d] = cp]
  BY Unmoved
<1>12. Device(cloud', g, sv, cp, s, u)
  BY <1>10, <1>11
<1> HIDE DEF cp, t
<1> QED BY <1>11, <1>12, Lifted

-----------------------------------------------------------------------------
(* The steps of an operation *)

LEMMA AssessDeviceHolds ==
  ASSUME SyncInv, NEW d \in Devices, AssessDevice(d)
  PROVE  SyncInv'
<1> DEFINE t == task[d]
           s == service[d]
           u == [t EXCEPT !.at = "cloud", !.local = saved[d],
                          !.ancestor = checkpoint[d]]
<1>1. /\ game[d] \in Content /\ saved[d] \in Save
      /\ checkpoint[d] \in Checkpoint \cup {None}
      /\ s \in Service /\ t \in Task /\ Waits(t)
      /\ Flags(saved[d], checkpoint[d], s, t)
      /\ Data(cloud, game[d], saved[d], checkpoint[d], s, t)
  BY Own
<1>2. t.at = "device" /\ t.op # "none" /\ Busy(d)
  BY <1>1 DEF AssessDevice, Waits, NoTask, Busy
<1>3. faults' \in 0 .. Faults /\ UNCHANGED <<cloud, deviceVars>>
  <2>1. Fault \/ UNCHANGED faults
    BY DEF AssessDevice
  <2> QED BY <2>1, Own DEF AssessDevice
<1>4. CASE Continue(d, u) /\ UNCHANGED service
  <2>1. /\ u \in Task /\ u.op = t.op /\ u.at = "cloud" /\ u.local = saved[d]
        /\ u.ancestor = checkpoint[d] /\ u.want = t.want
        /\ u.choice = t.choice /\ u.stale = t.stale
    BY <1>1 DEF Task
  <2> HIDE DEF u
  <2>2. Waits(u) /\ Flags(saved[d], checkpoint[d], s, u)
    BY <1>1, <1>2, <2>1 DEF Waits, Automatic, Flags, Running
  <2>3. saved[d] = None \/ saved[d] \subseteq game[d]
    BY <1>1, <1>2 DEF Data, Contains
  <2>4. u.op \in {"keepThisDevice", "useCloud"} => saved[d] # None
    BY <1>1, <2>1 DEF Waits, Data, Offered
  <2>5. ReadsHold(cloud, game[d], checkpoint[d], u)
    BY <1>1, <2>1, <2>4 DEF ReadsHold, Data, Base
  <2>6. Data(cloud, game[d], saved[d], checkpoint[d], s, u)
    BY <1>1, <2>1, <2>3, <2>5 DEF Data, Contains
  <2>7. Device(cloud, game[d], saved[d], checkpoint[d], s, u)
    BY <1>1, <2>1, <2>2, <2>6 DEF Device
  <2>8. service' = [service EXCEPT ![d] = s] /\ task' = [task EXCEPT ![d] = u]
    BY <1>4, Unmoved DEF Continue, u
  <2> QED BY <1>3, <2>7, <2>8, GoesOnHolds
<1>5. ASSUME Return(d, IF t.stale THEN s ELSE ShowIssue(s)) PROVE SyncInv'
  <2>1. Gives(s, IF t.stale THEN s ELSE ShowIssue(s))
    <3>1. ~t.stale => Gives(s, ShowIssue(s))
      BY <1>1, <1>2, ShownIssue DEF Gives, Leaves, Flags, Running, Configured
    <3> QED BY <1>1, <3>1, StaleGives DEF Task
  <2> QED BY <1>2, <1>3, <1>5, <2>1, GiveHolds
<1>6. CASE Fail(d, s)
  <2>1. PICK r: Return(d, r) /\ Gives(s, r)
    BY <1>1, <1>2, <1>6, FailGives
  <2> QED BY <1>2, <1>3, <2>1, GiveHolds
<1> QED BY <1>4, <1>5, <1>6 DEF AssessDevice

(* An acknowledgement that is about to be stored. *)
LEMMA RecordKeeps ==
  ASSUME NEW cl \in Seq(Content), NEW g \in Content, NEW sv \in Save,
         NEW cp \in Checkpoint \cup {None}, NEW s \in Service, NEW t \in Task,
         NEW save \in Content, NEW rev \in Nat,
         ~t.stale, t.op \notin {"none", "prepareConflictReview"},
         t.op \in {"keepThisDevice", "useCloud"} => t.choice # None,
         ~s.timer, Configured(s), t.op = "synchronize" => ~s.conflict,
         t.op = "retrySyncConfirmation" => ~s.conflict,
         Base(cl, g, sv, cp), Base(cl, g, sv, s.pending),
         Base(cl, g, sv, [save |-> save, rev |-> rev]),
         Offered(cl, sv, s.review), Offered(cl, sv, t.choice),
         sv = None \/ sv \subseteq g,
         NEW want, want = IF s.pending = None THEN [save |-> save, rev |-> rev]
                          ELSE s.pending
  PROVE  Device(cl, g, sv, cp, [s EXCEPT !.pending = want],
                [t EXCEPT !.at = "record", !.want = want, !.local = None,
                          !.ancestor = None])
<1> DEFINE r == [s EXCEPT !.pending = want]
           u == [t EXCEPT !.at = "record", !.want = want, !.local = None,
                          !.ancestor = None]
<1>1. want \in Checkpoint \cup {None} /\ Base(cl, g, sv, want)
  BY DEF Checkpoint, Service
<1>2. /\ r \in Service /\ r.pending = want /\ r.timer = s.timer
      /\ r.import = s.import /\ r.held = s.held /\ r.conflict = s.conflict
      /\ r.issue = s.issue /\ r.review = s.review
  BY <1>1 DEF Service
<1>3. /\ u \in Task /\ u.op = t.op /\ u.at = "record" /\ u.want = want
      /\ u.local = None /\ u.choice = t.choice /\ u.stale = t.stale
  BY <1>1 DEF Task, Save
<1> HIDE DEF r, u
<1>4. Waits(u)
  BY <1>3 DEF Waits, NoTask
<1>5. Flags(sv, cp, r, u)
  BY <1>2, <1>3 DEF Flags, Running, Configured
<1>6. Data(cl, g, sv, cp, r, u)
  BY <1>1, <1>2, <1>3 DEF Data, Contains, ReadsHold
<1>7. Device(cl, g, sv, cp, r, u)
  BY <1>2, <1>3, <1>4, <1>5, <1>6 DEF Device
<1> QED BY <1>7 DEF r, u

LEMMA PlanIs ==
  ASSUME NEW t \in Task
  PROVE  LET action == Plan(t.local, t.ancestor, t.rev) IN
         /\ action = "noData" => t.local = None
         /\ action = "alreadySynchronized" =>
              t.local # None /\ t.rev > 0 /\ t.local = cloud[t.rev]
         /\ action = "uploadLocal" =>
              /\ t.local # None
              /\ t.rev > 0 => t.ancestor # None /\ t.rev = t.ancestor.rev
         /\ action = "downloadCloud" =>
              /\ t.rev > 0
              /\ t.local # None => t.ancestor # None /\ t.local = t.ancestor.save
<1>1. t.rev \in Nat
  BY DEF Task
<1>2. CASE t.local = None /\ t.rev = 0
  BY <1>2 DEF Plan
<1>3. CASE t.local # None /\ t.rev = 0
  BY <1>3 DEF Plan
<1>4. CASE t.local = None /\ t.rev > 0
  BY <1>4 DEF Plan
<1>5. CASE t.local # None /\ t.rev > 0
  BY <1>5 DEF Plan
<1> QED BY <1>1, <1>2, <1>3, <1>4, <1>5

LEMMA ApplyHolds ==
  ASSUME SyncInv, NEW d \in Devices, task[d].at = "cloud", ~task[d].stale,
         Automatic(task[d]),
         NEW t, t = [task[d] EXCEPT !.rev = Latest],
         NEW s \in Service,
         s.pending = service[d].pending, s.review = service[d].review,
         s.held = service[d].held, s.import = service[d].import,
         s.timer = service[d].timer, ~s.issue, ~s.conflict,
         Apply(d, t, s), UNCHANGED <<cloud, deviceVars, faults>>
  PROVE  SyncInv'
<1> DEFINE g == game[d]
           sv == saved[d]
           cp == checkpoint[d]
<1>1. /\ g \in Content /\ sv \in Save /\ cp \in Checkpoint \cup {None}
      /\ task[d] \in Task /\ Waits(task[d])
      /\ Flags(sv, cp, service[d], task[d])
      /\ Data(cloud, g, sv, cp, service[d], task[d])
      /\ cloud \in Seq(Content) /\ Len(cloud) \in Nat
      /\ faults' \in 0 .. Faults
  BY Own
<1>2. /\ t \in Task /\ t.op = task[d].op /\ t.at = "cloud" /\ ~t.stale
      /\ t.local = task[d].local /\ t.ancestor = cp /\ t.rev = Len(cloud)
      /\ t.want = task[d].want /\ t.choice = task[d].choice
      /\ Automatic(t) /\ t.op # "none" /\ Busy(d)
  <2>1. /\ t \in Task /\ t.op = task[d].op /\ t.at = "cloud" /\ ~t.stale
        /\ t.local = task[d].local /\ t.ancestor = task[d].ancestor
        /\ t.rev = Len(cloud)
        /\ t.want = task[d].want /\ t.choice = task[d].choice
    BY <1>1 DEF Task, Latest
  <2>2. task[d].ancestor = cp
    BY <1>1 DEF Data, ReadsHold
  <2> HIDE DEF cp
  <2> QED BY <2>1, <2>2 DEF Automatic, Busy
<1>3. Configured(s) /\ s.pending = None /\ ~s.timer /\ s.import # "drained"
  BY <1>1, <1>2 DEF Flags, Running, Configured
<1>4. sv = None \/ sv \subseteq g
  BY <1>1, <1>2 DEF Data, Contains
<1>5. /\ Base(cloud, g, sv, cp) /\ Base(cloud, g, sv, None)
      /\ Base(cloud, g, sv, t.want)
      /\ Offered(cloud, sv, s.review) /\ Offered(cloud, sv, t.choice)
  BY <1>1, <1>2 DEF Data, Base
<1>6. t.local # None =>
        sv # None /\ t.local \in Content /\ t.local \subseteq g /\ t.local \subseteq sv
  BY <1>1, <1>2 DEF Data, Task, Save
<1>7. /\ Grows(cloud, cloud') /\ cloud' = cloud
      /\ game' = [game EXCEPT ![d] = game'[d]] /\ game'[d] = g
      /\ saved' = [saved EXCEPT ![d] = saved'[d]] /\ saved'[d] = sv
      /\ checkpoint' = [checkpoint EXCEPT ![d] = checkpoint'[d]]
      /\ checkpoint'[d] = cp
  BY Unmoved DEF deviceVars
<1> HIDE DEF g, sv, cp
<1> DEFINE action == Plan(t.local, t.ancestor, t.rev)
<1>8. /\ action = "noData" => t.local = None
      /\ action = "alreadySynchronized" =>
           t.local # None /\ t.rev > 0 /\ t.local = cloud[t.rev]
      /\ action = "uploadLocal" =>
           /\ t.local # None
           /\ t.rev > 0 => t.ancestor # None /\ t.rev = t.ancestor.rev
      /\ action = "downloadCloud" =>
           /\ t.rev > 0
           /\ t.local # None => t.ancestor # None /\ t.local = t.ancestor.save
  BY <1>2, PlanIs
<1> HIDE DEF action
<1>9. CASE action = "noData" /\ Return(d, s)
  <2>1. cp = None
    BY <1>1, <1>2, <1>8, <1>9 DEF Data, ReadsHold
  <2>2. Leaves(sv, cp, s)
    BY <1>3, <2>1 DEF Leaves
  <2> QED BY <1>1, <1>2, <1>5, <1>9, <2>2, StopHolds DEF sv, cp
<1>10. CASE action = "alreadySynchronized" /\ Record(d, t, s, cloud[t.rev], t.rev)
  <2> DEFINE want == [save |-> cloud[t.rev], rev |-> t.rev]
             r == [s EXCEPT !.pending = want]
             u == [t EXCEPT !.at = "record", !.want = want, !.local = None,
                            !.ancestor = None]
  <2>1. t.local # None /\ t.local = cloud[t.rev] /\ t.rev \in 1 .. Len(cloud)
    BY <1>1, <1>2, <1>8, <1>10
  <2>2. cloud[t.rev] \in Content /\ t.rev \in Nat
    BY <1>6, <2>1
  <2>3. Base(cloud, g, sv, [save |-> cloud[t.rev], rev |-> t.rev])
    BY <1>6, <2>1 DEF Base
  <2>4. Device(cloud, g, sv, cp, r, u)
    <3> HIDE DEF r, u
    <3>1. t.op \notin {"none", "prepareConflictReview", "keepThisDevice", "useCloud"}
      BY <1>2 DEF Automatic
    <3>2. want = IF s.pending = None THEN [save |-> cloud[t.rev], rev |-> t.rev]
                 ELSE s.pending
      BY <1>3
    <3> HIDE DEF want
    <3> QED BY <1>1, <1>2, <1>3, <1>4, <1>5, <2>2, <2>3, <3>1, <3>2, RecordKeeps
            DEF r, u
  <2>5. /\ service' = [service EXCEPT ![d] = r] /\ task' = [task EXCEPT ![d] = u]
    BY <1>3, <1>10 DEF Record, Continue
  <2> HIDE DEF r, u
  <2> QED BY <1>1, <2>4, <2>5, GoesOnHolds DEF g, sv, cp
<1>11. CASE /\ action = "alreadySynchronized"
            /\ Continue(d, [t EXCEPT !.at = "confirm", !.want = t.ancestor,
                                     !.local = None, !.ancestor = None])
            /\ service' = [service EXCEPT ![d] = s]
  <2> DEFINE u == [t EXCEPT !.at = "confirm", !.want = t.ancestor,
                            !.local = None, !.ancestor = None]
  <2>1. /\ u \in Task /\ u.op = t.op /\ u.at = "confirm" /\ u.want = cp
        /\ u.local = None /\ u.choice = t.choice /\ u.stale = t.stale
    BY <1>1, <1>2 DEF Task, Save
  <2>2. task' = [task EXCEPT ![d] = u]
    BY <1>11 DEF Continue
  <2> HIDE DEF u
  <2>3. Waits(u) /\ Flags(sv, cp, s, u)
    BY <1>2, <1>3, <2>1 DEF Waits, Automatic, Flags, Running
  <2>4. Data(cloud, g, sv, cp, s, u)
    BY <1>3, <1>4, <1>5, <2>1 DEF Data, Contains, ReadsHold
  <2>5. Device(cloud, g, sv, cp, s, u)
    BY <1>1, <2>1, <2>3, <2>4 DEF Device
  <2> QED BY <1>1, <1>11, <2>2, <2>5, GoesOnHolds DEF g, sv, cp
<1>12. ASSUME NEW at \in {"write", "reread"},
              action = IF at = "write" THEN "uploadLocal" ELSE "downloadCloud",
              Continue(d, [t EXCEPT !.ancestor = None, !.at = at]),
              service' = [service EXCEPT ![d] = s]
       PROVE  SyncInv'
  <2> DEFINE u == [t EXCEPT !.ancestor = None, !.at = at]
  <2>1. /\ u \in Task /\ u.op = t.op /\ u.at = at /\ u.want = t.want
        /\ u.rev = t.rev
        /\ u.local = t.local /\ u.choice = t.choice /\ u.stale = t.stale
    BY <1>1, <1>2 DEF Task, Save
  <2>2. task' = [task EXCEPT ![d] = u]
    BY <1>12 DEF Continue
  <2> HIDE DEF u
  <2>3. Waits(u) /\ Flags(sv, cp, s, u)
    BY <1>2, <1>3, <2>1 DEF Waits, Automatic, Flags, Running
  <2>4. cp # None => cp.rev \in 1 .. Len(cloud) /\ cloud[cp.rev] = cp.save
    BY <1>5 DEF Base
  <2>5. ReadsHold(cloud, g, cp, u)
    <3>1. CASE at = "write"
      <4>1. t.local # None /\ (t.rev > 0 => cp # None /\ cp.rev = Len(cloud))
        BY <1>2, <1>8, <1>12, <3>1
      <4>2. t.rev > 0 => cloud[t.rev] \subseteq t.local
        BY <1>1, <1>2, <2>4, <4>1 DEF Data, ReadsHold
      <4> QED BY <1>1, <1>2, <2>1, <3>1, <4>1, <4>2 DEF ReadsHold, Automatic
    <3>2. CASE at = "reread"
      <4>1. t.rev > 0 /\ (t.local # None => cp # None /\ t.local = cp.save)
        BY <1>2, <1>8, <1>12, <3>2
      <4> QED BY <1>1, <1>2, <2>1, <2>4, <3>2, <4>1 DEF ReadsHold
    <3> QED BY <3>1, <3>2
  <2>6. Data(cloud, g, sv, cp, s, u)
    BY <1>3, <1>4, <1>5, <1>6, <2>1, <2>5 DEF Data, Contains
  <2>7. Device(cloud, g, sv, cp, s, u)
    BY <1>1, <2>1, <2>3, <2>6 DEF Device
  <2> QED BY <1>1, <1>12, <2>2, <2>7, GoesOnHolds DEF g, sv, cp
<1>13. CASE Return(d, [ShowConflict(s) EXCEPT !.conflict = TRUE])
  <2> DEFINE r == [ShowConflict(s) EXCEPT !.conflict = TRUE]
  <2>1. /\ r \in Service /\ r.asks /\ ~r.timer
        /\ r.pending = s.pending /\ r.review = s.review
    <3> DEFINE x == ShowConflict(s)
    <3>1. /\ x \in Service /\ x.asks /\ ~x.timer
          /\ x.pending = s.pending /\ x.review = s.review
      BY ShownConflict
    <3> HIDE DEF x
    <3>2. /\ [x EXCEPT !.conflict = TRUE] \in Service
          /\ [x EXCEPT !.conflict = TRUE].asks = x.asks
          /\ [x EXCEPT !.conflict = TRUE].timer = x.timer
          /\ [x EXCEPT !.conflict = TRUE].pending = x.pending
          /\ [x EXCEPT !.conflict = TRUE].review = x.review
      BY <3>1 DEF Service
    <3> QED BY <3>1, <3>2 DEF x
  <2> HIDE DEF r
  <2>2. Leaves(sv, cp, r)
    BY <1>3, <2>1 DEF Leaves
  <2>3. r.pending = service[d].pending /\ Offered(cloud, sv, r.review)
    BY <1>5, <2>1
  <2> QED BY <1>1, <1>2, <1>13, <2>1, <2>2, <2>3, StopHolds DEF sv, cp, r
<1>14. CASE /\ action \in {"uploadLocal", "downloadCloud"}
            /\ Continue(d, [t EXCEPT !.ancestor = None,
                                     !.at = IF action = "uploadLocal" THEN "write"
                                            ELSE "reread"])
            /\ service' = [service EXCEPT ![d] = s]
  <2> DEFINE at == IF action = "uploadLocal" THEN "write" ELSE "reread"
  <2>1. /\ at \in {"write", "reread"}
        /\ action = IF at = "write" THEN "uploadLocal" ELSE "downloadCloud"
        /\ Continue(d, [t EXCEPT !.ancestor = None, !.at = at])
    BY <1>14
  <2> HIDE DEF at
  <2> QED BY <1>12, <1>14, <2>1
<1> QED BY <1>9, <1>10, <1>11, <1>13, <1>14 DEF Apply, action

(* The latest revision is loaded; the save is still to come. *)
LEMMA RestoreHolds ==
  ASSUME SyncInv, NEW d \in Devices, Busy(d), ~task[d].stale,
         task[d].at \notin {"record", "pending"},
         NEW t \in Task, t.op = task[d].op, t.want = task[d].want,
         t.choice = task[d].choice, ~t.stale,
         t.rev = Len(cloud), t.rev > 0, t.local \in {task[d].local, None},
         Automatic(t) \/ t.op = "useCloud",
         t.op = "retrySyncConfirmation" => ~service[d].conflict,
         Restore(d, t), UNCHANGED <<cloud, saved, checkpoint, faults>>
  PROVE  SyncInv'
<1> DEFINE sv == saved[d]
           cp == checkpoint[d]
           s == service[d]
           g == cloud[t.rev]
           u == [t EXCEPT !.at = "applied"]
<1>1. /\ sv \in Save /\ cp \in Checkpoint \cup {None} /\ s \in Service
      /\ Waits(task[d]) /\ Flags(sv, cp, s, task[d])
      /\ Data(cloud, game[d], sv, cp, s, task[d])
      /\ cloud \in Seq(Content) /\ Len(cloud) \in Nat
      /\ faults' \in 0 .. Faults
  BY Own
<1>2. t.rev \in 1 .. Len(cloud) /\ g \in Content
  BY <1>1
<1>3. /\ u \in Task /\ u.op = t.op /\ u.at = "applied" /\ u.want = t.want
      /\ u.local = t.local /\ u.choice = t.choice /\ u.stale = t.stale
      /\ u.rev = t.rev
  BY DEF Task
<1>4. /\ game' = [game EXCEPT ![d] = g] /\ task' = [task EXCEPT ![d] = u]
      /\ UNCHANGED service
  BY DEF Restore, Continue
<1>5. \A c: Base(cloud, game[d], sv, c) => Base(cloud, g, sv, c)
  BY DEF Base
<1> HIDE DEF g, u, sv, cp, s
<1>6. Waits(u) /\ Flags(sv, cp, s, u)
  BY <1>1, <1>3 DEF Waits, Automatic, Flags, Running, Busy, s
<1>7. Data(cloud, g, sv, cp, s, u)
  <2>1. /\ Base(cloud, g, sv, cp) /\ Base(cloud, g, sv, s.pending)
        /\ Base(cloud, g, sv, u.want)
    BY <1>1, <1>3, <1>5 DEF Data
  <2>2. ReadsHold(cloud, g, cp, u)
    BY <1>2, <1>3 DEF ReadsHold, g
  <2> QED BY <1>1, <1>3, <2>1, <2>2 DEF Data, Contains
<1>8. Device(cloud, g, sv, cp, s, u)
  BY <1>1, <1>2, <1>3, <1>6, <1>7 DEF Device
<1>9. /\ Grows(cloud, cloud') /\ cloud' = cloud
      /\ saved' = [saved EXCEPT ![d] = sv]
      /\ checkpoint' = [checkpoint EXCEPT ![d] = cp]
      /\ service' = [service EXCEPT ![d] = s]
  BY <1>4, Unmoved DEF sv, cp, s
<1>10. game' = [game EXCEPT ![d] = g] /\ task' = [task EXCEPT ![d] = u]
  BY <1>4
<1>11. faults' \in 0 .. Faults /\ Device(cloud', g, sv, cp, s, u)
  BY <1>1, <1>8, <1>9
<1> QED BY <1>9, <1>10, <1>11, Lifted

LEMMA ReadCloudHolds ==
  ASSUME SyncInv, NEW d \in Devices, ReadCloud(d)
  PROVE  SyncInv'
<1> DEFINE s == service[d]
           t == [task[d] EXCEPT !.rev = Latest]
<1>1. /\ s \in Service /\ task[d] \in Task /\ Waits(task[d])
      /\ Flags(saved[d], checkpoint[d], s, task[d])
      /\ Data(cloud, game[d], saved[d], checkpoint[d], s, task[d])
      /\ cloud \in Seq(Content) /\ Len(cloud) \in Nat
      /\ Fault \/ UNCHANGED faults => faults' \in 0 .. Faults
  BY Own
<1>2. /\ t \in Task /\ t.op = task[d].op /\ t.at = task[d].at
      /\ t.stale = task[d].stale /\ t.local = task[d].local
      /\ t.rev = Len(cloud) /\ t.want = task[d].want
      /\ t.choice = task[d].choice /\ t.ancestor = task[d].ancestor
  BY <1>1 DEF Task, Latest
<1>3. /\ task[d].at = "cloud" /\ task[d].op # "none" /\ Busy(d)
      /\ UNCHANGED <<cloud, saved, checkpoint>>
      /\ Automatic(t) <=> Automatic(task[d])
  BY <1>1, <1>2 DEF ReadCloud, Waits, NoTask, Busy, Automatic
<1>4. ~t.stale => /\ Configured(s) /\ s.pending = None /\ ~s.timer
                  /\ t.op = "synchronize" => ~s.conflict /\ ~s.issue
  BY <1>1, <1>2, <1>3 DEF Flags, Running
<1>5. Offered(cloud, saved[d], s.review) /\ Offered(cloud, saved[d], t.choice)
      /\ (t.local # None => saved[d] # None)
  BY <1>1, <1>2 DEF Data
<1>6. CASE t.stale /\ Return(d, s) /\ UNCHANGED <<game, faults>>
  BY <1>1, <1>2, <1>3, <1>6, StaleGives, GiveHolds DEF deviceVars
<1>7. ASSUME ~t.stale, NEW r \in Service, Return(d, r), UNCHANGED game,
             Fault \/ UNCHANGED faults, r.asks, ~r.timer,
             r.pending = s.pending,
             Offered(cloud, saved[d], r.review)
      PROVE  SyncInv'
  <2>1. Leaves(saved[d], checkpoint[d], r)
    BY <1>4, <1>7 DEF Leaves
  <2> QED BY <1>1, <1>3, <1>7, <2>1, StopHolds DEF deviceVars
<1>8. ShowConflict(s) \in Service /\ ShowConflict(s).asks
      /\ ~ShowConflict(s).timer /\ ShowConflict(s).pending = s.pending
      /\ Offered(cloud, saved[d], ShowConflict(s).review)
  BY <1>1, <1>5, ShownConflict
<1> DEFINE cleared == [s EXCEPT !.issue = FALSE,
                         !.conflict = IF t.op = "synchronize" THEN @ ELSE FALSE]
<1>9. /\ cleared \in Service
      /\ cleared.pending = s.pending /\ cleared.review = s.review
      /\ cleared.held = s.held /\ cleared.import = s.import
      /\ cleared.timer = s.timer /\ ~cleared.issue
      /\ ~t.stale => ~cleared.conflict
  BY <1>1, <1>4 DEF Service
<1>10. ASSUME ~t.stale, Assessed(d, t, s), UNCHANGED faults
       PROVE  SyncInv'
  <2>1. CASE Automatic(t) /\ Apply(d, t, cleared) /\ UNCHANGED game
    <3> HIDE DEF cleared
    <3> QED BY <1>2, <1>3, <1>9, <1>10, <2>1, ApplyHolds DEF deviceVars
  <2>2. ASSUME t.local # None, t.rev # 0,
               Return(d, [ShowConflict(s) EXCEPT !.review = t.rev]), UNCHANGED game
        PROVE  SyncInv'
    <3> DEFINE x == ShowConflict(s)
               r == [x EXCEPT !.review = t.rev]
    <3>1. x \in Service /\ x.asks /\ ~x.timer /\ x.pending = s.pending
      BY <1>8
    <3> HIDE DEF x
    <3>2. /\ r \in Service /\ r.asks /\ ~r.timer /\ r.pending = s.pending
          /\ r.review = t.rev
      BY <1>1, <1>2, <3>1 DEF Service
    <3>3. Offered(cloud, saved[d], r.review)
      BY <1>1, <1>2, <1>5, <2>2, <3>2 DEF Offered
    <3>4. Return(d, r)
      BY <2>2 DEF x
    <3> HIDE DEF r
    <3> QED BY <1>7, <1>10, <2>2, <3>2, <3>3, <3>4
  <2>3. CASE Return(d, ShowConflict(s)) /\ UNCHANGED game
    BY <1>7, <1>8, <1>10, <2>3
  <2>4. CASE /\ t.op = "keepThisDevice" /\ MatchesReviewedCloud(t)
             /\ Continue(d, [t EXCEPT !.at = "write", !.ancestor = None])
             /\ UNCHANGED <<service, game>>
    <3> DEFINE u == [t EXCEPT !.at = "write", !.ancestor = None]
               g == game[d]
               sv == saved[d]
               cp == checkpoint[d]
    <3>1. /\ u \in Task /\ u.op = t.op /\ u.at = "write" /\ u.want = t.want
          /\ u.rev = t.rev
          /\ u.local = t.local /\ u.choice = t.choice /\ u.stale = t.stale
      BY <1>1, <1>2 DEF Task
    <3> HIDE DEF u
    <3>2. g \in Content /\ sv \in Save /\ cp \in Checkpoint \cup {None}
      BY Own
    <3>3. Waits(u) /\ Flags(sv, cp, s, u)
      BY <1>1, <1>2, <1>3, <2>4, <3>1 DEF Waits, Flags, Running, Automatic
    <3>4. ReadsHold(cloud, g, cp, u)
      BY <1>1, <1>2, <1>3, <2>4, <3>1
         DEF Data, ReadsHold, MatchesReviewedCloud, Automatic
    <3>5. Data(cloud, g, sv, cp, s, u)
      BY <1>1, <1>2, <1>3, <3>1, <3>4 DEF Data, Contains
    <3>6. Device(cloud, g, sv, cp, s, u)
      BY <1>1, <3>1, <3>2, <3>3, <3>5 DEF Device
    <3>7. task' = [task EXCEPT ![d] = u]
      BY <2>4 DEF Continue, u
    <3>8. service' = [service EXCEPT ![d] = s]
      BY <2>4, Unmoved
    <3> QED BY <1>1, <1>3, <1>10, <2>4, <3>6, <3>7, <3>8, GoesOnHolds DEF deviceVars
  <2>5. CASE /\ t.op = "useCloud" /\ MatchesReviewedCloud(t)
             /\ Restore(d, [t EXCEPT !.local = None, !.ancestor = None])
    <3> DEFINE u == [t EXCEPT !.local = None, !.ancestor = None]
    <3>1. /\ u \in Task /\ u.op = t.op /\ u.want = t.want /\ u.rev = t.rev
          /\ u.local = None /\ u.choice = t.choice /\ u.stale = t.stale
      BY <1>1, <1>2 DEF Task, Save
    <3>2. t.rev > 0
      BY <1>1, <1>2, <1>5, <2>5 DEF Waits, Offered, MatchesReviewedCloud
    <3> HIDE DEF u
    <3>3. Restore(d, u)
      BY <2>5 DEF u
    <3> QED BY <1>2, <1>3, <1>10, <2>5, <3>1, <3>2, <3>3, RestoreHolds
  <2> QED BY <1>10, <2>1, <2>2, <2>3, <2>4, <2>5 DEF Assessed
<1>11. ASSUME ~t.stale, Fault, UNCHANGED game,
              Return(d, IF Automatic(t)
                        THEN ScheduleRetry([s EXCEPT !.issue = FALSE,
                               !.conflict = t.op = "synchronize" /\ @])
                        ELSE ShowConflict(s))
       PROVE  SyncInv'
  <2>1. CASE ~Automatic(t)
    BY <1>7, <1>8, <1>11, <2>1
  <2>2. CASE Automatic(t)
    <3> DEFINE x == [s EXCEPT !.issue = FALSE,
                              !.conflict = t.op = "synchronize" /\ @]
               r == ScheduleRetry(x)
    <3>1. /\ x \in Service /\ x.pending = s.pending /\ x.review = s.review
          /\ ~x.conflict /\ ~x.issue /\ x.held = s.held /\ x.import = s.import
      BY <1>1, <1>4, <1>11 DEF Service
    <3> HIDE DEF x
    <3>2. /\ r \in Service /\ r.pending = s.pending /\ r.review = s.review
          /\ ~r.conflict /\ ~r.issue /\ r.held = s.held
          /\ r.import = s.import /\ r.timer
      BY <3>1, ScheduledRetry
    <3> HIDE DEF r
    <3>3. Leaves(saved[d], checkpoint[d], r)
      BY <1>4, <1>11, <3>2 DEF Leaves, Configured
    <3> QED BY <1>1, <1>3, <1>5, <1>11, <2>2, <3>2, <3>3, StopHolds
            DEF deviceVars, r, x
  <2> QED BY <2>1, <2>2
<1> QED BY <1>3, <1>6, <1>10, <1>11 DEF ReadCloud

(* The document has grown, and the answer is known, unwanted or lost. *)
LEMMA WriteCloudHolds ==
  ASSUME SyncInv, NEW d \in Devices, WriteCloud(d)
  PROVE  SyncInv'
<1> DEFINE t == task[d]
           s == service[d]
           g == game[d]
           sv == saved[d]
           cp == checkpoint[d]
<1>1. /\ g \in Content /\ sv \in Save /\ cp \in Checkpoint \cup {None}
      /\ s \in Service /\ t \in Task /\ Waits(t) /\ Flags(sv, cp, s, t)
      /\ Data(cloud, g, sv, cp, s, t)
      /\ cloud \in Seq(Content) /\ Len(cloud) \in Nat
      /\ Fault \/ UNCHANGED faults => faults' \in 0 .. Faults
  BY Own
<1>2. t.at = "write" /\ t.op # "none" /\ Busy(d) /\ UNCHANGED deviceVars
  BY <1>1 DEF WriteCloud, Waits, NoTask, Busy
<1>3. Fault \/ UNCHANGED faults
  BY DEF WriteCloud
<1>4. ~t.stale => /\ Configured(s) /\ s.pending = None /\ ~s.timer
                  /\ t.op \in {"synchronize", "retrySyncConfirmation"}
                       => ~s.conflict
  BY <1>1, <1>2 DEF Flags, Running
<1>5. t.stale => Gives(s, s)
  BY <1>1, StaleGives
<1>6. Fail(d, s) => \E r: Return(d, r) /\ Gives(s, r)
  BY <1>1, <1>2, FailGives
<1>7. ASSUME cloud' = Append(cloud, t.local), Latest = t.rev
      PROVE  /\ Grows(cloud, cloud') /\ t.local \in Content
             /\ Base(cloud', g, sv, cp) /\ Base(cloud', g, sv, s.pending)
             /\ Base(cloud', g, sv, t.want)
             /\ Offered(cloud', sv, s.review) /\ Offered(cloud', sv, t.choice)
             /\ Base(cloud', g, sv, [save |-> t.local, rev |-> t.rev + 1])
  <2>1. t.local \in Content
    BY <1>1, <1>2 DEF Data, ReadsHold, Task, Save
  <2>2. /\ Grows(cloud, cloud') /\ Len(cloud') = Len(cloud) + 1
        /\ cloud'[Len(cloud) + 1] = t.local
    BY <1>1, <1>7, <2>1, Appended
  <2>3. s.pending \in Checkpoint \cup {None} /\ t.want \in Checkpoint \cup {None}
        /\ t.rev = Len(cloud)
    BY <1>1, <1>7 DEF Service, Task, Latest
  <2>4. /\ Base(cloud', g, sv, cp) /\ Base(cloud', g, sv, s.pending)
        /\ Base(cloud', g, sv, t.want)
    BY <1>1, <2>2, <2>3, BaseStays DEF Data
  <2>5. Offered(cloud', sv, s.review) /\ Offered(cloud', sv, t.choice)
    BY <1>1, <2>2 DEF Data, Offered
  <2>6. t.local \subseteq g /\ t.local \subseteq sv /\ sv # None
    BY <1>1, <1>2 DEF Data, ReadsHold
  <2>7. Base(cloud', g, sv, [save |-> t.local, rev |-> t.rev + 1])
    BY <1>1, <2>2, <2>3, <2>6 DEF Base
  <2> QED BY <2>1, <2>2, <2>4, <2>5, <2>7
<1>8. ASSUME cloud' = Append(cloud, t.local), Latest = t.rev,
             NEW r, Gives(s, r), Return(d, r)
      PROVE  SyncInv'
  <2>1. saved' = [saved EXCEPT ![d] = sv] /\ checkpoint' = [checkpoint EXCEPT ![d] = cp]
        /\ UNCHANGED game
    BY <1>2, Unmoved DEF deviceVars
  <2>2. sv = None \/ sv \subseteq g
    BY <1>1, <1>2 DEF Data, Contains
  <2>3. Offered(cloud', sv, r.review)
    BY <1>7, <1>8 DEF Gives, Offered
  <2> QED BY <1>1, <1>3, <1>7, <1>8, <2>1, <2>2, <2>3, ReturnHolds DEF Gives
<1>9. ASSUME cloud' = Append(cloud, t.local), Latest = t.rev, ~t.stale,
             Record(d, t, s, t.local, t.rev + 1)
      PROVE  SyncInv'
  <2> DEFINE want == IF s.pending = None THEN [save |-> t.local, rev |-> t.rev + 1]
                     ELSE s.pending
             r == [s EXCEPT !.pending = want]
             u == [t EXCEPT !.at = "record", !.want = want, !.local = None,
                            !.ancestor = None]
  <2>1. service' = [service EXCEPT ![d] = r] /\ task' = [task EXCEPT ![d] = u]
    BY <1>9 DEF Record, Continue
  <2>2. sv = None \/ sv \subseteq g
    BY <1>1, <1>2 DEF Data, Contains
  <2>3. cloud' \in Seq(Content) /\ t.rev + 1 \in Nat
    BY <1>1, <1>7, <1>9 DEF Grows, Latest
  <2>4. Device(cloud', g, sv, cp, r, u)
    <3>1. /\ t.op \notin {"none", "prepareConflictReview"}
          /\ t.op \in {"keepThisDevice", "useCloud"} => t.choice # None
      BY <1>1, <1>2 DEF Waits, Automatic
    <3>2. want = IF s.pending = None THEN [save |-> t.local, rev |-> t.rev + 1]
                 ELSE s.pending
      OBVIOUS
    <3> HIDE DEF want, t, s, g, sv, cp
    <3> QED BY <1>1, <1>4, <1>7, <1>9, <2>2, <2>3, <3>1, <3>2, RecordKeeps
  <2> HIDE DEF r, u
  <2>5. /\ game' = [game EXCEPT ![d] = g] /\ saved' = [saved EXCEPT ![d] = sv]
        /\ checkpoint' = [checkpoint EXCEPT ![d] = cp]
    BY <1>2, Unmoved DEF deviceVars
  <2> QED BY <1>1, <1>3, <1>7, <1>9, <2>1, <2>4, <2>5, Lifted
<1>10. CASE /\ Return(d, IF Automatic(t) THEN [s EXCEPT !.rerun = TRUE]
                          ELSE IF t.stale THEN s ELSE ShowConflict(s))
            /\ UNCHANGED <<cloud, faults>>
  <2>1. Automatic(t) => Gives(s, [s EXCEPT !.rerun = TRUE])
    BY <1>1, <1>2, <1>4, RerunGives DEF Automatic, Task
  <2>2. ~t.stale => Gives(s, ShowConflict(s))
    BY <1>1, <1>4, ShownConflict DEF Gives, Leaves, Configured
  <2>3. Gives(s, IF Automatic(t) THEN [s EXCEPT !.rerun = TRUE]
                 ELSE IF t.stale THEN s ELSE ShowConflict(s))
    BY <1>5, <2>1, <2>2
  <2> QED BY <1>1, <1>2, <1>10, <2>3, GiveHolds
<1>11. CASE Fail(d, s) /\ UNCHANGED cloud
  <2>1. PICK r: Return(d, r) /\ Gives(s, r)
    BY <1>6, <1>11
  <2> QED BY <1>1, <1>2, <1>3, <1>11, <2>1, GiveHolds
<1>12. CASE cloud' = Append(cloud, t.local) /\ Latest = t.rev /\ Fail(d, s)
  BY <1>6, <1>8, <1>12
<1> QED BY <1>5, <1>8, <1>9, <1>10, <1>11, <1>12
        DEF WriteCloud, RevisionMatches, AckRevision

LEMMA RereadCloudHolds ==
  ASSUME SyncInv, NEW d \in Devices, RereadCloud(d)
  PROVE  SyncInv'
<1> DEFINE t == task[d]
           s == service[d]
<1>1. /\ s \in Service /\ t \in Task /\ Waits(t)
      /\ Flags(saved[d], checkpoint[d], s, t)
      /\ Data(cloud, game[d], saved[d], checkpoint[d], s, t)
      /\ cloud \in Seq(Content) /\ Len(cloud) \in Nat
      /\ Fault \/ UNCHANGED faults => faults' \in 0 .. Faults
  BY Own
<1>2. /\ t.at = "reread" /\ t.op # "none" /\ Busy(d) /\ Automatic(t)
      /\ UNCHANGED <<cloud, saved, checkpoint>>
  BY <1>1 DEF RereadCloud, Waits, NoTask, Busy
<1>3. ~t.stale => ~s.conflict
  BY <1>1, <1>2 DEF Flags, Running, Automatic
<1>4. faults' \in 0 .. Faults
  <2>1. Fault \/ UNCHANGED faults
    BY DEF RereadCloud
  <2> QED BY <1>1, <2>1
<1>5. Gives(s, [s EXCEPT !.rerun = TRUE]) /\ (t.stale => Gives(s, s))
  BY <1>1, <1>2, <1>3, RerunGives, StaleGives DEF Task
<1>6. ASSUME NEW r, Gives(s, r), Return(d, r), UNCHANGED game PROVE SyncInv'
  BY <1>2, <1>4, <1>6, GiveHolds DEF deviceVars
<1>7. CASE ~t.stale /\ Latest = t.rev /\ Restore(d, t) /\ UNCHANGED faults
  <2>1. t.rev > 0
    BY <1>1, <1>2 DEF Data, ReadsHold
  <2> QED BY <1>1, <1>2, <1>3, <1>7, <2>1, RestoreHolds DEF Latest
<1> QED BY <1>5, <1>6, <1>7 DEF RereadCloud

(* What was confirmed is still what is saved, or the service runs again. *)
LEMMA ConfirmHolds ==
  ASSUME SyncInv, NEW d \in Devices, Confirm(d)
  PROVE  SyncInv'
<1> DEFINE t == task[d]
           s == service[d]
<1>1. /\ s \in Service /\ t \in Task /\ Waits(t)
      /\ Flags(saved[d], checkpoint[d], s, t)
      /\ Data(cloud, game[d], saved[d], checkpoint[d], s, t)
      /\ Fault \/ UNCHANGED faults => faults' \in 0 .. Faults
  BY Own
<1>2. t.at = "confirm" /\ t.op # "none" /\ Busy(d) /\ UNCHANGED <<cloud, deviceVars>>
  BY <1>1 DEF Confirm, Waits, NoTask, Busy
<1>3. ~t.stale => /\ Configured(s) /\ s.pending = None /\ ~s.timer /\ ~s.conflict
  BY <1>1, <1>2 DEF Flags, Running
<1>4. faults' \in 0 .. Faults
  <2>1. Fault \/ UNCHANGED faults
    BY DEF Confirm
  <2> QED BY <1>1, <2>1
<1>5. CASE Return(d, ConfirmCurrent(d, t))
  <2>1. CASE t.stale
    BY <1>1, <1>2, <1>4, <1>5, <2>1, StaleGives, GiveHolds DEF ConfirmCurrent
  <2>2. CASE ~t.stale /\ saved[d] = t.want.save
    <3>1. t.want = checkpoint[d]
      BY <1>1, <1>2 DEF Data, ReadsHold
    <3>2. Leaves(saved[d], checkpoint[d], s) /\ Offered(cloud, saved[d], s.review)
      BY <1>1, <1>3, <2>2, <3>1 DEF Leaves, Data
    <3> QED BY <1>1, <1>2, <1>4, <1>5, <2>2, <3>2, StopHolds DEF ConfirmCurrent
  <2>3. CASE ~t.stale /\ saved[d] # t.want.save
    <3>1. Gives(s, [s EXCEPT !.rerun = TRUE])
      BY <1>1, <1>2, <1>3, RerunGives DEF Task
    <3> QED BY <1>2, <1>4, <1>5, <2>3, <3>1, GiveHolds DEF ConfirmCurrent
  <2> QED BY <2>1, <2>2, <2>3
<1>6. CASE Fail(d, s)
  <2>1. PICK r: Return(d, r) /\ Gives(s, r)
    BY <1>1, <1>2, <1>6, FailGives
  <2> QED BY <1>2, <1>4, <2>1, GiveHolds
<1> QED BY <1>5, <1>6 DEF Confirm

(* The restored state is on disk now, held in memory, or held from now on. *)
LEMMA SaveRestoredHolds ==
  ASSUME SyncInv, NEW d \in Devices, SaveRestored(d)
  PROVE  SyncInv'
<1> DEFINE t == task[d]
           q == service[d]
           g == game[d]
           cp == checkpoint[d]
           s == ProgressSaved(q, TRUE)
           n == [t EXCEPT !.local = None]
<1>1. /\ g \in Content /\ saved[d] \in Save /\ cp \in Checkpoint \cup {None}
      /\ q \in Service /\ t \in Task /\ Waits(t) /\ Flags(saved[d], cp, q, t)
      /\ Data(cloud, g, saved[d], cp, q, t)
      /\ cloud \in Seq(Content) /\ Len(cloud) \in Nat /\ Grows(cloud, cloud)
      /\ Fault \/ UNCHANGED faults => faults' \in 0 .. Faults
      /\ g # None /\ g \in Save
  BY Own, SyncAssumption DEF Content, Save
<1>2. /\ t.at = "applied" /\ t.op # "none" /\ t.op # "prepareConflictReview"
      /\ UNCHANGED <<cloud, game, checkpoint>>
  BY <1>1 DEF SaveRestored, Waits, NoTask, Automatic
<1>3. faults' \in 0 .. Faults
  <2>1. Fault \/ UNCHANGED faults
    BY DEF SaveRestored
  <2> QED BY <1>1, <2>1
<1>4. /\ n \in Task /\ n.op = t.op /\ n.at = t.at /\ n.stale = t.stale
      /\ n.choice = t.choice /\ n.want = t.want /\ n.rev = t.rev
  BY <1>1 DEF Task, Save
<1>5. /\ s \in Service /\ Flags(g, cp, s, t)
      /\ s.pending = q.pending /\ s.held = q.held /\ s.review = q.review
  BY <1>1, <1>2, SavedWhileBusy
<1>6. \A c: Base(cloud, g, saved[d], c) => Base(cloud, g, g, c)
  BY <1>1 DEF Base
<1>7. /\ Base(cloud, g, g, cp) /\ Base(cloud, g, g, q.pending)
      /\ Base(cloud, g, g, t.want)
      /\ Offered(cloud, g, q.review) /\ Offered(cloud, g, t.choice)
  BY <1>1, <1>6 DEF Data, Offered
<1> HIDE DEF s, n, cp
<1>8. ASSUME saved' = [saved EXCEPT ![d] = g], NEW r, Return(d, r), Gives(s, r)
      PROVE  SyncInv'
  <2>1. checkpoint' = [checkpoint EXCEPT ![d] = cp]
    BY <1>2, Unmoved DEF cp
  <2>2. /\ r \in Service /\ Leaves(g, cp, r) /\ Base(cloud, g, g, r.pending)
        /\ Offered(cloud, g, r.review)
    BY <1>5, <1>7, <1>8 DEF Gives, Offered
  <2> QED BY <1>1, <1>2, <1>3, <1>7, <1>8, <2>1, <2>2, ReturnHolds
<1>9. CASE saved' = [saved EXCEPT ![d] = g] /\ n.stale /\ Return(d, s)
  BY <1>1, <1>4, <1>5, <1>8, <1>9, StaleGives
<1>10. CASE saved' = [saved EXCEPT ![d] = g] /\ Fail(d, s)
  <2>1. PICK r: Return(d, r) /\ Gives(s, r)
    BY <1>1, <1>2, <1>5, <1>10, FailGives
  <2> QED BY <1>8, <1>10, <2>1
<1>11. CASE /\ saved' = [saved EXCEPT ![d] = g] /\ ~n.stale
            /\ Record(d, n, s, cloud[n.rev], n.rev)
  <2> DEFINE want == IF s.pending = None
                     THEN [save |-> cloud[n.rev], rev |-> n.rev] ELSE s.pending
             r == [s EXCEPT !.pending = want]
             u == [n EXCEPT !.at = "record", !.want = want, !.local = None,
                            !.ancestor = None]
  <2>1. service' = [service EXCEPT ![d] = r] /\ task' = [task EXCEPT ![d] = u]
    BY <1>11 DEF Record, Continue
  <2>2. /\ n.rev \in 1 .. Len(cloud) /\ n.rev \in Nat
        /\ cloud[n.rev] \in Content /\ cloud[n.rev] \subseteq g
    BY <1>1, <1>2, <1>4 DEF Data, ReadsHold
  <2>3. Base(cloud, g, g, [save |-> cloud[n.rev], rev |-> n.rev])
    BY <1>1, <2>2 DEF Base
  <2>4. /\ Configured(s) /\ ~s.timer
        /\ n.op = "synchronize" => ~s.conflict
        /\ n.op = "retrySyncConfirmation" => ~s.conflict
    BY <1>2, <1>4, <1>5, <1>11 DEF Flags, Running
  <2>5. n.op \in {"keepThisDevice", "useCloud"} => n.choice # None
    BY <1>1, <1>4 DEF Waits
  <2>6. Device(cloud, g, g, cp, r, u)
    <3>1. want = IF s.pending = None
                 THEN [save |-> cloud[n.rev], rev |-> n.rev] ELSE s.pending
      OBVIOUS
    <3> HIDE DEF want, g, t, q
    <3> QED BY <1>1, <1>2, <1>4, <1>5, <1>7, <1>11, <2>2, <2>3, <2>4, <2>5,
               <3>1, RecordKeeps
  <2> HIDE DEF r, u
  <2>7. /\ game' = [game EXCEPT ![d] = g]
        /\ checkpoint' = [checkpoint EXCEPT ![d] = cp]
        /\ Grows(cloud, cloud') /\ cloud' = cloud
    BY <1>2, Unmoved DEF cp
  <2> HIDE DEF g
  <2> QED BY <1>3, <1>11, <2>1, <2>6, <2>7, Lifted
<1>12. ASSUME NEW r \in Service, Return(d, r), r.held, ~r.timer,
              r.pending = q.pending, r.review \in {q.review, None}, UNCHANGED saved
       PROVE  SyncInv'
  <2>1. Leaves(saved[d], cp, r)
    BY <1>12 DEF Leaves, Configured
  <2>2. /\ saved' = [saved EXCEPT ![d] = saved[d]]
        /\ checkpoint' = [checkpoint EXCEPT ![d] = cp]
    BY <1>2, <1>12, Unmoved DEF cp
  <2>3. /\ Base(cloud, g, saved[d], cp) /\ Base(cloud, g, saved[d], r.pending)
        /\ Offered(cloud, saved[d], r.review)
    BY <1>1, <1>12 DEF Data, Offered
  <2> QED BY <1>1, <1>2, <1>3, <1>12, <2>1, <2>2, <2>3, ReturnHolds DEF cp
<1>13. CASE q.held /\ Return(d, q) /\ UNCHANGED saved
  BY <1>1, <1>2, <1>12, <1>13 DEF Flags
<1>14. CASE Return(d, Held(q)) /\ UNCHANGED saved
  <2>1. /\ Held(q) \in Service /\ Held(q).held /\ ~Held(q).timer
        /\ Held(q).pending = q.pending /\ Held(q).review = None
    BY <1>1 DEF Held, Invalidated, Service
  <2> QED BY <1>12, <1>14, <2>1
<1> QED BY <1>9, <1>10, <1>11, <1>13, <1>14 DEF SaveRestored, s, n

(* The acknowledgement is the ancestor from now on, or may be. *)
LEMMA StoreCheckpointHolds ==
  ASSUME SyncInv, NEW d \in Devices, StoreCheckpoint(d)
  PROVE  SyncInv'
<1> DEFINE t == task[d]
           q == service[d]
           g == game[d]
           sv == saved[d]
           s == [q EXCEPT !.pending = None, !.issue = FALSE]
<1>1. /\ g \in Content /\ sv \in Save
      /\ checkpoint[d] \in Checkpoint \cup {None}
      /\ q \in Service /\ t \in Task /\ Waits(t)
      /\ Flags(sv, checkpoint[d], q, t)
      /\ Data(cloud, g, sv, checkpoint[d], q, t)
      /\ cloud \in Seq(Content) /\ Len(cloud) \in Nat
      /\ Fault \/ UNCHANGED faults => faults' \in 0 .. Faults
  BY Own
<1>2. /\ t.at \in {"record", "pending"} /\ t.op # "none" /\ Busy(d)
      /\ UNCHANGED <<cloud, game, saved>>
      /\ t.want \in Checkpoint \cup {None}
  BY <1>1 DEF StoreCheckpoint, Waits, NoTask, Busy, Task
<1>3. faults' \in 0 .. Faults
  <2>1. Fault \/ UNCHANGED faults
    BY DEF StoreCheckpoint
  <2> QED BY <1>1, <2>1
<1>4. sv = None \/ sv \subseteq g
  BY <1>1, <1>2 DEF Data, Contains
<1>5. /\ Base(cloud, g, sv, checkpoint[d]) /\ Base(cloud, g, sv, q.pending)
      /\ Base(cloud, g, sv, t.want) /\ Base(cloud, g, sv, None)
      /\ Offered(cloud, sv, q.review) /\ Offered(cloud, sv, t.choice)
  BY <1>1 DEF Data, Base
<1>6. ASSUME NEW cp \in {checkpoint[d], t.want},
             checkpoint' = [checkpoint EXCEPT ![d] = cp],
             NEW r, Gives(q, r), Return(d, r)
      PROVE  SyncInv'
  <2>1. /\ saved' = [saved EXCEPT ![d] = sv] /\ Grows(cloud, cloud')
        /\ cloud' = cloud
    BY <1>2, Unmoved
  <2>2. /\ r \in Service /\ Leaves(sv, cp, r) /\ Base(cloud, g, sv, r.pending)
        /\ Offered(cloud, sv, r.review) /\ Base(cloud, g, sv, cp)
        /\ cp \in Checkpoint \cup {None}
    BY <1>1, <1>2, <1>5, <1>6 DEF Gives, Offered
  <2> HIDE DEF sv
  <2> QED BY <1>1, <1>2, <1>3, <1>4, <1>6, <2>1, <2>2, ReturnHolds
<1>7. t.stale => Gives(q, q)
  BY <1>1, StaleGives
<1>8. ~t.stale => Gives(q, ShowIssue(q))
  BY <1>1, <1>2, ShownIssue DEF Gives, Leaves, Flags, Running, Configured
<1>9. ~t.stale => /\ Configured(q) /\ ~q.timer
                  /\ t.op = "synchronize" => ~q.conflict
                  /\ t.op = "retrySyncConfirmation" /\ t.at = "record" => ~q.conflict
  BY <1>1, <1>2 DEF Flags, Running
<1>10. CASE /\ ~t.stale /\ t.at = "record"
            /\ checkpoint' = [checkpoint EXCEPT ![d] = t.want]
            /\ Continue(d, [t EXCEPT !.at = "confirm"])
            /\ service' = [service EXCEPT ![d] =
                             [s EXCEPT !.conflict = Automatic(t) /\ @]]
  <2> DEFINE r == [s EXCEPT !.conflict = Automatic(t) /\ @]
             u == [t EXCEPT !.at = "confirm"]
  <2>1. /\ s \in Service /\ s.pending = None /\ ~s.issue
        /\ s.conflict = q.conflict
        /\ s.timer = q.timer /\ s.review = q.review /\ s.held = q.held
        /\ s.import = q.import
    BY <1>1 DEF Service
  <2>2. Automatic(t) \in BOOLEAN /\ ~(Automatic(t) /\ q.conflict)
    BY <1>9, <1>10 DEF Automatic
  <2> HIDE DEF s
  <2>3. /\ r \in Service /\ r.pending = None /\ ~r.issue /\ ~r.conflict
        /\ r.timer = q.timer /\ r.review = q.review /\ r.held = q.held
        /\ r.import = q.import
    BY <2>1, <2>2 DEF Service
  <2>4. /\ u \in Task /\ u.op = t.op /\ u.at = "confirm" /\ u.want = t.want
        /\ u.local = t.local /\ u.choice = t.choice /\ u.stale = t.stale
    BY <1>1 DEF Task
  <2>5. service' = [service EXCEPT ![d] = r] /\ task' = [task EXCEPT ![d] = u]
    BY <1>10 DEF Continue
  <2> HIDE DEF r, u
  <2>6. Configured(r) /\ r.import # "drained" /\ ~r.timer
    BY <1>9, <1>10, <2>3 DEF Configured
  <2>7. Waits(u) /\ Flags(sv, t.want, r, u)
    BY <1>1, <1>2, <1>10, <2>3, <2>4, <2>6 DEF Waits, Automatic, Flags, Running
  <2>8. Data(cloud, g, sv, t.want, r, u)
    <3>1. ReadsHold(cloud, g, t.want, u)
      BY <2>4 DEF ReadsHold
    <3>2. t.local # None => sv # None
      BY <1>1 DEF Data
    <3> QED BY <1>4, <1>5, <2>3, <2>4, <3>1, <3>2 DEF Data, Contains
  <2>9. Device(cloud, g, sv, t.want, r, u)
    BY <1>1, <1>2, <2>3, <2>4, <2>7, <2>8 DEF Device
  <2>10. /\ game' = [game EXCEPT ![d] = g] /\ saved' = [saved EXCEPT ![d] = sv]
         /\ Grows(cloud, cloud') /\ cloud' = cloud
    BY <1>2, Unmoved
  <2> DEFINE want == t.want
  <2>11. checkpoint' = [checkpoint EXCEPT ![d] = want]
    BY <1>10
  <2> HIDE DEF want, g, sv, t
  <2> QED BY <1>3, <2>5, <2>9, <2>10, <2>11, Lifted DEF want
<1>11. CASE /\ ~t.stale /\ t.at = "pending"
            /\ checkpoint' = [checkpoint EXCEPT ![d] = t.want]
            /\ Begin(d, t.op, [s EXCEPT !.conflict = FALSE, !.review = None])
  <2> DEFINE x == [s EXCEPT !.conflict = FALSE, !.review = None]
             r == [x EXCEPT !.asks = FALSE]
             u == [NoTask EXCEPT !.op = t.op, !.at = "device"]
  <2>1. /\ s \in Service /\ s.pending = None /\ ~s.issue
        /\ s.timer = q.timer /\ s.held = q.held /\ s.import = q.import
    BY <1>1 DEF Service
  <2> HIDE DEF s
  <2>2. /\ x \in Service /\ x.pending = None /\ ~x.issue /\ ~x.conflict
        /\ x.review = None
        /\ x.timer = q.timer /\ x.held = q.held /\ x.import = q.import
    BY <2>1 DEF Service
  <2> HIDE DEF x
  <2>3. /\ r \in Service /\ r.pending = None /\ ~r.issue /\ ~r.conflict
        /\ r.review = None
        /\ r.timer = q.timer /\ r.held = q.held /\ r.import = q.import
    BY <2>2 DEF Service
  <2>4. /\ u \in Task /\ u.op = "retrySyncConfirmation" /\ u.at = "device"
        /\ u.local = None /\ u.want = None /\ u.choice = None /\ ~u.stale
    BY <1>1, <1>2, <1>11 DEF Waits, NoTask, Task, Operations, Save
  <2>5. service' = [service EXCEPT ![d] = r] /\ task' = [task EXCEPT ![d] = u]
    BY <1>11 DEF Begin, x
  <2> HIDE DEF r, u, sv, g
  <2>6. Configured(r) /\ r.import # "drained" /\ ~r.timer
    BY <1>9, <1>11, <2>3 DEF Configured
  <2>7. Waits(u) /\ Flags(sv, t.want, r, u)
    BY <2>3, <2>4, <2>6 DEF Waits, Automatic, Flags, Running
  <2>8. game' = [game EXCEPT ![d] = g]
    BY <1>2, Unmoved DEF g
  <2>9. Offered(cloud, sv, r.review) /\ Offered(cloud, sv, u.choice)
    BY <2>3, <2>4 DEF Offered
  <2>10. /\ Base(cloud, g, sv, t.want) /\ Base(cloud, g, sv, r.pending)
         /\ Base(cloud, g, sv, u.want)
    BY <1>5, <2>3, <2>4
  <2>11. /\ g \in Content /\ t.want \in Checkpoint \cup {None}
         /\ UNCHANGED <<cloud, saved>>
    BY <1>1, <1>2
  <2>12. /\ r \in Service /\ u \in Task /\ u.at \in {"device", "pending"}
         /\ u.local = None
    BY <2>3, <2>4
  <2> DEFINE want == t.want
  <2>13. checkpoint' = [checkpoint EXCEPT ![d] = want]
    BY <1>11
  <2> HIDE DEF want
  <2> QED BY <1>3, <1>4, <2>5, <2>7, <2>8, <2>9, <2>10, <2>11, <2>12, <2>13,
             StartHolds DEF sv, want
<1>12. CASE /\ checkpoint' \in {checkpoint, [checkpoint EXCEPT ![d] = t.want]}
            /\ Return(d, IF t.stale THEN q ELSE ShowIssue(q))
  <2>1. PICK cp \in {checkpoint[d], t.want}:
          checkpoint' = [checkpoint EXCEPT ![d] = cp]
    BY <1>12, Unmoved
  <2>2. Gives(q, IF t.stale THEN q ELSE ShowIssue(q))
    BY <1>7, <1>8
  <2> QED BY <1>6, <1>12, <2>1, <2>2
<1>13. CASE /\ t.stale /\ Return(d, q)
            /\ checkpoint' = [checkpoint EXCEPT ![d] = t.want]
  BY <1>6, <1>7, <1>13
<1> QED BY <1>10, <1>11, <1>12, <1>13 DEF StoreCheckpoint

LEMMA WatchdogHolds ==
  ASSUME SyncInv, NEW d \in Devices, Watchdog(d)
  PROVE  SyncInv'
<1> DEFINE t == task[d]
           s == service[d]
           r == ShowIssue(s)
<1>1. /\ game[d] \in Content /\ saved[d] \in Save
      /\ s \in Service /\ t \in Task /\ Waits(t)
      /\ Flags(saved[d], checkpoint[d], s, t)
      /\ faults' \in 0 .. Faults
  BY Own DEF Watchdog
<1>2. /\ t.at \in {"record", "pending"} /\ ~t.stale /\ t.op # "none"
      /\ UNCHANGED <<cloud, game, saved, checkpoint, task>>
      /\ service' = [service EXCEPT ![d] = r]
  BY <1>1 DEF Watchdog, deviceVars, Waits, NoTask
<1>3. /\ r \in Service /\ r.issue /\ ~r.timer /\ r.review = None
      /\ r.pending = s.pending /\ r.held = s.held /\ r.import = s.import
      /\ r.conflict = s.conflict
  BY <1>1, ShownIssue
<1> HIDE DEF r
<1>4. Flags(saved[d], checkpoint[d], r, t)
  BY <1>1, <1>2, <1>3 DEF Flags, Running, Configured, Waits
<1>5. /\ game' = [game EXCEPT ![d] = game[d]]
      /\ saved' = [saved EXCEPT ![d] = saved[d]]
      /\ task' = [task EXCEPT ![d] = t]
  BY <1>2, Unmoved
<1> QED BY <1>1, <1>2, <1>3, <1>4, <1>5, BesideHolds

-----------------------------------------------------------------------------
(* What starts an operation, and what goes on around it *)

(* A device that has nothing to do before the operation starts. *)
LEMMA FreeIs ==
  ASSUME SyncInv, NEW d \in Devices, ~Busy(d)
  PROVE  /\ task[d] = NoTask
         /\ AtRest(saved[d], checkpoint[d], service[d])
         /\ service[d].held \/ saved[d] = None \/ saved[d] \subseteq game[d]
<1>1. task[d] = NoTask
  BY Own DEF Waits, Busy
<1>2. AtRest(saved[d], checkpoint[d], service[d])
  BY Own DEF Flags, Busy
<1>3. service[d].held \/ saved[d] = None \/ saved[d] \subseteq game[d]
  BY <1>1, Own DEF Data, Contains, NoTask
<1> QED BY <1>1, <1>2, <1>3

(* An operation that begins with a read of the device. *)
LEMMA BeginHolds ==
  ASSUME SyncInv, NEW d \in Devices, UNCHANGED <<cloud, saved>>,
         faults' \in 0 .. Faults,
         NEW g \in Content, game' = [game EXCEPT ![d] = g],
         UNCHANGED checkpoint, NEW op \in Operations \ {"none"},
         NEW s \in Service, Begin(d, op, s),
         Configured(s), s.pending = None, ~s.timer,
         op = "synchronize" => ~s.conflict /\ ~s.issue,
         op \notin {"keepThisDevice", "useCloud"},
         saved[d] = None \/ saved[d] \subseteq g,
         Offered(cloud, saved[d], s.review)
  PROVE  SyncInv'
<1> DEFINE r == [s EXCEPT !.asks = FALSE]
           u == [NoTask EXCEPT !.op = op, !.at = "device"]
<1>1. /\ saved[d] \in Save /\ checkpoint[d] \in Checkpoint \cup {None}
      /\ Data(cloud, game[d], saved[d], checkpoint[d], service[d], task[d])
  BY Own
<1>2. /\ r \in Service /\ r.pending = None /\ r.timer = s.timer
      /\ r.issue = s.issue /\ r.conflict = s.conflict /\ r.review = s.review
      /\ r.held = s.held /\ r.import = s.import
  BY DEF Service
<1>3. /\ u \in Task /\ u.op = op /\ u.at = "device" /\ u.local = None
      /\ u.want = None /\ u.choice = None /\ ~u.stale
  BY DEF NoTask, Task, Operations, Save
<1>4. service' = [service EXCEPT ![d] = r] /\ task' = [task EXCEPT ![d] = u]
  BY DEF Begin
<1> HIDE DEF r, u
<1>5. Waits(u) /\ Flags(saved[d], checkpoint[d], r, u)
  BY <1>2, <1>3 DEF Waits, Flags, Running, Configured
<1>6. /\ Base(cloud, g, saved[d], checkpoint[d]) /\ Base(cloud, g, saved[d], None)
      /\ Offered(cloud, saved[d], None)
  BY <1>1 DEF Data, Base, Offered
<1>7. checkpoint' = [checkpoint EXCEPT ![d] = checkpoint[d]]
  BY Unmoved
<1> QED BY <1>1, <1>2, <1>3, <1>4, <1>5, <1>6, <1>7, StartHolds

LEMMA SynchronizeHolds ==
  ASSUME SyncInv, NEW d \in Devices, Synchronize(d)
  PROVE  SyncInv'
<1> DEFINE s == service[d]
           r == [s EXCEPT !.timer = FALSE]
<1>1. /\ s \in Service /\ ~Busy(d) /\ Begin(d, "synchronize", r)
      /\ UNCHANGED <<cloud, game, saved, checkpoint, faults>>
      /\ Configured(r) /\ ~r.issue /\ ~s.conflict
  BY Own DEF Synchronize, deviceVars
<1>2. /\ r \in Service /\ ~r.timer /\ r.issue = s.issue /\ r.held = s.held
      /\ r.import = s.import /\ r.conflict = s.conflict
      /\ r.pending = s.pending /\ r.review = s.review
  BY <1>1 DEF Service
<1> HIDE DEF r
<1>3. r.pending = None /\ (saved[d] = None \/ saved[d] \subseteq game[d])
  BY <1>1, <1>2, FreeIs DEF AtRest, Configured
<1>4. /\ game[d] \in Content /\ Offered(cloud, saved[d], r.review)
      /\ faults' \in 0 .. Faults
  BY <1>1, <1>2, Own DEF Data
<1>5. game' = [game EXCEPT ![d] = game[d]]
  BY <1>1, Unmoved
<1>6. "synchronize" \in Operations \ {"none"}
  BY DEF Operations
<1> QED BY <1>1, <1>2, <1>3, <1>4, <1>5, <1>6, BeginHolds

LEMMA PrepareConflictReviewHolds ==
  ASSUME SyncInv, NEW d \in Devices, PrepareConflictReview(d)
  PROVE  SyncInv'
<1> DEFINE s == service[d]
           r == [s EXCEPT !.review = None]
<1>1. /\ s \in Service /\ ~Busy(d) /\ Begin(d, "prepareConflictReview", r)
      /\ UNCHANGED <<cloud, game, saved, checkpoint, faults>>
      /\ Configured(s) /\ ~s.issue /\ s.conflict
  BY Own DEF PrepareConflictReview, deviceVars
<1>2. /\ r \in Service /\ r.timer = s.timer /\ r.held = s.held
      /\ r.import = s.import /\ r.pending = s.pending /\ r.review = None
  BY <1>1 DEF Service
<1> HIDE DEF r
<1>3. /\ Configured(r) /\ r.pending = None
      /\ saved[d] = None \/ saved[d] \subseteq game[d]
  BY <1>1, <1>2, FreeIs DEF AtRest, Configured
<1>4. ~r.timer
  BY <1>1, <1>2, Own DEF Flags
<1>5. /\ game[d] \in Content /\ Offered(cloud, saved[d], r.review)
      /\ faults' \in 0 .. Faults
  BY <1>1, <1>2, Own DEF Offered
<1>6. game' = [game EXCEPT ![d] = game[d]]
  BY <1>1, Unmoved
<1>7. "prepareConflictReview" \in Operations \ {"none"}
  BY DEF Operations
<1> QED BY <1>1, <1>2, <1>3, <1>4, <1>5, <1>6, <1>7, BeginHolds

LEMMA ResolveHolds ==
  ASSUME SyncInv, NEW d \in Devices, NEW op \in {"keepThisDevice", "useCloud"},
         Resolve(d, op)
  PROVE  SyncInv'
<1> DEFINE s == service[d]
           x == Invalidated(s)
           r == [x EXCEPT !.asks = FALSE]
           u == [NoTask EXCEPT !.op = op, !.at = "device", !.choice = s.review]
<1>1. /\ s \in Service /\ ~Busy(d) /\ s.review # None
      /\ UNCHANGED <<cloud, game, saved, checkpoint, faults>>
      /\ Configured(s) /\ ~s.issue
      /\ service' = [service EXCEPT ![d] = r] /\ task' = [task EXCEPT ![d] = u]
  BY Own DEF Resolve, deviceVars
<1>2. /\ x \in Service /\ ~x.timer /\ x.held = s.held /\ x.review = None
      /\ x.import = s.import /\ x.pending = s.pending
  BY <1>1 DEF Service, Invalidated
<1> HIDE DEF x
<1>3. /\ r \in Service /\ ~r.timer /\ r.held = s.held /\ r.review = None
      /\ r.import = s.import /\ r.pending = s.pending
  BY <1>2 DEF Service
<1>4. /\ u \in Task /\ u.op = op /\ u.at = "device" /\ u.local = None
      /\ u.want = None /\ u.choice = s.review /\ ~u.stale
  BY <1>1 DEF NoTask, Task, Operations, Save, Service
<1> HIDE DEF r, u
<1>5. /\ Configured(r) /\ r.import # "drained" /\ r.pending = None
      /\ saved[d] = None \/ saved[d] \subseteq game[d]
  BY <1>1, <1>3, FreeIs DEF AtRest, Configured
<1>6. Waits(u) /\ Flags(saved[d], checkpoint[d], r, u)
  BY <1>1, <1>3, <1>4, <1>5 DEF Waits, Flags, Running
<1>7. /\ game[d] \in Content /\ checkpoint[d] \in Checkpoint \cup {None}
      /\ Data(cloud, game[d], saved[d], checkpoint[d], s, task[d])
      /\ faults' \in 0 .. Faults
  BY <1>1, Own
<1>8. /\ Base(cloud, game[d], saved[d], checkpoint[d])
      /\ Base(cloud, game[d], saved[d], r.pending)
      /\ Base(cloud, game[d], saved[d], u.want)
      /\ Offered(cloud, saved[d], r.review) /\ Offered(cloud, saved[d], u.choice)
  BY <1>3, <1>4, <1>5, <1>7 DEF Data, Base, Offered
<1>9. /\ game' = [game EXCEPT ![d] = game[d]]
      /\ checkpoint' = [checkpoint EXCEPT ![d] = checkpoint[d]]
  BY <1>1, Unmoved
<1> HIDE DEF s
<1> QED BY <1>1, <1>3, <1>4, <1>5, <1>6, <1>7, <1>8, <1>9, StartHolds

LEMMA RetrySyncConfirmationHolds ==
  ASSUME SyncInv, NEW d \in Devices, RetrySyncConfirmation(d)
  PROVE  SyncInv'
<1> DEFINE s == service[d]
           r == ShowIssue(s)
           u == [NoTask EXCEPT !.op = "retrySyncConfirmation",
                   !.want = s.pending,
                   !.at = IF s.pending = None THEN "device" ELSE "pending"]
<1>1. /\ s \in Service /\ ~Busy(d)
      /\ UNCHANGED <<cloud, game, saved, checkpoint, faults>>
      /\ Configured(s) /\ s.issue
      /\ service' = [service EXCEPT ![d] = r] /\ task' = [task EXCEPT ![d] = u]
  BY Own DEF RetrySyncConfirmation, deviceVars
<1>2. /\ r \in Service /\ ~r.timer /\ r.held = s.held /\ r.review = None
      /\ r.import = s.import /\ r.pending = s.pending
  BY <1>1, ShownIssue
<1>3. /\ u \in Task /\ u.op = "retrySyncConfirmation" /\ u.local = None
      /\ u.at = IF s.pending = None THEN "device" ELSE "pending"
      /\ u.want = s.pending /\ u.choice = None /\ ~u.stale
  BY <1>1 DEF NoTask, Task, Operations, Save, Service
<1> HIDE DEF r, u
<1>4. /\ Configured(r) /\ r.import # "drained"
      /\ saved[d] = None \/ saved[d] \subseteq game[d]
  BY <1>1, <1>2, FreeIs DEF Configured
<1>5. Waits(u) /\ Flags(saved[d], checkpoint[d], r, u)
  BY <1>2, <1>3, <1>4 DEF Waits, Automatic, Flags, Running
<1>6. /\ game[d] \in Content /\ checkpoint[d] \in Checkpoint \cup {None}
      /\ Data(cloud, game[d], saved[d], checkpoint[d], s, task[d])
      /\ faults' \in 0 .. Faults
  BY <1>1, Own
<1>7. /\ Base(cloud, game[d], saved[d], checkpoint[d])
      /\ Base(cloud, game[d], saved[d], r.pending)
      /\ Base(cloud, game[d], saved[d], u.want)
      /\ Offered(cloud, saved[d], r.review) /\ Offered(cloud, saved[d], u.choice)
  BY <1>2, <1>3, <1>6 DEF Data, Offered
<1>8. /\ game' = [game EXCEPT ![d] = game[d]]
      /\ checkpoint' = [checkpoint EXCEPT ![d] = checkpoint[d]]
  BY <1>1, Unmoved
<1>9. /\ r \in Service /\ u \in Task /\ u.at \in {"device", "pending"}
      /\ u.local = None
  BY <1>2, <1>3
<1>10. /\ UNCHANGED <<cloud, saved>> /\ faults' \in 0 .. Faults
       /\ game[d] \in Content /\ checkpoint[d] \in Checkpoint \cup {None}
       /\ service' = [service EXCEPT ![d] = r]
       /\ task' = [task EXCEPT ![d] = u]
  BY <1>1, <1>6
<1> HIDE DEF s
<1> QED BY <1>4, <1>5, <1>7, <1>8, <1>9, <1>10, StartHolds

(* The first start, and every later one: the game is what was saved. *)
LEMMA RestartHolds ==
  ASSUME SyncInv, NEW d \in Devices, Restart(d)
  PROVE  SyncInv'
<1>1. /\ game' = [game EXCEPT ![d] = Loaded(saved[d])]
      /\ Begin(d, "synchronize", NewService)
      /\ UNCHANGED <<cloud, saved, checkpoint>> /\ faults' \in 0 .. Faults
  BY Own DEF Restart
<1>2. /\ NewService \in Service /\ Configured(NewService)
      /\ NewService.pending = None /\ ~NewService.timer /\ ~NewService.conflict
      /\ ~NewService.issue /\ NewService.review = None
  BY DEF NewService, Service, Configured
<1>3. /\ Loaded(saved[d]) \in Content
      /\ saved[d] = None \/ saved[d] \subseteq Loaded(saved[d])
  BY Own DEF Loaded, Save, Content
<1>4. Offered(cloud, saved[d], None) /\ "synchronize" \in Operations \ {"none"}
  BY DEF Offered, Operations
<1> QED BY <1>1, <1>2, <1>3, <1>4, BeginHolds

LEMMA StaleIs ==
  ASSUME NEW t \in Task
  PROVE  Stale(t).op = t.op /\ (Stale(t).stale <=> t.op # "none")
BY DEF Stale, Task

(* Progress is made: it is saved, or held in memory. *)
LEMMA PlayHolds ==
  ASSUME SyncInv, NEW d \in Devices, Play(d)
  PROVE  SyncInv'
<1> DEFINE s == service[d]
           t == task[d]
<1>1. PICK p \in Plays:
        /\ game' = [game EXCEPT ![d] = @ \cup {p}]
        /\ \/ /\ saved' = [saved EXCEPT ![d] = game'[d]]
              /\ service' = [service EXCEPT ![d] = ProgressSaved(@, Busy(d))]
              /\ UNCHANGED <<task, faults>>
           \/ /\ Fault
              /\ service' = [service EXCEPT ![d] = Held(@)]
              /\ task' = [task EXCEPT ![d] = Stale(@)]
              /\ UNCHANGED saved
  BY Zenon DEF Play
<1>2. ~s.held /\ s.import # "drained" /\ UNCHANGED <<cloud, checkpoint>>
  BY DEF Play
<1> DEFINE g == game[d] \cup {p}
<1>3. /\ game[d] \in Content /\ saved[d] \in Save /\ s \in Service /\ t \in Task
      /\ Flags(saved[d], checkpoint[d], s, t)
      /\ faults' \in 0 .. Faults
      /\ game \in [Devices -> Content] /\ service \in [Devices -> Service]
      /\ task \in [Devices -> Task]
  BY <1>1, Own DEF SyncInv, TypeOK
<1>4. g \in Content /\ g \in Save /\ game[d] \subseteq g
  BY <1>3 DEF Content, Save
<1>5. game' = [game EXCEPT ![d] = g] /\ game'[d] = g
  BY <1>1, <1>3
<1> HIDE DEF g
<1>6. CASE /\ saved' = [saved EXCEPT ![d] = game'[d]]
           /\ service' = [service EXCEPT ![d] = ProgressSaved(s, Busy(d))]
           /\ UNCHANGED task
  <2> DEFINE r == ProgressSaved(s, Busy(d))
  <2>1. /\ r \in Service /\ r.pending = s.pending /\ r.held = s.held
        /\ r.review = s.review /\ Flags(g, checkpoint[d], r, t)
    <3>1. CASE Busy(d)
      BY <1>3, <3>1, SavedWhileBusy DEF Busy
    <3>2. CASE ~Busy(d)
      <4> DEFINE q == ProgressSaved(s, FALSE)
      <4>1. /\ q \in Service
            /\ q.pending = s.pending /\ q.held = s.held
            /\ q.conflict = s.conflict /\ q.import = s.import
            /\ q.issue = s.issue /\ q.review = s.review /\ q.asks = s.asks
            /\ Configured(s) /\ ~s.issue /\ s.pending = None
                 => s.conflict \/ q.timer
            /\ q.timer => \/ s.timer
                          \/ Configured(s) /\ ~s.issue /\ ~s.conflict
        BY <1>3, SavedIs
      <4> HIDE DEF q
      <4>2. AtRest(saved[d], checkpoint[d], s) /\ t.op = "none" /\ ~t.stale
        BY <1>3, <3>2, FreeIs DEF Busy, NoTask
      <4>3. AtRest(g, checkpoint[d], q)
        BY <4>1, <4>2 DEF AtRest, Configured
      <4>4. q.timer => Configured(q) /\ ~q.issue /\ ~q.conflict
        BY <1>3, <4>1 DEF Flags, Configured
      <4>5. Flags(g, checkpoint[d], q, t)
        BY <4>2, <4>3, <4>4 DEF Flags
      <4>6. Busy(d) = FALSE
        BY <3>2 DEF Busy
      <4> QED BY <4>1, <4>5, <4>6 DEF q
    <3> QED BY <3>1, <3>2
  <2> HIDE DEF r
  <2>2. /\ saved' = [saved EXCEPT ![d] = g] /\ service' = [service EXCEPT ![d] = r]
        /\ task' = [task EXCEPT ![d] = t]
    BY <1>3, <1>5, <1>6 DEF r
  <2> QED BY <1>2, <1>3, <1>4, <1>5, <2>1, <2>2, BesideHolds
<1>7. CASE /\ service' = [service EXCEPT ![d] = Held(s)]
           /\ task' = [task EXCEPT ![d] = Stale(t)] /\ UNCHANGED saved
  <2> DEFINE r == Held(s)
             u == Stale(t)
  <2>1. /\ r \in Service /\ r.held /\ ~r.timer /\ r.pending = s.pending
        /\ r.review = None /\ r.import = s.import
    BY <1>3 DEF Held, Invalidated, Service
  <2>2. u.op = t.op /\ (u.stale <=> t.op # "none")
    BY <1>3, StaleIs
  <2> HIDE DEF r, u
  <2>3. Flags(saved[d], checkpoint[d], r, u)
    BY <1>2, <2>1, <2>2 DEF Flags, AtRest, Cancelled, Configured
  <2>4. /\ saved' = [saved EXCEPT ![d] = saved[d]]
        /\ service' = [service EXCEPT ![d] = r] /\ task' = [task EXCEPT ![d] = u]
        /\ u \in {t, Stale(t)}
    BY <1>7, Unmoved DEF r, u
  <2> QED BY <1>2, <1>3, <1>4, <1>5, <2>1, <2>3, <2>4, BesideHolds
<1>8. service[d] = s /\ task[d] = t
  OBVIOUS
<1> QED BY <1>1, <1>6, <1>7

(* What was held is saved after all. *)
LEMMA RetryProgressSaveHolds ==
  ASSUME SyncInv, NEW d \in Devices, RetryProgressSave(d)
  PROVE  SyncInv'
<1> DEFINE s == service[d]
           t == task[d]
           g == game[d]
           cp == checkpoint[d]
           r == Released(s, Busy(d))
           x == [Invalidated(s) EXCEPT !.held = FALSE, !.rerun = FALSE]
<1>1. /\ g \in Content /\ saved[d] \in Save /\ s \in Service /\ t \in Task
      /\ Flags(saved[d], cp, s, t) /\ faults' \in 0 .. Faults
  BY Own DEF RetryProgressSave
<1>2. /\ s.held /\ saved' = [saved EXCEPT ![d] = g]
      /\ service' = [service EXCEPT ![d] = r]
      /\ UNCHANGED <<cloud, game, checkpoint, task>>
  BY DEF RetryProgressSave
<1>3. (t.stale /\ t.op # "none" /\ Busy(d)) \/ (t.op = "none" /\ ~t.stale /\ ~Busy(d))
  <2>1. Waits(t)
    BY Own
  <2> QED BY <1>1, <1>2, <2>1 DEF Flags, Running, Configured, Busy, NoTask, Waits
<1>4. /\ x \in Service /\ ~x.timer /\ x.pending = s.pending /\ x.review = None
      /\ x.import = s.import /\ ~x.held /\ ~x.rerun
  BY <1>1 DEF Invalidated, Service
<1>5. r = IF x.issue \/ x.pending # None THEN ShowIssue(x)
          ELSE IF x.conflict THEN ShowConflict(x) ELSE ProgressSaved(x, Busy(d))
  BY DEF Released
<1> HIDE DEF x, r
<1>6. /\ r \in Service /\ r.pending = s.pending /\ r.review = None
      /\ r.import = s.import
      /\ r.timer => Configured(r) /\ ~r.issue /\ ~r.conflict /\ ~Busy(d)
      /\ Configured(r) =>
           /\ r.pending # None => r.issue
           /\ \/ r.issue \/ r.asks
              \/ ~r.conflict /\ IF Busy(d) THEN r.rerun ELSE r.timer
  <2>1. CASE x.issue \/ x.pending # None
    BY <1>4, <1>5, <2>1, ShownIssue
  <2>2. CASE ~(x.issue \/ x.pending # None) /\ x.conflict
    BY <1>4, <1>5, <2>2, ShownConflict
  <2>3. CASE ~(x.issue \/ x.pending # None) /\ ~x.conflict
    <3>1. Busy(d) \in BOOLEAN
      BY DEF Busy
    <3> DEFINE y == ProgressSaved(x, Busy(d))
    <3>2. /\ y \in Service
          /\ y.pending = x.pending /\ y.held = x.held /\ y.conflict = x.conflict
          /\ y.issue = x.issue /\ y.review = x.review /\ y.import = x.import
          /\ Busy(d) => y.timer = x.timer
          /\ Configured(x) => IF Busy(d) THEN y.rerun ELSE x.conflict \/ y.timer
          /\ y.timer => x.timer \/ Configured(x)
      BY <1>4, <2>3, <3>1, SavedIs
    <3> HIDE DEF y
    <3>3. r = y
      BY <1>5, <2>3 DEF y
    <3> QED BY <1>4, <2>3, <3>2, <3>3 DEF Configured
  <2> QED BY <2>1, <2>2, <2>3
<1>7. Flags(g, cp, r, t)
  <2>1. CASE t.stale
    BY <1>1, <1>3, <1>6, <2>1 DEF Flags, Cancelled
  <2>2. CASE t.op = "none" /\ ~t.stale /\ ~Busy(d)
    BY <1>1, <1>6, <2>2 DEF Flags, AtRest
  <2> QED BY <1>3, <2>1, <2>2
<1>8. game' = [game EXCEPT ![d] = g] /\ task' = [task EXCEPT ![d] = t]
  BY <1>2, Unmoved
<1>9. g \in Save
  BY <1>1 DEF Save
<1> QED BY <1>1, <1>2, <1>6, <1>7, <1>8, <1>9, BesideHolds

(* The account is selected again, at rest or over a running operation. *)
LEMMA SelectAccountHolds ==
  ASSUME SyncInv, NEW d \in Devices, SelectAccount(d)
  PROVE  SyncInv'
<1> DEFINE q == service[d]
           t == task[d]
           s == [Invalidated(q) EXCEPT !.pending = None, !.issue = FALSE,
                                       !.conflict = FALSE, !.asks = FALSE]
<1>1. /\ game[d] \in Content /\ saved[d] \in Save /\ q \in Service
      /\ t \in Task /\ Waits(t) /\ Flags(saved[d], checkpoint[d], q, t)
      /\ faults' \in 0 .. Faults
      /\ UNCHANGED <<cloud, game, saved, checkpoint>>
  BY Own DEF SelectAccount, deviceVars
<1>2. /\ s \in Service /\ ~s.timer /\ s.review = None /\ s.pending = None
      /\ ~s.issue /\ ~s.conflict /\ s.held = q.held /\ s.import = q.import
      /\ Configured(s) <=> Configured(q)
  BY <1>1 DEF Invalidated, Service, Configured
<1>3. game' = [game EXCEPT ![d] = game[d]] /\ saved' = [saved EXCEPT ![d] = saved[d]]
  BY <1>1, Unmoved
<1>4. CASE Configured(s) /\ ~Busy(d) /\ Begin(d, "synchronize", s)
  <2>1. saved[d] = None \/ saved[d] \subseteq game[d]
    BY <1>2, <1>4, FreeIs DEF Configured
  <2>2. Offered(cloud, saved[d], s.review) /\ "synchronize" \in Operations \ {"none"}
    BY <1>2 DEF Offered, Operations
  <2> HIDE DEF s
  <2> QED BY <1>1, <1>2, <1>3, <1>4, <2>1, <2>2, BeginHolds
<1>5. CASE /\ Configured(s) => Busy(d)
           /\ task' = [task EXCEPT ![d] = Stale(t)]
           /\ service' = [service EXCEPT ![d] =
                            [s EXCEPT !.rerun = @ \/ Configured(s)]]
  <2> DEFINE r == [s EXCEPT !.rerun = @ \/ Configured(s)]
             u == Stale(t)
  <2>1. Configured(s) \in BOOLEAN
    BY DEF Configured
  <2> HIDE DEF s
  <2>2. /\ r \in Service /\ ~r.timer /\ r.review = None /\ r.pending = None
        /\ ~r.issue /\ ~r.conflict /\ r.held = q.held /\ r.import = q.import
        /\ Configured(s) => r.rerun
    BY <1>2, <2>1 DEF Service
  <2>3. u.op = t.op /\ (u.stale <=> t.op # "none")
    BY <1>1, StaleIs
  <2>4. /\ service' = [service EXCEPT ![d] = r] /\ task' = [task EXCEPT ![d] = u]
        /\ u \in {t, Stale(t)}
    BY <1>5
  <2> HIDE DEF r, u
  <2>5. Configured(r) => t.op # "none" /\ r.rerun
    BY <1>2, <1>5, <2>2 DEF Configured, Busy
  <2>6. Flags(saved[d], checkpoint[d], r, u)
    BY <1>1, <2>2, <2>3, <2>5 DEF Flags, AtRest, Cancelled
  <2>7. /\ r.pending \in {q.pending, None} /\ r.review \in {q.review, None}
        /\ q.held => r.held
    BY <2>2
  <2>8. r \in Service /\ UNCHANGED <<cloud, checkpoint>>
    BY <1>1, <2>2
  <2>9. game[d] \in Content /\ saved[d] \in Save /\ faults' \in 0 .. Faults
    BY <1>1
  <2> QED BY <1>3, <2>4, <2>6, <2>7, <2>8, <2>9, BesideHolds
<1> QED BY <1>4, <1>5 DEF SelectAccount, Invalidated, Configured

LEMMA PauseForSaveImportHolds ==
  ASSUME SyncInv, NEW d \in Devices, PauseForSaveImport(d)
  PROVE  SyncInv'
<1> DEFINE s == service[d]
           t == task[d]
           r == Drain(s, Busy(d))
           u == Stale(t)
<1>1. /\ game[d] \in Content /\ saved[d] \in Save /\ s \in Service
      /\ t \in Task /\ Waits(t)
      /\ faults' \in 0 .. Faults
      /\ UNCHANGED <<cloud, game, saved, checkpoint>>
  BY Own DEF PauseForSaveImport, deviceVars
<1>2. /\ r \in Service /\ ~r.timer /\ r.review = None /\ r.pending = s.pending
      /\ r.held = s.held /\ r.import # "no"
      /\ r.import = "drained" => ~Busy(d)
  BY <1>1 DEF Drain, Invalidated, Service
<1>3. u.op = t.op /\ (u.stale <=> t.op # "none")
  BY <1>1, StaleIs
<1>4. /\ service' = [service EXCEPT ![d] = r] /\ task' = [task EXCEPT ![d] = u]
      /\ u \in {t, Stale(t)}
  BY DEF PauseForSaveImport
<1>5. game' = [game EXCEPT ![d] = game[d]] /\ saved' = [saved EXCEPT ![d] = saved[d]]
  BY <1>1, Unmoved
<1> HIDE DEF r, u
<1>6. Flags(saved[d], checkpoint[d], r, u)
  BY <1>2, <1>3 DEF Flags, AtRest, Cancelled, Configured, Busy
<1>7. /\ r.pending \in {s.pending, None} /\ r.review \in {s.review, None}
      /\ s.held => r.held
  BY <1>2
<1>8. /\ r \in Service /\ game[d] \in Content /\ saved[d] \in Save
      /\ faults' \in 0 .. Faults /\ UNCHANGED <<cloud, checkpoint>>
  BY <1>1, <1>2
<1> QED BY <1>4, <1>5, <1>6, <1>7, <1>8, BesideHolds

-----------------------------------------------------------------------------
(* The invariant *)

LEMMA InitHolds == Init => SyncInv
<1> SUFFICES ASSUME Init PROVE SyncInv
  OBVIOUS
<1> DEFINE u == [NoTask EXCEPT !.op = "synchronize", !.at = "device"]
<1>1. cloud = <<>> /\ cloud \in Seq(Content) /\ faults \in 0 .. Faults
  BY SyncAssumption DEF Init
<1>2. /\ NewService \in Service /\ ~NewService.timer /\ NewService.import = "no"
      /\ Configured(NewService) /\ NewService.pending = None
      /\ ~NewService.conflict /\ ~NewService.issue /\ NewService.review = None
  BY DEF NewService, Service, Configured
<1>3. /\ u \in Task /\ u.op = "synchronize" /\ u.at = "device" /\ u.local = None
      /\ u.want = None /\ u.choice = None /\ ~u.stale
  BY DEF NoTask, Task, Operations, Save
<1>4. /\ game = [d \in Devices |-> {}] /\ saved = [d \in Devices |-> None]
      /\ checkpoint = [d \in Devices |-> None]
      /\ service = [d \in Devices |-> NewService]
      /\ task = [d \in Devices |-> u]
  BY DEF Init
<1> HIDE DEF u
<1>5. {} \in Content /\ {} # None /\ None \in Save
  BY SyncAssumption DEF Content, Save
<1>6. TypeOK
  BY <1>1, <1>2, <1>3, <1>4, <1>5 DEF TypeOK
<1>7. Waits(u) /\ Flags(None, None, NewService, u)
  BY <1>2, <1>3 DEF Waits, Flags, Running
<1>8. Data(cloud, {}, None, None, NewService, u)
  BY <1>2, <1>3 DEF Data, Base, Offered, Contains, ReadsHold
<1>9. Device(cloud, {}, None, None, NewService, u)
  BY <1>2, <1>3, <1>5, <1>7, <1>8 DEF Device
<1> QED BY <1>4, <1>6, <1>9 DEF SyncInv

LEMMA NextHolds == SyncInv /\ [Next]_vars => SyncInv'
<1> SUFFICES ASSUME SyncInv, [Next]_vars PROVE SyncInv'
  OBVIOUS
<1>1. CASE UNCHANGED vars
  BY <1>1 DEF SyncInv, TypeOK, vars, deviceVars
<1>2. ASSUME NEW d \in Devices,
             Step(d) \/ Synchronize(d) \/ Watchdog(d) \/ Player(d) \/ App(d)
      PROVE  SyncInv'
  <2>1. ASSUME Step(d) PROVE SyncInv'
    BY <2>1, AssessDeviceHolds, ReadCloudHolds, WriteCloudHolds,
       RereadCloudHolds, SaveRestoredHolds, StoreCheckpointHolds, ConfirmHolds
       DEF Step
  <2>2. ASSUME Player(d) PROVE SyncInv'
    BY <2>2, PlayHolds, RetryProgressSaveHolds, PrepareConflictReviewHolds,
       ResolveHolds, RetrySyncConfirmationHolds DEF Player
  <2>3. ASSUME App(d) PROVE SyncInv'
    BY <2>3, SelectAccountHolds, RestartHolds, PauseForSaveImportHolds DEF App
  <2> QED BY <1>2, <2>1, <2>2, <2>3, SynchronizeHolds, WatchdogHolds
<1> QED BY <1>1, <1>2 DEF Next

(* The conjunction above is an invariant: of every device, whatever the others
   do to the document they share (ProgressSyncService).                      *)
THEOREM SyncInvariant == Spec => []SyncInv
BY InitHolds, NextHolds, PTL DEF Spec

(* Every variable keeps its type, and a game is always loaded: no answer, lost
   or late, leaves a device without one (replaceProgressFromCloud).          *)
THEOREM SyncTypes == Spec => []TypeOK
<1>1. SyncInv => TypeOK
  BY DEF SyncInv
<1> QED BY <1>1, SyncInvariant, PTL

(* CheckpointIsAncestor: a stored checkpoint names a revision the cloud really
   had, whatever answers were lost and however often its confirmation was
   retried, and while that is the latest the device contains it (_record).   *)
THEOREM CheckpointsAreAncestors == Spec => []CheckpointIsAncestor
<1>1. SyncInv => CheckpointIsAncestor
  <2> SUFFICES ASSUME SyncInv, NEW d \in Devices, checkpoint[d] # None
               PROVE  /\ checkpoint[d].rev \in 1 .. Latest
                      /\ cloud[checkpoint[d].rev] = checkpoint[d].save
                      /\ checkpoint[d].rev = Latest
                           => checkpoint[d].save \subseteq saved[d]
    BY DEF CheckpointIsAncestor
  <2> QED BY Own DEF Data, Base, Latest
<1> QED BY <1>1, SyncInvariant, PTL

(* NothingForgotten: a service at rest with nothing to show has confirmed what
   is on the device (localProgressSaved, _confirmCurrent,
   _finishSynchronization).                                                  *)
THEOREM NothingIsForgotten == Spec => []NothingForgotten
<1>1. SyncInv => NothingForgotten
  <2> SUFFICES ASSUME SyncInv, NEW d \in Devices, Configured(service[d]), ~Busy(d),
                      ~service[d].timer, ~service[d].asks, ~service[d].issue,
                      checkpoint[d] # None
               PROVE  checkpoint[d].save = saved[d]
    BY DEF NothingForgotten
  <2> QED BY FreeIs DEF AtRest
<1> QED BY <1>1, SyncInvariant, PTL

(* AutomationYields: automatic work is never scheduled behind an operation, a
   choice, an issue, a held save or an import (_setConflict,
   _showCheckpointIssue, _finishSynchronization).                            *)
THEOREM AutomationAlwaysYields == Spec => []AutomationYields
<1>1. SyncInv => AutomationYields
  BY Own DEF Flags, AutomationYields, Busy
<1> QED BY <1>1, SyncInvariant, PTL

(* DrainedIsQuiet: once pauseForSaveImport has returned nothing of the service
   runs or is scheduled, also when the account is selected meanwhile.        *)
THEOREM DrainedStaysQuiet == Spec => []DrainedIsQuiet
<1>1. SyncInv => DrainedIsQuiet
  BY Own DEF Flags, DrainedIsQuiet, Busy, Configured
<1> QED BY <1>1, SyncInvariant, PTL

(* DownloadReplacesAncestor: what an automatic download replaces, as the
   assessment read it, is an earlier revision of the cloud
   (ProgressSyncPlanner.plan, _applyAssessment).                             *)
THEOREM DownloadsReplaceAncestors == Spec => DownloadReplacesAncestor
<1> DEFINE A == \A d \in Devices: Downloads(d) =>
                  \/ task[d].local = None
                  \/ \E r \in 1 .. Latest: cloud[r] = task[d].local
<1>1. SyncInv => A
  BY Own DEF Downloads, Data, ReadsHold, Latest
<1>2. SyncInv => [A]_vars
  BY <1>1
<1> HIDE DEF A
<1>3. Spec => [][A]_vars
  BY <1>2, SyncInvariant, PTL DEF Spec
<1> QED BY <1>3 DEF DownloadReplacesAncestor, A

(* Only the transaction of a write changes the document. *)
LEMMA OnlyWriteCloud ==
  ASSUME [Next]_vars, cloud' # cloud
  PROVE  \E d \in Devices: WriteCloud(d)
<1>1. ~UNCHANGED vars
  BY DEF vars
<1>2. PICK d \in Devices: Step(d) \/ Synchronize(d) \/ Watchdog(d) \/ Player(d) \/ App(d)
  BY <1>1 DEF Next
<1>3. ~Synchronize(d) /\ ~Watchdog(d)
  BY DEF Synchronize, Watchdog
<1>4. ~Player(d)
  BY DEF Player, Play, RetryProgressSave, PrepareConflictReview, Resolve,
         RetrySyncConfirmation
<1>5. ~App(d)
  BY DEF App, SelectAccount, Restart, PauseForSaveImport
<1>6. Step(d) => WriteCloud(d)
  BY DEF Step, AssessDevice, ReadCloud, RereadCloud, SaveRestored,
         StoreCheckpoint, Confirm
<1> QED BY <1>2, <1>3, <1>4, <1>5, <1>6

(* CloudLossIsChosen: progress in the cloud is dropped only by keepThisDevice,
   and only when it replaces the very revision the player had compared
   (_matchesReviewedCloud, the transaction of the repository).               *)
THEOREM CloudLossWasChosen == Spec => CloudLossIsChosen
<1> DEFINE A == (/\ cloud' # cloud /\ Latest > 0
                 /\ ~(cloud[Latest] \subseteq cloud'[Latest + 1]))
                  => \E d \in Devices: /\ task[d].op = "keepThisDevice"
                                       /\ task'[d] # task[d]
                                       /\ task[d].choice = Latest
<1>1. ASSUME SyncInv, [Next]_vars PROVE A
  <2> SUFFICES ASSUME cloud' # cloud, Latest > 0,
                      ~(cloud[Latest] \subseteq cloud'[Latest + 1])
               PROVE  \E d \in Devices: /\ task[d].op = "keepThisDevice"
                                        /\ task'[d] # task[d]
                                        /\ task[d].choice = Latest
    OBVIOUS
  <2>1. PICK d \in Devices: WriteCloud(d)
    BY <1>1, OnlyWriteCloud
  <2> DEFINE t == task[d]
  <2>2. /\ t \in Task /\ Waits(t) /\ cloud \in Seq(Content)
        /\ Data(cloud, game[d], saved[d], checkpoint[d], service[d], t)
    BY <1>1, Own
  <2>3. /\ t.at = "write" /\ t.rev = Latest /\ cloud' = Append(cloud, t.local)
        /\ t.op # "none"
    BY <2>1, <2>2 DEF WriteCloud, RevisionMatches, Waits, NoTask
  <2>4. t.local \in Content /\ cloud'[Latest + 1] = t.local
    BY <2>2, <2>3, Appended DEF Data, ReadsHold, Task, Save, Latest
  <2>5. ~Automatic(t)
    BY <2>2, <2>3, <2>4 DEF Data, ReadsHold, Latest
  <2>6. t.op = "keepThisDevice" /\ t.choice = Latest
    BY <2>2, <2>3, <2>5 DEF Waits, Data, ReadsHold
  <2>7. task'[d] # t
    <3>1. task \in [Devices -> Task]
      BY <1>1 DEF SyncInv, TypeOK
    <3>2. ASSUME NEW r, Return(d, r) PROVE task'[d] # t
      BY <2>3, <3>1, <3>2 DEF Return, NoTask
    <3>3. ASSUME NEW save, NEW rev, Record(d, t, service[d], save, rev)
          PROVE  task'[d] # t
      <4> DEFINE want == IF service[d].pending = None
                         THEN [save |-> save, rev |-> rev]
                         ELSE service[d].pending
                 u == [t EXCEPT !.at = "record", !.want = want, !.local = None,
                                !.ancestor = None]
      <4>1. u.at = "record"
        BY <2>2 DEF Task
      <4>2. task' = [task EXCEPT ![d] = u]
        BY <3>3 DEF Record, Continue
      <4> HIDE DEF u
      <4> QED BY <2>3, <3>1, <4>1, <4>2
    <3>4. \/ \E r: Return(d, r)
          \/ \E save, rev: Record(d, t, service[d], save, rev)
      BY <2>1 DEF WriteCloud, Fail
    <3> QED BY <3>2, <3>3, <3>4
  <2> QED BY <2>6, <2>7
<1>2. SyncInv /\ [Next]_vars => [A]_vars
  BY <1>1
<1> HIDE DEF A
<1>3. Spec => [][A]_vars
  BY <1>2, SyncInvariant, PTL DEF Spec
<1> QED BY <1>3 DEF CloudLossIsChosen, A

=============================================================================
