---------------------------- MODULE RetainedData ----------------------------
(***************************************************************************)
(* The data a guest keeps across its replacements: how it is copied to a   *)
(* disk of its own.                                                        *)
(*                                                                         *)
(* A maintenance guest without a network copies the datasets of the old    *)
(* disk to the new one: all at once, or staged from a snapshot and brought *)
(* up to date when the writers have stopped.  Marker files on the new disk *)
(* say how far it came, because the guest may lose its page cache anywhere *)
(* and no attempt is repeated on what an interrupted one left.             *)
(*                                                                         *)
(* Who stops the writers, takes the snapshot a stage reads and gives a     *)
(* finished disk to a guest is the caller, which is no part of the source. *)
(***************************************************************************)
EXTENDS Naturals, FiniteSets

CONSTANTS
    Entries,    \* the datasets a request may name
    MaxWrites,  \* bound: times a dataset is written
    Faults      \* bound: failures and interruptions

ASSUME DataAssumption == MaxWrites \in Nat /\ Faults \in Nat

VARIABLES
    old,      \* version of each dataset on the disk in use
    stopped,  \* the writers of that disk are stopped
    seen,     \* the new disk as the guest that mounts it sees it
    durable,  \* the new disk without what is only in that guest's memory
    run,      \* the attempt that writes the new disk
    use,      \* "none", "ready" when a final sync returned, "live" in production
    faults

disks == <<old, stopped, seen, durable, run, use>>

Versions == 0 .. MaxWrites

\* A dataset on the new disk is the set of versions its files come from.
Absent == {}
Mixed == Versions

Pending == {"copy", "stage", "final"}  \* .klokast-<kind>-pending
Marks == Pending \cup {"identity"}     \* and .klokast-retained-identity.json

Blank == [data |-> [e \in Entries |-> Absent], marks |-> {},
          copied |-> {}, staged |-> {}, final |-> {}]
Idle == [do |-> "idle"]

DataTypeOK ==
    LET Record == {{}} \cup {{w} : w \in UNION {[r -> Versions] : r \in SUBSET Entries}}
        Disk == [data : [Entries -> SUBSET Versions], marks : SUBSET Marks,
                 copied : Record, staged : Record, final : Record]
    IN  /\ old \in [Entries -> Versions] /\ stopped \in BOOLEAN
        /\ seen \in Disk /\ durable \in Disk
        /\ run = Idle \/ run.do \in Pending
        /\ use \in {"none", "ready", "live"}
        /\ faults \in 0 .. Faults

DataInit ==
    /\ old = [e \in Entries |-> 0]
    /\ stopped = FALSE
    /\ seen = Blank /\ durable = Blank
    /\ run = Idle
    /\ use = "none"
    /\ faults = 0

-----------------------------------------------------------------------------
(* The callers and the guests in production.                               *)

Write(e) ==
    /\ ~stopped /\ old[e] < MaxWrites
    /\ old' = [old EXCEPT ![e] = @ + 1]
    /\ UNCHANGED <<stopped, seen, durable, run, use, faults>>

StopWriters ==
    /\ ~stopped
    /\ stopped' = TRUE
    /\ UNCHANGED <<old, seen, durable, run, use, faults>>

\* The guest of the new release starts on the finished disk.
Adopt ==
    /\ use = "ready"
    /\ use' = "live"
    /\ UNCHANGED <<old, stopped, seen, durable, run, faults>>

\* Its applications write a dataset file by file, in the guest's memory first,
\* which reaches the disk whenever it does.  What they wrote is no version that
\* was ever measured.
Serve(e) ==
    /\ use = "live" /\ seen.data[e] # Absent
    /\ seen' = [seen EXCEPT !.data[e] = Mixed]
    /\ UNCHANGED <<old, stopped, durable, run, use, faults>>

Flush ==
    /\ use = "live"
    /\ durable' = seen
    /\ UNCHANGED <<old, stopped, seen, run, use, faults>>

-----------------------------------------------------------------------------
(* Copying, staging and the final sync, in the maintenance guest.          *)

\* What a disk may hold when the guest that wrote s is gone and only d was
\* certainly written: of each file and directory entry the old or the new.
Contents(d, s, e) ==
    IF d.data[e] = s.data[e] THEN {d.data[e]} ELSE {d.data[e], s.data[e], Mixed}

AfterLoss(d, s) ==
    [data : {f \in [Entries -> UNION {Contents(d, s, e) : e \in Entries}] :
                \A e \in Entries : f[e] \in Contents(d, s, e)},
     marks : {m \in SUBSET (d.marks \cup s.marks) : d.marks \cap s.marks \subseteq m},
     copied : {d.copied, s.copied}, staged : {d.staged, s.staged},
     final : {d.final, s.final}]

Source(e) == IF run.do = "stage" THEN run.from[e] ELSE old[e]

Measured(d, w) ==
    \A e \in Entries : d.data[e] = IF e \in DOMAIN w THEN {w[e]} ELSE Absent

\* A request names disjoint datasets; only a staged one may name the state
\* files of a machine's identity.
CopyRequests == SUBSET Entries \ {{}}
StageRequests == CopyRequests

\* The disks are mounted in one maintenance guest and nowhere else.
Assigned == run = Idle /\ use = "none"

EmptyTarget == seen = Blank

\* The staged data is as its record says, and there is nothing else.
StagedFor(req) ==
    /\ seen.marks = {} /\ seen.copied = {} /\ seen.final = {}
    /\ \E w \in seen.staged : DOMAIN w = req /\ Measured(seen, w)

MayBegin(kind, req) ==
    CASE kind = "copy" -> stopped /\ EmptyTarget
      [] kind = "stage" -> EmptyTarget
      [] kind = "final" -> stopped /\ StagedFor(req)

Measurement(req) == [e \in req |-> old[e]]

Begin(kind, req) ==
    /\ Assigned
    /\ MayBegin(kind, req)
    /\ run' = [do |-> kind, at |-> "claim", from |-> old, want |-> Measurement(req), left |-> req]
    /\ UNCHANGED <<old, stopped, seen, durable, use, faults>>

\* A record that was synced with its directory survives everything; the
\* first kind of copy syncs the file alone.
Mark(m) ==
    /\ seen' = [seen EXCEPT !.marks = @ \cup {m}]
    /\ durable' = IF run.do = "copy" THEN durable
                  ELSE [durable EXCEPT !.marks = @ \cup {m}]

At(phase) == run # Idle /\ run.at = phase
GoOn(phase) == run' = [run EXCEPT !.at = phase]
Elsewhere == UNCHANGED <<old, stopped, use, faults>>

Claim ==
    /\ At("claim")
    /\ Mark(run.do)
    /\ GoOn("entries")
    /\ Elsewhere

\* One rsync, which may succeed and not have copied what was measured.  The
\* first kind of copy compares each dataset as soon as it is copied.
SyncEntry(e) ==
    /\ At("entries") /\ e \in run.left
    /\ \E copied \in {{Source(e)}, Mixed} :
          /\ run.do = "copy" => copied = {run.want[e]} /\ Source(e) = run.want[e]
          /\ seen' = [seen EXCEPT !.data[e] = copied]
    /\ run' = [run EXCEPT !.left = @ \ {e}]
    /\ durable' = durable
    /\ Elsewhere

Unmoved == \A e \in DOMAIN run.want : Source(e) = run.want[e]

NextRecord == IF run.do = "final" THEN "identity" ELSE "record"

CompareNothing ==
    /\ At("entries") /\ run.left = {} /\ run.do # "copy"
    /\ GoOn(NextRecord)
    /\ UNCHANGED <<seen, durable>>
    /\ Elsewhere

Compare ==
    /\ At("entries") /\ run.left = {} /\ run.do # "copy"
    /\ Measured(seen, run.want) /\ Unmoved
    /\ GoOn(NextRecord)
    /\ UNCHANGED <<seen, durable>>
    /\ Elsewhere

\* The first kind of copy has compared already and syncs before its result.
SyncCopy ==
    /\ At("entries") /\ run.left = {} /\ run.do = "copy"
    /\ durable' = seen
    /\ GoOn("record")
    /\ seen' = seen
    /\ Elsewhere

RecordIdentity ==
    /\ At("identity")
    /\ Mark("identity")
    /\ GoOn("record")
    /\ Elsewhere

With(d) ==
    CASE run.do = "copy" -> [d EXCEPT !.copied = {run.want}]
      [] run.do = "stage" -> [d EXCEPT !.staged = {run.want}]
      [] run.do = "final" -> [d EXCEPT !.final = {run.want}]

RecordResult ==
    /\ At("record")
    /\ seen' = With(seen)
    /\ durable' = IF run.do = "copy" THEN durable ELSE With(durable)
    /\ GoOn(IF run.do = "copy" THEN "unlink" ELSE "sync")
    /\ Elsewhere

SyncNothing ==
    /\ At("sync")
    /\ GoOn("unlink")
    /\ UNCHANGED <<seen, durable>>
    /\ Elsewhere

SyncTarget ==
    /\ At("sync")
    /\ durable' = seen
    /\ GoOn("unlink")
    /\ seen' = seen
    /\ Elsewhere

Unlink ==
    /\ At("unlink")
    /\ seen' = [seen EXCEPT !.marks = @ \ {run.do}]
    /\ GoOn("last")
    /\ durable' = durable
    /\ Elsewhere

Finish ==
    /\ At("last")
    /\ durable' = seen
    /\ run' = Idle
    /\ use' = IF run.do = "final" THEN "ready" ELSE use
    /\ UNCHANGED <<old, stopped, seen, faults>>

\* The dataset that is being copied may be left half written.
Partial ==
    {seen} \cup IF At("entries") THEN {[seen EXCEPT !.data[e] = Mixed] : e \in run.left} ELSE {}

Gone == \E s \in Partial : \E d \in AfterLoss(durable, s) : seen' = d /\ durable' = d

\* A comparison fails, and with it the attempt.
Refuse ==
    /\ At("entries")
    /\ IF run.do = "copy" THEN run.left # {}
       ELSE run.left = {} /\ ~(Measured(seen, run.want) /\ Unmoved)
    /\ Gone
    /\ run' = Idle
    /\ Elsewhere

\* A command fails, the time is over, or the guest is killed.
Interrupt ==
    /\ faults < Faults
    /\ run # Idle
    /\ Gone
    /\ run' = Idle
    /\ faults' = faults + 1
    /\ UNCHANGED <<old, stopped, use>>

DataNext ==
    \/ \E e \in Entries : Write(e) \/ Serve(e) \/ SyncEntry(e)
    \/ StopWriters \/ Adopt \/ Flush
    \/ \E kind \in {"stage", "final"}, req \in StageRequests : Begin(kind, req)
    \/ \E req \in CopyRequests : Begin("copy", req)
    \/ Claim \/ Compare \/ SyncCopy \/ RecordIdentity \/ RecordResult
    \/ SyncTarget \/ Unlink \/ Finish
    \/ Refuse \/ Interrupt

-----------------------------------------------------------------------------
(* What the marker files promise.                                          *)

Newest(d) == IF d.final # {} THEN d.final ELSE d.staged \cup d.copied

\* A disk that shows a result and no pending marker holds exactly the
\* datasets of that result as they were measured, whatever was in memory
\* only when the guest was lost.  Nothing of an earlier attempt is on it.
\* (The two syncs around the unlink, and the refusal of a used destination.)
FinishedIsWhole ==
    use # "live" =>
        \A d \in AfterLoss(durable, seen) :
            (d.marks \cap Pending = {}) =>
                \A w \in Newest(d) : Measured(d, w)

\* When the final sync has returned, the disk holds everything the writers
\* wrote before they stopped, also what they wrote after the stage.
NothingIsLost ==
    use = "ready" =>
        \A w \in durable.final : \A e \in DOMAIN w : durable.data[e] = {old[e]}

=============================================================================
