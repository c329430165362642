------------------------ MODULE RouterTransactionProofs ------------------------
(***************************************************************************)
(* Theorems about the router transaction, for any number of failures: its  *)
(* records, guests and actors fit together; it implements                  *)
(* GenerationSelection, keeps the newest state of the router through every *)
(* cutover and rollback, and fences what it gives up.  The same holds with *)
(* a cold test of a first installation beside it, and the test gives back  *)
(* the original that it set aside.                                         *)
(***************************************************************************)
EXTENDS RouterColdTest, FiniteSetTheorems, TLAPS

(* The places of each program.                                             *)
Finish == {"select", "link", "persist on", "complete", "unpend"}

CutoverPlaces ==
  (CutoverPhases \ {"armed"}) \cup Finish \cup
  {"unlink", "persist off", "attempt", "stop old", "copy forward", "wait forward",
   "verify forward", "start candidate", "check candidate", "await enrollment",
   "stop candidate", "finalize", "await finalizer", "restart candidate",
   "check final", "await acceptance", "commit"}
RecoverPlaces  == {"unlink", "persist off", "fence finalizer", "fence copy", "decide"}
SettlePlaces   == {"accepted", "stop old", "start candidate", "check candidate"} \cup Finish
RollbackPlaces ==
  {"fencing-candidate", "stop candidate", "fencing-old", "stop old",
   "copying-reverse", "copy reverse", "wait reverse", "verify reverse", "old-ready",
   "starting-old", "start old", "checking-old", "check old", "rolled-back"} \cup Finish
FencePlaces    == {"unlink", "persist off", "fence finalizer", "fence copy",
                   "kill candidate", "kill old", "recovery-failed"}
CleanupPlaces  == {"disk-removing", "lvremove", "disk-removed", "boot-removing",
                   "unlink boot", "retire copy", "cleaned"}

Programs == {"none", "cutover", "recover", "settle", "rollback", "fence", "cleanup", "status"}
Places   == {"idle", "read"} \cup CutoverPlaces \cup RecoverPlaces \cup SettlePlaces
            \cup RollbackPlaces \cup FencePlaces \cup CleanupPlaces
Hands    == [do: Programs, pc: Places, failed: BOOLEAN]

InProgram(do, pc) ==
  \/ do = "cutover"  /\ pc \in CutoverPlaces
  \/ do = "recover"  /\ pc \in RecoverPlaces
  \/ do = "settle"   /\ pc \in SettlePlaces
  \/ do = "rollback" /\ pc \in RollbackPlaces
  \/ do = "fence"    /\ pc \in FencePlaces
  \/ do = "cleanup"  /\ pc \in CleanupPlaces
  \/ do = "status"   /\ pc = "read"

(* The lock is free, or its holder is at a place of its program.           *)
HandInv ==
  /\ hand \in Hands
  /\ hand = Idle \/ InProgram(hand.do, hand.pc)

(* Only this operation's routers run, and records keep their types.        *)
RecordType ==
  /\ pending \in Pending \cup {None}
  /\ complete \in Pending \cup {None}
  /\ evidence \subseteq {"attempt", "device", "enrolled", "acceptance"}
  /\ receipt \subseteq Directions
  /\ cleanup \in {"none", "run", "ran", "done"}
  /\ progress \in {"none", "disk-removing", "disk-removed", "boot-removing", "cleaned"}
  /\ gone \subseteq {"disk", "boot", "copy"}

XenType ==
  /\ conf \in [gen: Sides, auto: BOOLEAN]
  /\ saved \in [gen: Sides, auto: BOOLEAN]
  /\ live \subseteq Sides
  /\ dying \subseteq live
  /\ helper \in Directions \cup {"finalizer", None}
  /\ fresh \subseteq Sides

ActorType ==
  /\ sup \in {"idle", "watching", "reaped", "over"}
  /\ signal \in {"none", "device", "enroll", "accept"}
  /\ mode \in {"up", "recovery", "fence", "xendomains"}
  /\ left \in 0..Budget

TypeInv == RecordType /\ XenType /\ ActorType

(* At most one router runs, and none beside a copy or finalizer guest.     *)
Apart ==
  /\ \A s, t \in live : s = t
  /\ helper # None => live = {}

(* No helper is left where a router can be started without a look at it:   *)
(* after the selection, and in a boot that keeps the autostart link.       *)
HelperGone ==
  /\ hand.pc \in Finish \ {"select"} => helper = None
  /\ hand = Idle /\ mode = "recovery" => helper = None
  /\ hand # Idle => \/ mode = "up"
                    \/ mode = "recovery" /\ hand.do \in Recovering \cup {"fence"}
  /\ mode = "xendomains" /\ conf.auto => helper = None

(* Whoever moves a router has a pending operation on an accepted baseline. *)
Movers == {"cutover", "fence"} \cup Recovering

PendingInv == hand.do \in Movers => pending # None /\ accepted # None

(* The end of an operation runs on the side it selects.                    *)
FinishInv ==
  /\ hand.do = "settle" /\ hand.pc # "accepted" => pending.phase = "accepted"
  /\ hand.pc \in Finish => (pending.phase = "accepted" <=> hand.do # "rollback")
  /\ hand.pc \in Finish \ {"select"} =>
       accepted = Side /\ live \subseteq {accepted} /\ conf.gen = accepted
  /\ hand.pc \in {"complete", "unpend"} => saved = conf
  /\ hand.pc = "unpend" => complete = pending

(* Before the baseline is adopted there is only the old router.            *)
BaselineInv ==
  /\ marker = "none"
  /\ accepted \in Sides \cup {None}
  /\ accepted = None =>
       /\ pending = None /\ complete = None
       /\ live \subseteq {"old"} /\ conf.gen = "old" /\ saved.gen = "old"

RouterInv ==
  /\ TypeInv /\ HandInv /\ Apart /\ HelperGone /\ PendingInv
  /\ FinishInv /\ BaselineInv /\ SettledIsSelected

(* Places that are left by other means than by their successor.            *)
Turns == {"unpend", "decide", "recovery-failed", "stop candidate", "read"} \cup CleanupPlaces

-----------------------------------------------------------------------------

(* The successor of a place belongs to the same program; and the way to    *)
(* the end of an operation leads over the selection of a verified router.  *)
LEMMA Onward ==
  ASSUME NEW do, NEW pc, InProgram(do, pc), pc \notin Turns
  PROVE  /\ InProgram(do, After(do, pc))
         /\ After(do, pc) \in Finish /\ pc \notin Finish =>
              /\ After(do, pc) = "select"
              /\ \/ do = "cutover"  /\ pc = "accepted"
                 \/ do = "settle"   /\ pc = "check candidate"
                 \/ do = "rollback" /\ pc = "rolled-back"
<1>1. CASE do = "cutover"
  <2>1. pc \in CutoverPlaces \ Turns
    BY <1>1 DEF InProgram
  <2>2. /\ After("cutover", pc) \in CutoverPlaces
        /\ After("cutover", pc) \in Finish /\ pc \notin Finish =>
             pc = "accepted" /\ After("cutover", pc) = "select"
    <3>1. CASE pc \in
           {"unlink", "persist off", "attempt", "stopping-old", "stop old",
            "copying-forward"}
      <4>1. /\ After("cutover", "unlink") = "persist off"
            /\ After("cutover", "persist off") = "attempt"
            /\ After("cutover", "attempt") = "stopping-old"
            /\ After("cutover", "stopping-old") = "stop old"
            /\ After("cutover", "stop old") = "copying-forward"
            /\ After("cutover", "copying-forward") = "copy forward"
        BY DEF After
      <4> QED BY <3>1, <4>1 DEF CutoverPlaces, CutoverPhases, Finish
    <3>2. CASE pc \in
           {"copy forward", "wait forward", "candidate-ready",
            "verify forward", "starting-candidate", "start candidate"}
      <4>1. /\ After("cutover", "copy forward") = "wait forward"
            /\ After("cutover", "wait forward") = "candidate-ready"
            /\ After("cutover", "candidate-ready") = "verify forward"
            /\ After("cutover", "verify forward") = "starting-candidate"
            /\ After("cutover", "starting-candidate") = "start candidate"
            /\ After("cutover", "start candidate") = "checking-candidate"
        BY DEF After
      <4> QED BY <3>2, <4>1 DEF CutoverPlaces, CutoverPhases, Finish
    <3>3. CASE pc \in
           {"checking-candidate", "check candidate", "awaiting-enrollment",
            "await enrollment", "stopping-candidate-for-finalization",
            "finalizing-candidate"}
      <4>1. /\ After("cutover", "checking-candidate") = "check candidate"
            /\ After("cutover", "check candidate") = "awaiting-enrollment"
            /\ After("cutover", "awaiting-enrollment") = "await enrollment"
            /\ After("cutover", "await enrollment") = "stopping-candidate-for-finalization"
            /\ After("cutover", "stopping-candidate-for-finalization") = "stop candidate"
            /\ After("cutover", "finalizing-candidate") = "finalize"
        BY DEF After
      <4> QED BY <3>3, <4>1 DEF CutoverPlaces, CutoverPhases, Finish
    <3>4. CASE pc \in
           {"finalize", "await finalizer", "restarting-candidate",
            "restart candidate", "checking-final-candidate", "check final"}
      <4>1. /\ After("cutover", "finalize") = "await finalizer"
            /\ After("cutover", "await finalizer") = "restarting-candidate"
            /\ After("cutover", "restarting-candidate") = "restart candidate"
            /\ After("cutover", "restart candidate") = "checking-final-candidate"
            /\ After("cutover", "checking-final-candidate") = "check final"
            /\ After("cutover", "check final") = "awaiting-acceptance"
        BY DEF After
      <4> QED BY <3>4, <4>1 DEF CutoverPlaces, CutoverPhases, Finish
    <3>5. CASE pc \in
           {"awaiting-acceptance", "await acceptance", "committing", "commit",
            "accepted", "select"}
      <4>1. /\ After("cutover", "awaiting-acceptance") = "await acceptance"
            /\ After("cutover", "await acceptance") = "committing"
            /\ After("cutover", "committing") = "commit"
            /\ After("cutover", "commit") = "accepted"
            /\ After("cutover", "accepted") = "select"
            /\ After("cutover", "select") = "link"
        BY DEF After
      <4> QED BY <3>5, <4>1 DEF CutoverPlaces, CutoverPhases, Finish
    <3>6. CASE pc \in
           {"link", "persist on", "complete"}
      <4>1. /\ After("cutover", "link") = "persist on"
            /\ After("cutover", "persist on") = "complete"
            /\ After("cutover", "complete") = "unpend"
        BY DEF After
      <4> QED BY <3>6, <4>1 DEF CutoverPlaces, CutoverPhases, Finish
    <3> QED
      BY <2>1, <3>1, <3>2, <3>3, <3>4, <3>5, <3>6
      DEF CutoverPlaces, CutoverPhases, Finish, Turns
  <2> QED BY <1>1, <2>2 DEF InProgram
<1>2. CASE do = "recover"
  <2>1. /\ After("recover", "unlink") = "persist off"
        /\ After("recover", "persist off") = "fence finalizer"
        /\ After("recover", "fence finalizer") = "fence copy"
        /\ After("recover", "fence copy") = "decide"
    BY DEF After
  <2>2. pc \in RecoverPlaces \ Turns
    BY <1>2 DEF InProgram
  <2>3. /\ After("recover", pc) \in RecoverPlaces
        /\ After("recover", pc) \notin Finish
    BY <2>1, <2>2 DEF RecoverPlaces, Finish, Turns
  <2> QED BY <1>2, <2>3 DEF InProgram
<1>3. CASE do = "settle"
  <2>1. /\ After("settle", "accepted") = "stop old"
        /\ After("settle", "stop old") = "start candidate"
        /\ After("settle", "start candidate") = "check candidate"
        /\ After("settle", "check candidate") = "select"
        /\ After("settle", "select") = "link"
        /\ After("settle", "link") = "persist on"
        /\ After("settle", "persist on") = "complete"
        /\ After("settle", "complete") = "unpend"
    BY DEF After
  <2>2. pc \in SettlePlaces \ Turns
    BY <1>3 DEF InProgram
  <2>3. /\ After("settle", pc) \in SettlePlaces
        /\ After("settle", pc) \in Finish /\ pc \notin Finish =>
             pc = "check candidate" /\ After("settle", pc) = "select"
    BY <2>1, <2>2 DEF SettlePlaces, Finish, Turns
  <2> QED BY <1>3, <2>3 DEF InProgram
<1>4. CASE do = "rollback"
  <2>1. /\ After("rollback", "fencing-candidate") = "stop candidate"
        /\ After("rollback", "fencing-old") = "stop old"
        /\ After("rollback", "stop old") = "copying-reverse"
        /\ After("rollback", "copying-reverse") = "copy reverse"
        /\ After("rollback", "copy reverse") = "wait reverse"
        /\ After("rollback", "wait reverse") = "verify reverse"
        /\ After("rollback", "verify reverse") = "old-ready"
        /\ After("rollback", "old-ready") = "starting-old"
        /\ After("rollback", "starting-old") = "start old"
        /\ After("rollback", "start old") = "checking-old"
        /\ After("rollback", "checking-old") = "check old"
        /\ After("rollback", "check old") = "rolled-back"
        /\ After("rollback", "rolled-back") = "select"
        /\ After("rollback", "select") = "link"
        /\ After("rollback", "link") = "persist on"
        /\ After("rollback", "persist on") = "complete"
        /\ After("rollback", "complete") = "unpend"
    BY DEF After
  <2>2. pc \in RollbackPlaces \ Turns
    BY <1>4 DEF InProgram
  <2>3. /\ After("rollback", pc) \in RollbackPlaces
        /\ After("rollback", pc) \in Finish /\ pc \notin Finish =>
             pc = "rolled-back" /\ After("rollback", pc) = "select"
    <3>1. CASE pc \in
           {"fencing-candidate", "fencing-old", "stop old", "copying-reverse",
            "copy reverse", "wait reverse"}
      BY <2>1, <3>1 DEF RollbackPlaces, Finish
    <3>2. CASE pc \in
           {"verify reverse", "old-ready", "starting-old", "start old",
            "checking-old", "check old"}
      BY <2>1, <3>2 DEF RollbackPlaces, Finish
    <3>3. CASE pc \in
           {"rolled-back", "select", "link", "persist on", "complete"}
      BY <2>1, <3>3 DEF RollbackPlaces, Finish
    <3> QED
      BY <2>2, <3>1, <3>2, <3>3
      DEF RollbackPlaces, Finish, Turns
  <2> QED BY <1>4, <2>3 DEF InProgram
<1>5. CASE do = "fence"
  <2>1. /\ After("fence", "unlink") = "persist off"
        /\ After("fence", "persist off") = "fence finalizer"
        /\ After("fence", "fence finalizer") = "fence copy"
        /\ After("fence", "fence copy") = "kill candidate"
        /\ After("fence", "kill candidate") = "kill old"
        /\ After("fence", "kill old") = "recovery-failed"
    BY DEF After
  <2>2. pc \in FencePlaces \ Turns
    BY <1>5 DEF InProgram
  <2>3. /\ After("fence", pc) \in FencePlaces
        /\ After("fence", pc) \notin Finish
    BY <2>1, <2>2 DEF FencePlaces, Finish, Turns
  <2> QED BY <1>5, <2>3 DEF InProgram
<1>6. CASE do = "cleanup" \/ do = "status"
  BY <1>6 DEF InProgram, Turns
<1> QED BY <1>1, <1>2, <1>3, <1>4, <1>5, <1>6 DEF InProgram

(* A place of a program is a place, and nobody is there while idle.        *)
LEMMA Named ==
  ASSUME NEW do, NEW pc, InProgram(do, pc)
  PROVE  do \in Programs /\ pc \in Places /\ do # "none" /\ pc # "idle"
<1>1. do \in Programs /\ pc \in Places /\ do # "none"
  BY DEF InProgram, Programs, Places
<1>2. pc # "idle"
  BY DEF InProgram, CutoverPlaces, CutoverPhases, RecoverPlaces, SettlePlaces,
     RollbackPlaces, FencePlaces, CleanupPlaces, Finish
<1> QED BY <1>1, <1>2

(* A command that advances is at the next place of its program.            *)
LEMMA Advanced ==
  ASSUME HandInv, hand.pc # "idle", hand.pc \notin Turns, Advance
  PROVE  /\ HandInv' /\ hand # Idle /\ hand' # Idle
         /\ InProgram(hand.do, hand.pc)
         /\ hand'.do = hand.do /\ hand'.pc = After(hand.do, hand.pc)
         /\ hand'.pc \in Finish /\ hand.pc \notin Finish =>
              /\ hand'.pc = "select"
              /\ \/ hand.do = "cutover"  /\ hand.pc = "accepted"
                 \/ hand.do = "settle"   /\ hand.pc = "check candidate"
                 \/ hand.do = "rollback" /\ hand.pc = "rolled-back"
<1>1. hand # Idle /\ InProgram(hand.do, hand.pc)
  BY DEF HandInv, Idle
<1>2. InProgram(hand.do, After(hand.do, hand.pc))
  BY <1>1, Onward
<1>3. After(hand.do, hand.pc) \in Places /\ hand.do # "none"
  BY <1>2, Named
<1>4. /\ hand' \in Hands
      /\ hand'.do = hand.do /\ hand'.pc = After(hand.do, hand.pc)
  BY <1>3 DEF HandInv, Advance, Goto, Hands
<1>5. HandInv' /\ hand' # Idle
  BY <1>2, <1>3, <1>4 DEF HandInv, Idle
<1>6. After(hand.do, hand.pc) \in Finish /\ hand.pc \notin Finish =>
        /\ After(hand.do, hand.pc) = "select"
        /\ \/ hand.do = "cutover"  /\ hand.pc = "accepted"
           \/ hand.do = "settle"   /\ hand.pc = "check candidate"
           \/ hand.do = "rollback" /\ hand.pc = "rolled-back"
  BY <1>1, Onward
<1> QED BY <1>1, <1>4, <1>5, <1>6

(* A program that is started or turned to another one is at a place of it. *)
LEMMA Started ==
  ASSUME NEW do, NEW pc, InProgram(do, pc), Run(do, pc)
  PROVE  HandInv' /\ hand' # Idle /\ hand'.do = do /\ hand'.pc = pc
  BY Named DEF HandInv, Run, Idle, Hands

(* The same command at another place of its program.                       *)
LEMMA Went ==
  ASSUME HandInv, NEW pc, InProgram(hand.do, pc), Goto(pc)
  PROVE  HandInv' /\ hand' # Idle /\ hand'.do = hand.do /\ hand'.pc = pc
<1>1. pc \in Places /\ hand.do # "none"
  BY Named
<1> QED BY <1>1 DEF HandInv, Goto, Idle, Hands

(* Only programs that contain a place are at that place.                   *)
LEMMA WhoIsThere ==
  ASSUME HandInv
  PROVE  /\ hand.pc \in CleanupPlaces => hand.do = "cleanup"
         /\ hand.pc = "stop candidate" => hand.do \in {"cutover", "rollback"}
         /\ hand.do = "fence"   => hand.pc \in FencePlaces
         /\ hand.do = "cleanup" => hand.pc \in CleanupPlaces
         /\ hand.do = "recover" => hand.pc \in RecoverPlaces
         /\ hand.pc \in Finish  => hand.do \in {"cutover", "settle", "rollback"}
         /\ hand.pc \in Phases \cup Finish \cup {"commit", "unlink", "persist off", "attempt"}
              => hand.do \in Movers
<1>1. CASE hand = Idle
  BY <1>1 DEF Idle, CleanupPlaces, Finish, Phases, CutoverPhases, RecoveryPhases, Movers
<1>2. CASE InProgram(hand.do, hand.pc)
  <2>1. CASE hand.do = "cutover"
    BY <1>2, <2>1 DEF InProgram, CutoverPlaces, CutoverPhases, CleanupPlaces, Finish, Movers
  <2>2. CASE hand.do \in {"recover", "settle", "rollback", "fence"}
    BY <1>2, <2>2
    DEF InProgram, RecoverPlaces, SettlePlaces, RollbackPlaces, FencePlaces,
        CleanupPlaces, Finish, Recovering, Movers
  <2>3. CASE hand.do \in {"cleanup", "status"}
    BY <1>2, <2>3
    DEF InProgram, CleanupPlaces, Finish, Phases, CutoverPhases, RecoveryPhases, Movers
  <2> QED BY <1>2, <2>1, <2>2, <2>3 DEF InProgram
<1> QED BY <1>1, <1>2 DEF HandInv

(* A command at some place, or of some name, holds the lock.               *)
LEMMA Held ==
  /\ hand.pc # "idle" \/ hand.do # "none" => hand # Idle
  /\ hand'.pc # "idle" \/ hand'.do # "none" => hand' # Idle
<1>1. Idle.pc = "idle" /\ Idle.do = "none"
  BY DEF Idle
<1> QED BY <1>1

(* Every command stays within its program, or turns to another one.        *)
LEMMA HandNext ==
  ASSUME HandInv, [RouterNext]_vars
  PROVE  HandInv'
<1>i. ASSUME hand' = Idle PROVE HandInv'
  <2>1. Idle \in Hands
    BY DEF Idle, Hands, Programs, Places
  <2> QED BY <2>1, <1>i DEF HandInv
<1>u. ASSUME UNCHANGED hand PROVE HandInv'
  BY <1>u DEF HandInv
<1>r. ASSUME NEW do, NEW pc, InProgram(do, pc), Run(do, pc) PROVE HandInv'
  BY <1>r, Started
<1>a. ASSUME hand.pc # "idle", hand.pc \notin Turns, Advance PROVE HandInv'
  BY <1>a, Advanced
<1>1. CASE UNCHANGED vars
  BY <1>1, <1>u DEF vars
<1>2. CASE Checkpoint
  <2>1. hand.pc = "recovery-failed" => hand' = Idle
    BY <1>2 DEF Checkpoint, Return
  <2>2. hand.pc # "recovery-failed" => hand.pc # "idle" /\ hand.pc \notin Turns /\ Advance
    BY <1>2 DEF Checkpoint, Phases, CutoverPhases, RecoveryPhases, Turns, CleanupPlaces
  <2> QED BY <2>1, <2>2, <1>i, <1>a
<1>3. CASE \/ Unlink \/ Persist \/ RecordAttempt \/ CheckLocal \/ AwaitEnrollment
           \/ Finalize \/ AwaitFinalizer \/ AwaitAcceptance \/ Commit \/ Select \/ Link
           \/ Complete \/ Start \/ FenceHelper
  <2>1. /\ Advance
        /\ hand.pc \in {"unlink", "persist off", "persist on", "attempt", "await enrollment",
                        "finalize", "await finalizer", "await acceptance", "commit",
                        "select", "link", "complete", "fence finalizer", "fence copy"}
                       \cup Starts \cup Checks
    BY <1>3 DEF Unlink, Persist, RecordAttempt, CheckLocal, AwaitEnrollment, Finalize,
       AwaitFinalizer, AwaitAcceptance, Commit, Select, Link, Complete, Start, FenceHelper
  <2> QED BY <2>1, <1>a DEF Turns, CleanupPlaces, Starts, Checks
<1>4. ASSUME NEW d \in Directions, StartCopy(d) \/ EndCopy(d) \/ VerifyCopy(d)
      PROVE  HandInv'
  <2>1. Advance /\ hand.pc \in {CopyOf[d], WaitOf[d], CheckOf[d]}
    BY <1>4 DEF StartCopy, EndCopy, VerifyCopy
  <2>2. CASE d = "forward"
    BY <2>1, <2>2, <1>a DEF Turns, CleanupPlaces, CopyOf, WaitOf, CheckOf
  <2>3. CASE d = "reverse"
    BY <2>1, <2>3, <1>a DEF Turns, CleanupPlaces, CopyOf, WaitOf, CheckOf
  <2> QED BY <2>2, <2>3 DEF Directions
<1>5. ASSUME NEW s \in Sides, AskShutdown(s) \/ Kill(s) PROVE HandInv'
  <2>1. UNCHANGED hand \/ (Advance /\ hand.pc = KillOf[s])
    BY <1>5 DEF AskShutdown, Kill
  <2>2. KillOf[s] \in {"kill old", "kill candidate"}
    <3>1. CASE s = "old"
      BY <3>1 DEF KillOf
    <3>2. CASE s = "candidate"
      BY <3>2 DEF KillOf
    <3> QED BY <3>1, <3>2 DEF Sides
  <2> QED BY <2>1, <2>2, <1>a, <1>u DEF Turns, CleanupPlaces
<1>6. ASSUME NEW s \in Sides, Stop(s) PROVE HandInv'
  <2>1. CASE s = "old"
    <3>1. Advance /\ hand.pc = "stop old"
      BY <1>6, <2>1 DEF Stop, StopOf
    <3> QED BY <3>1, <1>a DEF Turns, CleanupPlaces
  <2>2. CASE s = "candidate"
    <3>1. hand.pc = "stop candidate" /\ hand.do \in {"cutover", "rollback"}
      BY <1>6, <2>2, WhoIsThere DEF Stop, StopOf
    <3>2. \/ hand.do = "cutover"  /\ Goto("finalizing-candidate")
          \/ hand.do = "rollback" /\ Goto("fencing-old")
          \/ hand.do = "rollback" /\ Goto("old-ready")
      BY <1>6, <2>2, <3>1 DEF Stop
    <3>3. \/ hand.do = "cutover"  /\ InProgram(hand.do, "finalizing-candidate")
          \/ /\ hand.do = "rollback"
             /\ InProgram(hand.do, "fencing-old") /\ InProgram(hand.do, "old-ready")
      BY <3>1 DEF InProgram, CutoverPlaces, CutoverPhases, RollbackPlaces
    <3> QED BY <3>2, <3>3, Went
  <2> QED BY <2>1, <2>2 DEF Sides
<1>7. CASE Unpend \/ EndStatus \/ ProcessKilled \/ PowerLoss
  BY <1>7, <1>i DEF Unpend, EndStatus, ProcessKilled, PowerLoss, Return
<1>8. CASE Decide
  BY <1>8, <1>r DEF Decide, InProgram, SettlePlaces, RollbackPlaces
<1>9. CASE SaveProgress \/ Retire
  <2>1. hand.do = "cleanup"
    BY <1>9, WhoIsThere DEF SaveProgress, Retire, CleanupPlaces
  <2>2. hand' = Idle \/ \E pc \in CleanupPlaces : Goto(pc)
    BY <1>9 DEF SaveProgress, Retire, Return, CleanupPlaces
  <2> QED BY <2>1, <2>2, <1>i, Went DEF InProgram
<1>10. CASE Recover \/ SupervisorRecovers \/ BootRecover
  <2>1. InProgram("recover", "unlink")
    BY DEF InProgram, RecoverPlaces
  <2>2. Run("recover", "unlink") \/ UNCHANGED hand
    BY <1>10 DEF Recover, SupervisorRecovers, BootRecover
  <2> QED BY <2>1, <2>2, <1>r, <1>u
<1>11. CASE StartCutover \/ TakeStatus \/ StartCleanup
  <2>1. \E do, pc : InProgram(do, pc) /\ Run(do, pc)
    BY <1>11
    DEF StartCutover, TakeStatus, StartCleanup, InProgram, CutoverPlaces, CleanupPlaces
  <2> QED BY <2>1, <1>r
<1>12. CASE Fail
  <2>1. CASE FailCutover \/ FailRecovery
    <3>1. InProgram("recover", "unlink") /\ InProgram("fence", "unlink")
      BY DEF InProgram, RecoverPlaces, FencePlaces
    <3> QED BY <2>1, <3>1, <1>r DEF FailCutover, FailRecovery
  <2>2. CASE FailCleanup
    BY <2>2, <1>i DEF FailCleanup, Return
  <2>3. CASE FailFence
    <3>1. CASE hand.pc = "recovery-failed"
      BY <2>3, <3>1, <1>i DEF FailFence, Return
    <3>2. CASE hand.pc # "recovery-failed"
      <4> DEFINE pc == IF hand.pc = "unlink" THEN "fence finalizer" ELSE After("fence", hand.pc)
      <4>1. hand.do = "fence" /\ hand.pc \in FencePlaces
        BY <2>3, WhoIsThere DEF FailFence
      <4>2. InProgram("fence", pc) /\ pc \in Places
        <5>1. hand.pc \notin Turns
          BY <4>1, <3>2 DEF FencePlaces, Turns, CleanupPlaces
        <5>2. InProgram("fence", hand.pc) /\ InProgram("fence", "fence finalizer")
          BY <4>1 DEF InProgram, FencePlaces
        <5>3. InProgram("fence", After("fence", hand.pc))
          BY <5>1, <5>2, Onward
        <5> QED BY <5>2, <5>3, Named
      <4>3. hand' = [hand EXCEPT !.failed = TRUE, !.pc = pc]
        BY <2>3, <3>2 DEF FailFence
      <4> HIDE DEF pc
      <4>4. hand' \in Hands /\ hand'.do = "fence" /\ hand'.pc = pc
        BY <4>1, <4>2, <4>3 DEF HandInv, Hands
      <4> QED BY <4>2, <4>4 DEF HandInv
    <3> QED BY <3>1, <3>2
  <2> QED BY <1>12, <2>1, <2>2, <2>3 DEF Fail
<1>13. CASE \/ AdoptBaseline \/ SupervisorLoses \/ Controller \/ Guests \/ HelperDies
            \/ GuestDies \/ OtherCommit \/ FenceAutostart \/ Xendomains
  <2>1. UNCHANGED hand
    BY <1>13
    DEF AdoptBaseline, SupervisorLoses, Controller, CheckEnrollment, PublishDevice,
        PublishEnrollment, CheckAcceptance, PublishAcceptance, SignalLost, Guests,
        HelperCopies, FinalizerEnds, GuestEnds, HelperDies, GuestDies, OtherCommit,
        FenceAutostart, Xendomains
  <2> QED BY <2>1, <1>u
<1> QED
  BY <1>1, <1>2, <1>3, <1>4, <1>5, <1>6, <1>7, <1>8, <1>9, <1>10, <1>11, <1>12, <1>13
  DEF RouterNext, Worker, Commands, Failures, Boot

-----------------------------------------------------------------------------

(* A checkpoint keeps a well-formed pending record.                        *)
LEMMA RecordedType ==
  ASSUME RouterInv, hand.pc \in Phases
  PROVE  Recorded \in Pending
<1>1. pending \in Pending
  BY WhoIsThere DEF RouterInv, TypeInv, RecordType, PendingInv
<1>2. pending.candidate_started \in BOOLEAN /\ pending.old_started \in BOOLEAN
      /\ hand.failed \in BOOLEAN
  BY <1>1 DEF Pending, RouterInv, HandInv, Hands
<1> QED BY <1>2 DEF Recorded, Pending

(* Every action keeps the types of the records.                            *)
LEMMA RecordTypeNext ==
  ASSUME RouterInv, [RouterNext]_vars
  PROVE  RecordType'
<1>0. RecordType
  BY DEF RouterInv, TypeInv
<1>u. ASSUME UNCHANGED <<records, retired>> PROVE RecordType'
  BY <1>0, <1>u DEF RecordType, records, retired
<1>1. CASE \/ UNCHANGED vars \/ Unlink \/ Persist \/ Start \/ CheckLocal \/ AwaitEnrollment
           \/ AwaitAcceptance \/ Decide \/ EndStatus \/ FenceHelper \/ Select \/ Link
  BY <1>1, <1>u
  DEF vars, Unlink, Persist, Start, CheckLocal, AwaitEnrollment, AwaitAcceptance, Decide,
      EndStatus, FenceHelper, Select, Link
<1>2. ASSUME NEW s \in Sides, AskShutdown(s) \/ Stop(s) \/ Kill(s) \/ GuestEnds(s)
      PROVE  RecordType'
  BY <1>2, <1>u DEF AskShutdown, Stop, Kill, GuestEnds
<1>3. CASE \/ Recover \/ SupervisorRecovers \/ SupervisorLoses \/ TakeStatus \/ StartCleanup
           \/ Fail \/ HelperDies \/ GuestDies \/ ProcessKilled \/ PowerLoss \/ OtherCommit
           \/ BootRecover \/ FenceAutostart \/ Xendomains
  BY <1>3, <1>u
  DEF Recover, SupervisorRecovers, SupervisorLoses, TakeStatus, StartCleanup, Fail, HelperDies,
      GuestDies, ProcessKilled, PowerLoss, OtherCommit, BootRecover, FenceAutostart, Xendomains
<1>4. CASE Checkpoint
  <2>1. pending' \in Pending
    BY <1>4, RecordedType DEF Checkpoint
  <2> QED BY <1>0, <1>4, <2>1 DEF Checkpoint, RecordType, retired
<1>5. CASE AdoptBaseline \/ Commit
  BY <1>0, <1>5 DEF AdoptBaseline, Commit, RecordType, retired
<1>6. CASE StartCutover
  <2>1. pending' \in Pending
    BY <1>6 DEF StartCutover, Pending, Phases, CutoverPhases
  <2> QED BY <1>0, <1>6, <2>1 DEF StartCutover, RecordType, retired
<1>7. CASE RecordAttempt
  BY <1>0, <1>7 DEF RecordAttempt, RecordType, retired
<1>8. ASSUME NEW d \in Directions, StartCopy(d) \/ EndCopy(d) \/ VerifyCopy(d) \/ HelperCopies(d)
      PROVE  RecordType'
  BY <1>0, <1>8
  DEF StartCopy, EndCopy, VerifyCopy, HelperCopies, RecordType, records, retired
<1>9. CASE Finalize \/ AwaitFinalizer \/ FinalizerEnds
  BY <1>0, <1>9 DEF Finalize, AwaitFinalizer, FinalizerEnds, RecordType, retired
<1>10. CASE Complete \/ Unpend
  BY <1>0, <1>10 DEF Complete, Unpend, RecordType, retired
<1>11. CASE Controller
  <2>1. CASE CheckEnrollment \/ CheckAcceptance \/ SignalLost
    BY <2>1, <1>u DEF CheckEnrollment, CheckAcceptance, SignalLost
  <2>2. CASE PublishDevice \/ PublishEnrollment \/ PublishAcceptance
    BY <1>0, <2>2
    DEF PublishDevice, PublishEnrollment, PublishAcceptance, RecordType, retired
  <2> QED BY <1>11, <2>1, <2>2 DEF Controller
<1>12. CASE SaveProgress \/ Retire
  BY <1>0, <1>12 DEF SaveProgress, Retire, RecordType, records
<1> QED
  BY <1>1, <1>2, <1>3, <1>4, <1>5, <1>6, <1>7, <1>8, <1>9, <1>10, <1>11, <1>12
  DEF RouterNext, Worker, Commands, Guests, Failures, Boot

(* What the adapter has looked at when its action goes on.                 *)
LEMMA WhenReady ==
  ASSUME Ready
  PROVE  /\ hand.pc \in {"stop old", "stop candidate", "kill old", "kill candidate"}
              => helper = None
         /\ hand.pc \in Starts => helper = None /\ live \subseteq {Side}
         /\ hand.pc = "select" => live = {Side} /\ accepted = Side
         /\ hand.pc \in {"copy forward", "copy reverse", "finalize"}
              => helper = None /\ live = {}
         /\ hand.pc = "commit" => live = {"candidate"}
<1>1. /\ StopOf["old"] = "stop old" /\ StopOf["candidate"] = "stop candidate"
      /\ KillOf["old"] = "kill old" /\ KillOf["candidate"] = "kill candidate"
      /\ CopyOf["forward"] = "copy forward" /\ CopyOf["reverse"] = "copy reverse"
  BY DEF StopOf, KillOf, CopyOf
<1>2. hand.pc \in {"stop old", "stop candidate", "kill old", "kill candidate"}
        => hand.pc \in {StopOf[s] : s \in Sides} \cup {KillOf[s] : s \in Sides}
  BY <1>1 DEF Sides
<1>3. hand.pc \in {"copy forward", "copy reverse"}
        => hand.pc \in {CopyOf[d] : d \in Directions}
  BY <1>1 DEF Directions
<1> QED BY <1>2, <1>3 DEF Ready, Domains

(* Every action keeps the types of the live box and its definition.        *)
LEMMA XenTypeNext ==
  ASSUME RouterInv, [RouterNext]_vars
  PROVE  XenType'
<1>0. XenType
  BY DEF RouterInv, TypeInv
<1>u. ASSUME UNCHANGED <<conf, saved, xen>> PROVE XenType'
  BY <1>0, <1>u DEF XenType, xen
<1>s. Side \in Sides
  BY DEF Side, Sides
<1>1. CASE \/ UNCHANGED vars \/ Checkpoint \/ RecordAttempt \/ CheckLocal \/ AwaitEnrollment
           \/ AwaitFinalizer \/ AwaitAcceptance \/ Commit \/ Complete \/ Unpend
           \/ Decide \/ SaveProgress \/ Retire \/ EndStatus \/ ProcessKilled \/ BootRecover
  BY <1>1, <1>u
  DEF vars, Checkpoint, RecordAttempt, CheckLocal, AwaitEnrollment, AwaitFinalizer,
      AwaitAcceptance, Commit, Complete, Unpend, Decide, SaveProgress, Retire, EndStatus,
      ProcessKilled, BootRecover
<1>2. CASE Commands \/ Controller
  BY <1>2, <1>u
  DEF Commands, AdoptBaseline, StartCutover, Recover, SupervisorRecovers, SupervisorLoses,
      TakeStatus, StartCleanup, Controller, CheckEnrollment, PublishDevice,
      PublishEnrollment, CheckAcceptance, PublishAcceptance, SignalLost
<1>3. CASE \/ Unlink \/ Persist \/ Select \/ Link \/ OtherCommit \/ FenceAutostart
  BY <1>0, <1>3, <1>s
  DEF Unlink, Persist, Select, Link, OtherCommit, FenceAutostart, XenType, xen
<1>4. ASSUME NEW s \in Sides, AskShutdown(s) \/ Stop(s) \/ Kill(s) \/ GuestEnds(s)
      PROVE  XenType'
  <2>1. live' \subseteq live /\ dying' \subseteq live'
    BY <1>0, <1>4 DEF AskShutdown, Stop, Kill, GuestEnds, XenType, Domains
  <2> QED BY <1>0, <1>4, <2>1 DEF AskShutdown, Stop, Kill, GuestEnds, XenType
<1>5. ASSUME NEW d \in Directions, StartCopy(d) \/ EndCopy(d) \/ VerifyCopy(d) \/ HelperCopies(d)
      PROVE  XenType'
  <2>1. Target[d] \in Sides
    <3>1. CASE d = "forward"
      BY <3>1 DEF Target, Sides
    <3>2. CASE d = "reverse"
      BY <3>2 DEF Target, Sides
    <3> QED BY <3>1, <3>2 DEF Directions
  <2> QED BY <1>0, <1>5, <2>1 DEF StartCopy, EndCopy, VerifyCopy, HelperCopies, XenType, xen
<1>6. CASE Start
  <2>1. live \subseteq {Side}
    BY <1>6, WhenReady DEF Start
  <2> QED BY <1>0, <1>6, <1>s, <2>1 DEF Start, XenType
<1>7. CASE Finalize \/ FenceHelper \/ FinalizerEnds \/ HelperDies \/ GuestDies
  BY <1>0, <1>7 DEF Finalize, FenceHelper, FinalizerEnds, HelperDies, GuestDies, XenType
<1>8. CASE Fail
  <2>1. helper' \in {helper, None}
    BY <1>8 DEF Fail
  <2> QED BY <1>0, <1>8, <2>1 DEF Fail, XenType
<1>9. CASE PowerLoss
  BY <1>0, <1>9 DEF PowerLoss, XenType
<1>10. CASE Xendomains
  BY <1>0, <1>10 DEF Xendomains, XenType
<1> QED
  BY <1>1, <1>2, <1>3, <1>4, <1>5, <1>6, <1>7, <1>8, <1>9, <1>10
  DEF RouterNext, Worker, Guests, Failures, Boot

(* The end of a command ends the boot recovery it may belong to.           *)
LEMMA Returned ==
  ASSUME RouterInv, hand # Idle, NEW ok \in BOOLEAN, Return(ok)
  PROVE  /\ hand' = Idle
         /\ sup' \in {"idle", "watching", "reaped", "over"}
         /\ mode' \in {"up", "xendomains", "fence"}
         /\ mode = "up" => mode' = "up"
         /\ ~ok => mode' # "xendomains"
<1>1. mode \in {"up", "recovery"} /\ sup \in {"idle", "watching", "reaped", "over"}
  BY DEF RouterInv, HelperGone, TypeInv, ActorType
<1>2. CASE mode = "up"
  BY <1>1, <1>2 DEF Return
<1>3. CASE mode = "recovery"
  BY <1>1, <1>3 DEF Return
<1> QED BY <1>1, <1>2, <1>3

(* Every action keeps the types of the actors.                             *)
LEMMA ActorTypeNext ==
  ASSUME RouterInv, [RouterNext]_vars
  PROVE  ActorType'
<1>0. ActorType
  BY DEF RouterInv, TypeInv
<1>u. ASSUME UNCHANGED <<actors, mode, left>> PROVE ActorType'
  BY <1>0, <1>u DEF ActorType, actors
<1>r. ASSUME hand # Idle, UNCHANGED <<sup, mode>> \/ (\E ok \in BOOLEAN : Return(ok)),
             UNCHANGED signal, left' = left \/ Spend
      PROVE  ActorType'
  <2>1. /\ sup' \in {"idle", "watching", "reaped", "over"}
        /\ mode' \in {"up", "recovery", "fence", "xendomains"}
    BY <1>0, <1>r, Returned DEF ActorType
  <2>2. left' \in 0..Budget
    BY <1>0, <1>r, ConstantsAssumption DEF ActorType, Spend
  <2> QED BY <1>0, <1>r, <2>1, <2>2 DEF ActorType
<1>1. CASE \/ UNCHANGED vars \/ Unlink \/ Persist \/ RecordAttempt \/ Start \/ CheckLocal
           \/ AwaitEnrollment \/ Finalize \/ AwaitFinalizer \/ AwaitAcceptance \/ Commit
           \/ Select \/ Link \/ Complete \/ FenceHelper \/ Decide \/ Retire \/ EndStatus
  BY <1>1, <1>u
  DEF vars, Unlink, Persist, RecordAttempt, Start, CheckLocal, AwaitEnrollment, Finalize,
      AwaitFinalizer, AwaitAcceptance, Commit, Select, Link, Complete, FenceHelper, Decide,
      Retire, EndStatus
<1>2. ASSUME NEW s \in Sides, AskShutdown(s) \/ Stop(s) \/ Kill(s) \/ GuestEnds(s)
      PROVE  ActorType'
  BY <1>2, <1>u DEF AskShutdown, Stop, Kill, GuestEnds
<1>3. ASSUME NEW d \in Directions, StartCopy(d) \/ EndCopy(d) \/ VerifyCopy(d) \/ HelperCopies(d)
      PROVE  ActorType'
  BY <1>3, <1>u DEF StartCopy, EndCopy, VerifyCopy, HelperCopies
<1>4. CASE \/ AdoptBaseline \/ Recover \/ TakeStatus \/ StartCleanup \/ FinalizerEnds
           \/ OtherCommit
  BY <1>4, <1>u DEF AdoptBaseline, Recover, TakeStatus, StartCleanup, FinalizerEnds, OtherCommit
<1>5. CASE Checkpoint \/ Unpend \/ SaveProgress \/ Fail \/ ProcessKilled
  <2>1. CASE ProcessKilled
    BY <2>1, <1>r DEF ProcessKilled
  <2>2. CASE Checkpoint \/ Unpend \/ SaveProgress
    <3>1. hand # Idle
      BY <2>2, Held DEF Checkpoint, Unpend, SaveProgress, Phases, CutoverPhases, RecoveryPhases
    <3> QED BY <2>2, <3>1, <1>r DEF Checkpoint, Unpend, SaveProgress
  <2>3. CASE Fail
    <3>1. hand # Idle
      BY <2>3, Held
      DEF Fail, FailCutover, FailRecovery, FailFence, FailCleanup, Recovering
    <3>2. UNCHANGED <<sup, mode>> \/ \E ok \in BOOLEAN : Return(ok)
      BY <2>3 DEF Fail, FailCutover, FailRecovery, FailFence, FailCleanup
    <3> QED BY <2>3, <3>1, <3>2, <1>r DEF Fail
  <2> QED BY <1>5, <2>1, <2>2, <2>3
<1>6. CASE StartCutover \/ SupervisorRecovers \/ SupervisorLoses
  BY <1>0, <1>6 DEF StartCutover, SupervisorRecovers, SupervisorLoses, ActorType
<1>7. CASE Controller
  BY <1>0, <1>7
  DEF Controller, CheckEnrollment, PublishDevice, PublishEnrollment, CheckAcceptance,
      PublishAcceptance, SignalLost, ActorType
<1>8. CASE HelperDies \/ GuestDies \/ PowerLoss
  <2>1. left' \in 0..Budget
    BY <1>0, <1>8, ConstantsAssumption DEF HelperDies, GuestDies, PowerLoss, Spend, ActorType
  <2> QED BY <1>0, <1>8, <2>1 DEF HelperDies, GuestDies, PowerLoss, ActorType, actors
<1>9. CASE BootRecover \/ Xendomains
  BY <1>0, <1>9 DEF BootRecover, Xendomains, ActorType, actors
<1>10. CASE FenceAutostart
  <2>1. left' \in 0..Budget
    BY <1>0, <1>10, ConstantsAssumption DEF FenceAutostart, Spend, ActorType
  <2> QED BY <1>0, <1>10, <2>1 DEF FenceAutostart, ActorType, actors
<1> QED
  BY <1>1, <1>2, <1>3, <1>4, <1>5, <1>6, <1>7, <1>8, <1>9, <1>10
  DEF RouterNext, Worker, Commands, Guests, Failures, Boot

(* Stopping and ending guests separates routers and helpers; whoever       *)
(* starts one has looked, or boots a box whose helpers are gone.           *)
LEMMA ApartNext ==
  ASSUME RouterInv, [RouterNext]_vars
  PROVE  Apart'
<1>0. Apart /\ HelperGone
  BY DEF RouterInv
<1>d. ASSUME live' \subseteq live, helper' \in {helper, None} PROVE Apart'
  BY <1>0, <1>d DEF Apart
<1>1. CASE \/ UNCHANGED vars \/ Checkpoint \/ Unlink \/ Persist \/ RecordAttempt \/ CheckLocal
           \/ AwaitEnrollment \/ AwaitFinalizer \/ AwaitAcceptance \/ Commit \/ Select \/ Link
           \/ Complete \/ Unpend \/ Decide \/ SaveProgress \/ Retire \/ EndStatus
           \/ ProcessKilled \/ OtherCommit \/ BootRecover \/ FenceAutostart
  BY <1>1, <1>d
  DEF vars, xen, Checkpoint, Unlink, Persist, RecordAttempt, CheckLocal, AwaitEnrollment,
      AwaitFinalizer, AwaitAcceptance, Commit, Select, Link, Complete, Unpend, Decide,
      SaveProgress, Retire, EndStatus, ProcessKilled, OtherCommit, BootRecover, FenceAutostart
<1>2. CASE Commands \/ Controller
  BY <1>2, <1>d
  DEF Commands, xen, AdoptBaseline, StartCutover, Recover, SupervisorRecovers,
      SupervisorLoses, TakeStatus, StartCleanup, Controller, CheckEnrollment,
      PublishDevice, PublishEnrollment, CheckAcceptance, PublishAcceptance, SignalLost
<1>3. ASSUME NEW s \in Sides, AskShutdown(s) \/ Stop(s) \/ Kill(s) \/ GuestEnds(s)
      PROVE  Apart'
  BY <1>3, <1>d DEF AskShutdown, Stop, Kill, GuestEnds
<1>4. ASSUME NEW d \in Directions, EndCopy(d) \/ VerifyCopy(d) \/ HelperCopies(d)
      PROVE  Apart'
  BY <1>4, <1>d DEF EndCopy, VerifyCopy, HelperCopies, xen
<1>5. CASE FenceHelper \/ FinalizerEnds \/ HelperDies \/ GuestDies \/ Fail \/ PowerLoss
  BY <1>5, <1>d DEF FenceHelper, FinalizerEnds, HelperDies, GuestDies, Fail, PowerLoss
<1>6. CASE Start
  <2>1. helper = None /\ live' = {Side} /\ helper' = helper
    BY <1>6, WhenReady DEF Start
  <2> QED BY <2>1 DEF Apart
<1>7. ASSUME NEW d \in Directions, StartCopy(d) PROVE Apart'
  <2>1. hand.pc \in {"copy forward", "copy reverse"}
    <3>1. CASE d = "forward"
      BY <1>7, <3>1 DEF StartCopy, CopyOf
    <3>2. CASE d = "reverse"
      BY <1>7, <3>2 DEF StartCopy, CopyOf
    <3> QED BY <3>1, <3>2 DEF Directions
  <2>2. live = {} /\ live' = live
    BY <1>7, <2>1, WhenReady DEF StartCopy
  <2> QED BY <2>2 DEF Apart
<1>8. CASE Finalize
  <2>1. live = {} /\ live' = live
    BY <1>8, WhenReady DEF Finalize
  <2> QED BY <2>1 DEF Apart
<1>9. CASE Xendomains
  <2>1. CASE conf.auto /\ live = {}
    <3>1. helper = None /\ live' = {conf.gen} /\ helper' = helper
      BY <1>0, <1>9, <2>1 DEF Xendomains, HelperGone
    <3> QED BY <3>1 DEF Apart
  <2>2. CASE ~(conf.auto /\ live = {})
    BY <1>9, <2>2, <1>d DEF Xendomains
  <2> QED BY <2>1, <2>2
<1> QED
  BY <1>1, <1>2, <1>3, <1>4, <1>5, <1>6, <1>7, <1>8, <1>9
  DEF RouterNext, Worker, Guests, Failures, Boot

(* Helpers run only inside the commands that start them: what ends such a  *)
(* command early is followed by a recovery that looks for its helpers.     *)
LEMMA HelperGoneNext ==
  ASSUME RouterInv, [RouterNext]_vars
  PROVE  HelperGone'
<1>0. Apart /\ HelperGone /\ HandInv /\ ActorType /\ XenType
  BY DEF RouterInv, TypeInv
<1>i. Idle.pc \notin Finish
  BY DEF Idle, Finish
(* Nobody moves.                                                           *)
<1>u. ASSUME UNCHANGED <<hand, mode, conf>>, helper' \in {helper, None} PROVE HelperGone'
  BY <1>0, <1>u DEF HelperGone
(* The holder of the lock goes on, outside of the end of an operation.     *)
<1>a. ASSUME hand # Idle, hand' # Idle, UNCHANGED mode, hand'.do = hand.do \/ mode = "up",
             hand'.pc \notin Finish \ {"select"}
      PROVE  HelperGone'
  BY <1>0, <1>a DEF HelperGone
<1>r. ASSUME NEW do, NEW pc, InProgram(do, pc), Run(do, pc), UNCHANGED mode, pc \notin Finish,
             mode = "up" \/ (mode = "recovery" /\ do \in Recovering \cup {"fence"})
      PROVE  HelperGone'
  <2>1. hand' # Idle /\ hand'.do = do /\ hand'.pc = pc
    BY <1>r, Started
  <2> QED BY <2>1, <1>r DEF HelperGone
<1>e. ASSUME hand # Idle, NEW ok \in BOOLEAN, Return(ok),
             ok /\ mode = "recovery" => helper = None, helper' \in {helper, None}
      PROVE  HelperGone'
  <2>1. /\ hand' = Idle /\ mode' \in {"up", "xendomains", "fence"}
        /\ mode = "up" => mode' = "up"
        /\ ~ok => mode' # "xendomains"
    BY <1>e, Returned
  <2>2. mode' = "xendomains" => helper' = None
    BY <2>1, <1>0, <1>e DEF HelperGone
  <2> QED BY <2>1, <2>2, <1>i DEF HelperGone
<1>g. ASSUME hand.pc # "idle", hand.pc \notin Turns, Advance, UNCHANGED mode,
             helper' \in {helper, None}, hand.pc = "select" => helper = None
      PROVE  HelperGone'
  <2>1. /\ hand # Idle /\ hand' # Idle /\ hand'.do = hand.do
        /\ hand'.pc \in Finish \ {"select"} => hand.pc \in Finish
    BY <1>0, <1>g, Advanced
  <2>2. hand.pc \in Finish => helper' = None
    BY <1>0, <1>g DEF HelperGone
  <2> QED BY <1>0, <1>g, <2>1, <2>2 DEF HelperGone
<1>1. CASE \/ UNCHANGED vars \/ Controller \/ AdoptBaseline \/ SupervisorLoses \/ FinalizerEnds
           \/ HelperDies \/ GuestDies \/ OtherCommit
  BY <1>1, <1>u
  DEF vars, xen, Controller, CheckEnrollment, PublishDevice, PublishEnrollment, CheckAcceptance,
      PublishAcceptance, SignalLost, AdoptBaseline, SupervisorLoses, FinalizerEnds,
      HelperDies, GuestDies, OtherCommit
<1>2. CASE \/ Unlink \/ Persist \/ RecordAttempt \/ CheckLocal \/ AwaitEnrollment
           \/ AwaitFinalizer \/ AwaitAcceptance \/ Commit \/ Link \/ Complete \/ Start
           \/ FenceHelper
  <2>1. /\ Advance /\ UNCHANGED mode /\ helper' \in {helper, None}
        /\ hand.pc \in {"unlink", "persist off", "persist on", "attempt", "await enrollment",
                        "await finalizer", "await acceptance", "commit", "link", "complete",
                        "fence finalizer", "fence copy"} \cup Starts \cup Checks
    BY <1>2
    DEF Unlink, Persist, RecordAttempt, CheckLocal, AwaitEnrollment, AwaitFinalizer, xen,
        AwaitAcceptance, Commit, Link, Complete, Start, FenceHelper
  <2> QED BY <2>1, <1>g DEF Turns, CleanupPlaces, Starts, Checks
<1>3. CASE Select
  <2>1. helper = None
    BY <1>0, <1>3, WhenReady DEF Select, Apart
  <2> QED BY <1>3, <2>1, <1>g DEF Select, Turns, CleanupPlaces, xen
<1>4. ASSUME NEW d \in Directions, StartCopy(d) \/ EndCopy(d) \/ VerifyCopy(d) \/ HelperCopies(d)
      PROVE  HelperGone'
  <2>1. CASE HelperCopies(d)
    BY <2>1, <1>u DEF HelperCopies
  <2>2. CASE StartCopy(d) \/ EndCopy(d) \/ VerifyCopy(d)
    <3>1. hand.pc \in {CopyOf[d], WaitOf[d], CheckOf[d]} /\ Advance /\ UNCHANGED mode
      BY <2>2 DEF StartCopy, EndCopy, VerifyCopy
    <3>2. hand.pc \notin Turns \cup Finish \cup {"idle", "accepted", "check candidate", "rolled-back"}
      <4>1. CASE d = "forward"
        BY <3>1, <4>1 DEF Turns, CleanupPlaces, Finish, CopyOf, WaitOf, CheckOf
      <4>2. CASE d = "reverse"
        BY <3>1, <4>2 DEF Turns, CleanupPlaces, Finish, CopyOf, WaitOf, CheckOf
      <4> QED BY <4>1, <4>2 DEF Directions
    <3>3. hand # Idle /\ hand' # Idle /\ hand'.do = hand.do /\ hand'.pc \notin Finish
      BY <1>0, <3>1, <3>2, Advanced
    <3> QED BY <3>1, <3>3, <1>a
  <2> QED BY <1>4, <2>1, <2>2
<1>5. CASE Finalize
  <2>1. /\ hand # Idle /\ hand' # Idle /\ hand'.do = hand.do
        /\ hand'.pc \notin Finish /\ UNCHANGED mode
    BY <1>0, <1>5, Advanced DEF Finalize, Turns, CleanupPlaces, Finish
  <2> QED BY <2>1, <1>a
<1>6. ASSUME NEW s \in Sides, AskShutdown(s) \/ GuestEnds(s) \/ Stop(s) \/ Kill(s)
      PROVE  HelperGone'
  <2>1. CASE AskShutdown(s) \/ GuestEnds(s)
    BY <2>1, <1>u DEF AskShutdown, GuestEnds
  <2>2. CASE Kill(s)
    <3>1. CASE s = "old"
      BY <2>2, <3>1, <1>g DEF Kill, KillOf, Turns, CleanupPlaces
    <3>2. CASE s = "candidate"
      BY <2>2, <3>2, <1>g DEF Kill, KillOf, Turns, CleanupPlaces
    <3> QED BY <3>1, <3>2 DEF Sides
  <2>3. CASE Stop(s)
    <3>1. CASE s = "old"
      BY <2>3, <3>1, <1>g DEF Stop, StopOf, Turns, CleanupPlaces
    <3>2. CASE s = "candidate"
      <4>1. hand.pc = "stop candidate" /\ hand.do \in {"cutover", "rollback"} /\ UNCHANGED mode
        BY <1>0, <2>3, <3>2, WhoIsThere DEF Stop, StopOf
      <4>2. \/ hand.do = "cutover"  /\ Goto("finalizing-candidate")
            \/ hand.do = "rollback" /\ Goto("fencing-old")
            \/ hand.do = "rollback" /\ Goto("old-ready")
        BY <2>3, <3>2, <4>1 DEF Stop
      <4>3. /\ hand.do = "cutover"  => InProgram(hand.do, "finalizing-candidate")
            /\ hand.do = "rollback" =>
                 InProgram(hand.do, "fencing-old") /\ InProgram(hand.do, "old-ready")
        BY <4>1 DEF InProgram, CutoverPlaces, CutoverPhases, RollbackPlaces
      <4>4. /\ hand' # Idle /\ hand'.do = hand.do
            /\ hand'.pc \in {"finalizing-candidate", "fencing-old", "old-ready"}
        BY <1>0, <4>2, <4>3, Went
      <4>5. hand # Idle
        BY <4>1, Held
      <4> QED BY <4>1, <4>4, <4>5, <1>a DEF Finish
    <3> QED BY <3>1, <3>2 DEF Sides
  <2> QED BY <1>6, <2>1, <2>2, <2>3
<1>7. CASE Checkpoint
  <2>1. CASE hand.pc = "recovery-failed"
    BY <1>7, <2>1, <1>e, Held DEF Checkpoint, xen
  <2>2. CASE hand.pc # "recovery-failed"
    BY <1>7, <2>2, <1>g
    DEF Checkpoint, Phases, CutoverPhases, RecoveryPhases, Turns, CleanupPlaces, xen
  <2> QED BY <2>1, <2>2
<1>8. CASE Unpend \/ ProcessKilled
  <2>1. hand # Idle /\ \E ok \in BOOLEAN : Return(ok) /\ (ok => hand.pc = "unpend")
    BY <1>8, Held DEF Unpend, ProcessKilled
  <2>2. hand.pc = "unpend" => helper = None
    BY <1>0 DEF HelperGone, Finish
  <2>3. helper' \in {helper, None}
    BY <1>8 DEF Unpend, ProcessKilled, xen
  <2> QED BY <2>1, <2>2, <2>3, <1>e
<1>9. CASE SaveProgress \/ Retire
  <2>1. hand.do = "cleanup" /\ hand # Idle /\ mode = "up"
    BY <1>0, <1>9, WhoIsThere, Held
    DEF SaveProgress, Retire, CleanupPlaces, HelperGone, Recovering
  <2>2. helper' \in {helper, None}
    BY <1>9 DEF SaveProgress, Retire, xen
  <2>3. CASE Return(TRUE)
    BY <2>1, <2>2, <2>3, <1>e
  <2>4. ASSUME NEW pc \in CleanupPlaces, Goto(pc), UNCHANGED mode PROVE HelperGone'
    <3>1. InProgram(hand.do, pc) /\ pc \notin Finish
      BY <2>1 DEF InProgram, CleanupPlaces, Finish
    <3>2. hand' # Idle /\ hand'.pc = pc
      BY <1>0, <2>4, <3>1, Went
    <3> QED BY <2>1, <2>4, <3>1, <3>2, <1>a
  <2>5. Return(TRUE) \/ \E pc \in CleanupPlaces : Goto(pc) /\ UNCHANGED mode
    BY <1>9 DEF SaveProgress, Retire, CleanupPlaces
  <2> QED BY <2>3, <2>4, <2>5
<1>10. CASE EndStatus
  <2>1. mode = "up"
    BY <1>0, <1>10 DEF EndStatus, HelperGone, Recovering, Idle
  <2>2. hand' = Idle /\ mode' = mode
    BY <1>10 DEF EndStatus
  <2> QED BY <2>1, <2>2, <1>i DEF HelperGone
<1>11. CASE \/ StartCutover \/ Recover \/ SupervisorRecovers \/ TakeStatus \/ StartCleanup
            \/ BootRecover \/ Decide
  <2>1. CASE StartCutover \/ Recover \/ SupervisorRecovers \/ TakeStatus \/ StartCleanup
    <3>1. mode = "up" /\ mode' = mode /\ hand = Idle /\ UNCHANGED <<conf, helper>>
      BY <2>1
      DEF StartCutover, Recover, SupervisorRecovers, TakeStatus, StartCleanup, LockFree, xen
    <3>2. UNCHANGED hand \/ \E do, pc : InProgram(do, pc) /\ pc \notin Finish /\ Run(do, pc)
      BY <2>1
      DEF StartCutover, Recover, SupervisorRecovers, TakeStatus, StartCleanup,
          InProgram, CutoverPlaces, RecoverPlaces, CleanupPlaces, Finish
    <3> QED BY <3>1, <3>2, <1>u, <1>r
  <2>2. CASE BootRecover
    <3>1. CASE Run("recover", "unlink") /\ UNCHANGED mode
      BY <2>2, <3>1, <1>r DEF BootRecover, InProgram, RecoverPlaces, Recovering, Finish
    <3>2. CASE UNCHANGED hand
      <4>1. mode' # "recovery" \/ mode' = mode
        BY <2>2 DEF BootRecover
      <4>2. helper = None /\ helper' = helper /\ hand' = Idle
        BY <1>0, <2>2, <3>2 DEF BootRecover, HelperGone, xen
      <4> QED BY <4>1, <4>2, <1>i DEF HelperGone
    <3> QED BY <2>2, <3>1, <3>2 DEF BootRecover
  <2>3. CASE Decide
    <3>1. hand # Idle /\ UNCHANGED mode
      BY <2>3 DEF Decide, Idle
    <3>2. mode = "up" \/ mode = "recovery"
      BY <1>0, <3>1 DEF HelperGone
    <3>3. /\ InProgram("settle", "accepted") /\ "accepted" \notin Finish
          /\ InProgram("rollback", "fencing-candidate") /\ "fencing-candidate" \notin Finish
      BY DEF InProgram, SettlePlaces, RollbackPlaces, Finish
    <3> QED BY <2>3, <3>1, <3>2, <3>3, <1>r DEF Decide, Recovering
  <2> QED BY <1>11, <2>1, <2>2, <2>3
<1>12. CASE Fail
  <2>1. helper' \in {helper, None}
    BY <1>12 DEF Fail
  <2>2. CASE FailCleanup
    <3>1. hand # Idle
      BY <2>2 DEF FailCleanup, Idle
    <3> QED BY <2>1, <2>2, <3>1, <1>e DEF FailCleanup
  <2>3. CASE FailCutover \/ FailRecovery
    <3>1. hand # Idle /\ UNCHANGED mode /\ mode \in {"up", "recovery"}
      BY <1>0, <2>3 DEF FailCutover, FailRecovery, Recovering, Idle, HelperGone
    <3>2. /\ InProgram("recover", "unlink") /\ InProgram("fence", "unlink")
          /\ "unlink" \notin Finish
      BY DEF InProgram, RecoverPlaces, FencePlaces, Finish
    <3> QED BY <2>3, <3>1, <3>2, <1>r DEF FailCutover, FailRecovery, Recovering
  <2>4. CASE FailFence
    <3>1. CASE hand.pc = "recovery-failed"
      <4>1. hand # Idle /\ Return(FALSE)
        BY <2>4, <3>1, Held DEF FailFence
      <4> QED BY <2>1, <4>1, <1>e
    <3>2. CASE hand.pc # "recovery-failed"
      <4>1. hand.do = "fence" /\ hand # Idle /\ hand.pc \in FencePlaces
        BY <1>0, <2>4, WhoIsThere, Held DEF FailFence
      <4>2. hand' \in Hands /\ HandInv'
        BY HandNext DEF RouterInv, HandInv
      <4>3. hand'.do = "fence" /\ UNCHANGED mode
        BY <1>0, <2>4, <3>2 DEF FailFence, HandInv, Hands
      <4>4. hand' # Idle /\ hand'.pc \notin Finish
        <5>1. hand' # Idle
          BY <4>3, Held
        <5>2. hand'.pc \in FencePlaces
          BY <4>2, <4>3, <5>1 DEF HandInv, InProgram
        <5> QED BY <5>1, <5>2 DEF FencePlaces, Finish
      <4> QED BY <4>1, <4>3, <4>4, <1>a
    <3> QED BY <3>1, <3>2
  <2> QED BY <1>12, <2>2, <2>3, <2>4 DEF Fail
<1>13. CASE PowerLoss
  <2>1. hand' = Idle /\ mode' = "recovery" /\ helper' = None
    BY <1>13 DEF PowerLoss
  <2> QED BY <2>1, <1>i DEF HelperGone
<1>14. CASE FenceAutostart \/ Xendomains
  <2>1. hand = Idle /\ hand' = hand /\ mode' \in {"up", "xendomains"}
    BY <1>0, <1>14 DEF FenceAutostart, Xendomains, HelperGone, actors
  <2>2. mode' = "xendomains" => ~conf'.auto
    BY <1>0, <1>14 DEF FenceAutostart, Xendomains, XenType
  <2> QED BY <2>1, <2>2, <1>i DEF HelperGone
<1> QED
  BY <1>1, <1>2, <1>3, <1>4, <1>5, <1>6, <1>7, <1>8, <1>9, <1>10, <1>11, <1>12, <1>13, <1>14
  DEF RouterNext, Worker, Commands, Guests, Failures, Boot

(* The steps of the worker that belong to an operation.                    *)
Moving ==
  \/ Checkpoint \/ Unlink \/ Persist \/ RecordAttempt
  \/ \E s \in Sides : AskShutdown(s) \/ Stop(s) \/ Kill(s)
  \/ \E d \in Directions : StartCopy(d) \/ EndCopy(d) \/ VerifyCopy(d)
  \/ Start \/ CheckLocal \/ AwaitEnrollment \/ Finalize \/ AwaitFinalizer
  \/ AwaitAcceptance \/ Commit \/ Select \/ Link \/ Complete \/ Unpend
  \/ FenceHelper \/ Decide

(* Only a command with a pending operation on an accepted baseline takes   *)
(* such a step.                                                            *)
LEMMA MovingIsPending ==
  ASSUME RouterInv, Moving
  PROVE  hand.do \in Movers /\ pending \in Pending /\ accepted # None
<1>m. ASSUME hand.pc \notin CleanupPlaces \cup {"idle", "read"} PROVE hand.do \in Movers
  <2>1. hand # Idle
    BY <1>m, Held
  <2> QED BY <1>m, <2>1 DEF RouterInv, HandInv, InProgram, Movers, Recovering
<1>1. ASSUME Checkpoint PROVE hand.do \in Movers
  BY <1>1, WhoIsThere DEF Checkpoint, RouterInv
<1>2. ASSUME \/ Unlink \/ Persist \/ RecordAttempt \/ CheckLocal \/ AwaitEnrollment
             \/ Finalize \/ AwaitFinalizer \/ AwaitAcceptance \/ Commit \/ Start
      PROVE  hand.do \in Movers
  <2>1. hand.pc \in {"unlink", "persist off", "persist on", "attempt", "await enrollment",
                    "finalize", "await finalizer", "await acceptance", "commit"}
                   \cup Starts \cup Checks
    BY <1>2
    DEF Unlink, Persist, RecordAttempt, CheckLocal, AwaitEnrollment, Finalize, AwaitFinalizer,
        AwaitAcceptance, Commit, Start
  <2> QED BY <2>1, <1>m DEF Starts, Checks, CleanupPlaces
<1>3. ASSUME Select \/ Link \/ Complete \/ Unpend \/ FenceHelper \/ Decide
      PROVE  hand.do \in Movers
  <2>1. hand.pc \in {"select", "link", "complete", "unpend", "fence finalizer", "fence copy",
                    "decide"}
    BY <1>3 DEF Select, Link, Complete, Unpend, FenceHelper, Decide
  <2> QED BY <2>1, <1>m DEF CleanupPlaces
<1>4. ASSUME NEW s \in Sides, AskShutdown(s) \/ Stop(s) \/ Kill(s)
      PROVE  hand.do \in Movers
  <2>1. CASE s = "old"
    BY <1>4, <2>1, <1>m DEF AskShutdown, Stop, Kill, StopOf, KillOf, CleanupPlaces
  <2>2. CASE s = "candidate"
    BY <1>4, <2>2, <1>m DEF AskShutdown, Stop, Kill, StopOf, KillOf, CleanupPlaces
  <2> QED BY <2>1, <2>2 DEF Sides
<1>5. ASSUME NEW d \in Directions, StartCopy(d) \/ EndCopy(d) \/ VerifyCopy(d)
      PROVE  hand.do \in Movers
  <2>1. CASE d = "forward"
    BY <1>5, <2>1, <1>m DEF StartCopy, EndCopy, VerifyCopy, CopyOf, WaitOf, CheckOf, CleanupPlaces
  <2>2. CASE d = "reverse"
    BY <1>5, <2>2, <1>m DEF StartCopy, EndCopy, VerifyCopy, CopyOf, WaitOf, CheckOf, CleanupPlaces
  <2> QED BY <2>1, <2>2 DEF Directions
<1>6. hand.do \in Movers
  BY <1>1, <1>2, <1>3, <1>4, <1>5 DEF Moving
<1> QED BY <1>6 DEF RouterInv, PendingInv, TypeInv, RecordType

(* What the other steps do to the records of an operation.                 *)
LEMMA OthersKeep ==
  ASSUME RouterInv, [RouterNext]_vars, ~Moving, ~AdoptBaseline, ~StartCutover
  PROVE  UNCHANGED <<accepted, pending, complete>>
<1>1. CASE UNCHANGED vars \/ SaveProgress \/ Retire \/ EndStatus \/ Controller
  BY <1>1
  DEF vars, records, SaveProgress, Retire, EndStatus, Controller, CheckEnrollment, PublishDevice,
      PublishEnrollment, CheckAcceptance, PublishAcceptance, SignalLost
<1>2. CASE \/ Recover \/ SupervisorRecovers \/ SupervisorLoses \/ TakeStatus \/ StartCleanup
           \/ Failures \/ OtherCommit \/ Boot
  BY <1>2
  DEF records, Recover, SupervisorRecovers, SupervisorLoses, TakeStatus, StartCleanup, Failures,
      Fail, HelperDies, GuestDies, ProcessKilled, PowerLoss, OtherCommit, Boot, BootRecover,
      FenceAutostart, Xendomains
<1>3. CASE Guests
  BY <1>3 DEF Guests, HelperCopies, FinalizerEnds, GuestEnds, records
<1> QED BY <1>1, <1>2, <1>3 DEF RouterNext, Worker, Commands, Moving

(* Each record of an operation changes in one step only.                   *)
LEMMA MovingKeeps ==
  ASSUME Moving
  PROVE  /\ UNCHANGED marker
         /\ accepted' = accepted \/ (Commit /\ accepted' = "candidate")
         /\ pending' = pending \/ Checkpoint \/ Unpend
         /\ complete' = complete \/ Complete
<1>1. CASE \/ Checkpoint \/ Unlink \/ Persist \/ RecordAttempt \/ CheckLocal \/ AwaitEnrollment
           \/ Finalize \/ AwaitFinalizer \/ AwaitAcceptance \/ Commit \/ Start
  BY <1>1
  DEF Checkpoint, Unlink, Persist, RecordAttempt, CheckLocal, AwaitEnrollment, Finalize,
      AwaitFinalizer, AwaitAcceptance, Commit, Start, records
<1>2. CASE Select \/ Link \/ Complete \/ Unpend \/ FenceHelper \/ Decide
  BY <1>2 DEF Select, Link, Complete, Unpend, FenceHelper, Decide, records
<1>3. ASSUME NEW s \in Sides, AskShutdown(s) \/ Stop(s) \/ Kill(s)
      PROVE  UNCHANGED <<marker, accepted, pending, complete>>
  BY <1>3 DEF AskShutdown, Stop, Kill, records
<1>4. ASSUME NEW d \in Directions, StartCopy(d) \/ EndCopy(d) \/ VerifyCopy(d)
      PROVE  UNCHANGED <<marker, accepted, pending, complete>>
  BY <1>4 DEF StartCopy, EndCopy, VerifyCopy, records
<1> QED BY <1>1, <1>2, <1>3, <1>4 DEF Moving

(* Commands move routers only with a record that recovery will find.       *)
LEMMA PendingNext ==
  ASSUME RouterInv, [RouterNext]_vars
  PROVE  PendingInv'
<1>0. PendingInv /\ BaselineInv /\ HandInv /\ RecordType
  BY DEF RouterInv, TypeInv
<1>n. None \notin Pending /\ None # "old" /\ None # "candidate"
  BY ConstantsAssumption DEF Routers, Sides
<1>i. "none" \notin Movers /\ "status" \notin Movers /\ "cleanup" \notin Movers
  BY DEF Movers, Recovering
<1>u. ASSUME UNCHANGED <<accepted, pending>>, hand.do \in Movers \/ hand'.do \notin Movers
      PROVE  PendingInv'
  BY <1>0, <1>u DEF PendingInv
<1>1. CASE Moving
  <2>1. hand.do \in Movers /\ accepted # None
    BY <1>1, MovingIsPending
  <2>2. CASE Unpend
    <3>1. hand'.do \notin Movers
      BY <2>2, <1>i, Held DEF Unpend, Return
    <3> QED BY <3>1 DEF PendingInv
  <2>3. CASE Checkpoint
    <3>1. pending' \in Pending /\ accepted' = accepted
      BY <2>3, RecordedType DEF Checkpoint
    <3> QED BY <2>1, <3>1, <1>n DEF PendingInv
  <2>4. CASE ~Unpend /\ ~Checkpoint
    <3>1. pending' = pending /\ accepted' \in {accepted, "candidate"}
      BY <1>1, <2>4, MovingKeeps
    <3> QED BY <1>0, <2>1, <3>1, <1>n DEF PendingInv
  <2> QED BY <2>2, <2>3, <2>4
<1>2. CASE AdoptBaseline
  <2>1. hand'.do \notin Movers
    BY <1>2, <1>i, Held DEF AdoptBaseline, LockFree
  <2> QED BY <2>1 DEF PendingInv
<1>3. CASE StartCutover
  <2>1. pending' \in Pending
    BY <1>3 DEF StartCutover, Pending, Phases, CutoverPhases
  <2> QED BY <1>3, <2>1, <1>n DEF StartCutover, PendingInv
<1>4. CASE ~Moving /\ ~AdoptBaseline /\ ~StartCutover
  <2>1. UNCHANGED <<accepted, pending, complete>>
    BY <1>4, OthersKeep
  <2>2. CASE hand' = hand \/ hand' = Idle
    <3>1. hand' = Idle => hand'.do \notin Movers
      BY <1>i, Held
    <3> QED BY <2>1, <2>2, <3>1, <1>u
  <2>3. CASE \E do, pc : Run(do, pc) /\ do \in {"status", "cleanup"}
    <3>1. hand'.do \notin Movers
      BY <2>3, <1>i DEF Run
    <3> QED BY <2>1, <3>1, <1>u
  <2>4. CASE pending # None
    BY <1>0, <2>1, <2>4 DEF PendingInv, BaselineInv
  <2>5. CASE hand.do \in Movers
    BY <2>1, <2>5, <1>u
  <2>6. CASE hand.do = "cleanup" /\ \E pc \in CleanupPlaces : Goto(pc)
    <3>1. \A pc \in CleanupPlaces : InProgram(hand.do, pc)
      BY <2>6 DEF InProgram
    <3>2. hand'.do \notin Movers
      BY <1>0, <1>i, <2>6, <3>1, Went
    <3> QED BY <2>1, <3>2, <1>u
  <2>7. CASE UNCHANGED vars \/ Controller \/ Guests \/ OtherCommit \/ FenceAutostart \/ Xendomains
    <3>1. hand' = hand
      BY <2>7
      DEF vars, Controller, CheckEnrollment, PublishDevice, PublishEnrollment, CheckAcceptance,
          PublishAcceptance, SignalLost, Guests, HelperCopies, FinalizerEnds, GuestEnds,
          OtherCommit, FenceAutostart, Xendomains
    <3> QED BY <3>1, <2>2
  <2>8. CASE SaveProgress \/ Retire
    <3>1. hand.do = "cleanup"
      BY <1>0, <2>8, WhoIsThere DEF SaveProgress, Retire, CleanupPlaces
    <3>2. hand' = Idle \/ \E pc \in CleanupPlaces : Goto(pc)
      BY <2>8 DEF SaveProgress, Retire, Return, CleanupPlaces
    <3> QED BY <3>1, <3>2, <2>2, <2>6
  <2>9. CASE EndStatus \/ HelperDies \/ GuestDies \/ ProcessKilled \/ PowerLoss \/ SupervisorLoses
    BY <2>9, <2>2
    DEF EndStatus, HelperDies, GuestDies, ProcessKilled, PowerLoss, SupervisorLoses, Return
  <2>10. CASE TakeStatus \/ StartCleanup
    BY <2>10, <2>3 DEF TakeStatus, StartCleanup
  <2>11. CASE Recover \/ SupervisorRecovers \/ BootRecover
    BY <2>11, <2>2, <2>4 DEF Recover, SupervisorRecovers, BootRecover
  <2>12. CASE Fail
    <3>1. hand.do \in Movers \/ hand' = Idle
      BY <2>12
      DEF Fail, FailCutover, FailRecovery, FailFence, FailCleanup, Movers, Return
    <3> QED BY <3>1, <2>2, <2>5
  <2> QED
    BY <1>4, <2>7, <2>8, <2>9, <2>10, <2>11, <2>12
    DEF RouterNext, Worker, Moving, Commands, Failures, Boot
<1> QED BY <1>1, <1>2, <1>3, <1>4

(* Until the baseline is adopted, nothing but the old router exists.       *)
LEMMA BaselineNext ==
  ASSUME RouterInv, [RouterNext]_vars
  PROVE  BaselineInv'
<1>0. BaselineInv /\ XenType
  BY DEF RouterInv, TypeInv
<1>n. None # "old" /\ None # "candidate" /\ "old" \in Sides /\ "candidate" \in Sides
  BY ConstantsAssumption DEF Routers, Sides
<1>1. CASE Moving
  <2>1. accepted # None /\ UNCHANGED marker /\ accepted' \in {accepted, "candidate"}
    BY <1>1, MovingIsPending, MovingKeeps
  <2> QED BY <1>0, <1>n, <2>1 DEF BaselineInv
<1>2. CASE AdoptBaseline \/ StartCutover
  BY <1>0, <1>n, <1>2 DEF AdoptBaseline, StartCutover, BaselineInv
<1>3. CASE ~Moving /\ ~AdoptBaseline /\ ~StartCutover
  <2>1. UNCHANGED <<accepted, pending, complete>>
    BY <1>3, OthersKeep
  <2>2. /\ UNCHANGED marker /\ live' \subseteq live \cup {conf.gen}
        /\ {conf'.gen, saved'.gen} \subseteq {conf.gen, saved.gen}
    <3>1. CASE \/ UNCHANGED vars \/ SaveProgress \/ Retire \/ EndStatus \/ Controller \/ Recover
               \/ SupervisorRecovers \/ SupervisorLoses \/ TakeStatus \/ StartCleanup
      BY <3>1
      DEF vars, xen, SaveProgress, Retire, EndStatus, Controller, CheckEnrollment, PublishDevice,
          PublishEnrollment, CheckAcceptance, PublishAcceptance, SignalLost, Recover,
          SupervisorRecovers, SupervisorLoses, TakeStatus, StartCleanup
    <3>2. CASE Guests \/ Failures
      BY <3>2
      DEF Guests, HelperCopies, FinalizerEnds, GuestEnds, xen, Failures, Fail, HelperDies,
          GuestDies, ProcessKilled, PowerLoss
    <3>3. CASE OtherCommit \/ BootRecover \/ Xendomains
      BY <3>3 DEF OtherCommit, BootRecover, Xendomains, xen
    <3>4. CASE FenceAutostart
      BY <1>0, <3>4 DEF FenceAutostart, XenType, xen
    <3> QED
      BY <1>3, <3>1, <3>2, <3>3, <3>4 DEF RouterNext, Worker, Moving, Commands, Boot
  <2> QED BY <1>0, <2>1, <2>2 DEF BaselineInv
<1> QED BY <1>1, <1>2, <1>3

(* An operation ends on the router that its last checkpoint names and that *)
(* was seen running: nothing changes the selection after that look.        *)
LEMMA FinishNext ==
  ASSUME RouterInv, [RouterNext]_vars
  PROVE  FinishInv'
<1>0. FinishInv /\ HandInv /\ XenType /\ RecordType /\ HelperGone
  BY DEF RouterInv, TypeInv
<1>f. Finish = {"select", "link", "persist on", "complete", "unpend"}
  BY DEF Finish
(* The command has ended, or is at a place FinishInv does not speak of.    *)
<1>t. ASSUME hand'.pc \notin Finish, hand'.do = "settle" => hand'.pc = "accepted"
      PROVE  FinishInv'
  BY <1>t DEF FinishInv, Finish
<1>i. ASSUME hand' = Idle PROVE FinishInv'
  <2>1. hand'.pc = "idle" /\ hand'.do = "none"
    BY <1>i, Held
  <2> QED BY <2>1, <1>t DEF Finish
<1>u. ASSUME UNCHANGED <<hand, accepted, pending, complete, conf>>,
             live' \subseteq live, saved' \in {saved, conf}
      PROVE  FinishInv'
  BY <1>0, <1>u DEF FinishInv, Side
(* A step that is neither a checkpoint nor the end of an operation.        *)
<1>b. ASSUME hand.pc \notin Turns \cup Finish \cup {"idle", "accepted", "check candidate", "rolled-back"},
             Advance, UNCHANGED pending
      PROVE  FinishInv'
  <2>1. hand'.do = hand.do /\ hand'.pc \notin Finish
    BY <1>0, <1>b, Advanced
  <2>2. hand'.do = "settle" => pending'.phase = "accepted"
    BY <1>0, <1>b, <2>1 DEF FinishInv
  <2> QED BY <2>1, <2>2 DEF FinishInv, Finish
<1>1. CASE Checkpoint
  <2>1. CASE hand.pc = "recovery-failed"
    BY <1>1, <2>1, <1>i DEF Checkpoint, Return
  <2>2. CASE hand.pc # "recovery-failed"
    <3>1. /\ Advance /\ hand.pc \in Phases /\ hand.pc \notin Turns \cup {"idle"}
          /\ pending'.phase = hand.pc
      BY <1>1, <2>2
      DEF Checkpoint, Recorded, Phases, CutoverPhases, RecoveryPhases, Turns, CleanupPlaces
    <3>2. /\ hand'.do = hand.do /\ hand.pc \notin Finish
          /\ hand'.pc \in Finish =>
               /\ hand'.pc = "select"
               /\ \/ hand.do = "cutover"  /\ hand.pc = "accepted"
                  \/ hand.do = "rollback" /\ hand.pc = "rolled-back"
      <4>1. hand.pc \notin Finish /\ hand.pc # "check candidate"
        BY <3>1 DEF Finish, Phases, CutoverPhases, RecoveryPhases
      <4> QED BY <1>0, <3>1, <4>1, Advanced
    <3>3. hand.do = "settle" => hand.pc = "accepted"
      <4>1. hand.do = "settle" => hand.pc \in SettlePlaces
        BY <1>0, <3>1 DEF HandInv, InProgram, Idle
      <4> QED BY <3>1, <4>1 DEF SettlePlaces, Finish, Phases, CutoverPhases, RecoveryPhases
    <3>4. "rolled-back" # "accepted"
      OBVIOUS
    <3> QED BY <3>1, <3>2, <3>3, <3>4 DEF FinishInv, Finish
  <2> QED BY <2>1, <2>2
<1>2. CASE \/ Unlink \/ RecordAttempt \/ AwaitEnrollment \/ Finalize \/ AwaitFinalizer
           \/ AwaitAcceptance \/ Commit \/ FenceHelper \/ Start
  <2>1. /\ Advance /\ UNCHANGED pending
        /\ hand.pc \in {"unlink", "attempt", "await enrollment", "finalize", "await finalizer",
                        "await acceptance", "commit", "fence finalizer", "fence copy"} \cup Starts
    BY <1>2
    DEF Unlink, RecordAttempt, AwaitEnrollment, Finalize, AwaitFinalizer, AwaitAcceptance,
        Commit, FenceHelper, Start, records
  <2> QED BY <2>1, <1>b DEF Turns, CleanupPlaces, Finish, Starts
<1>3. CASE CheckLocal
  <2>1. /\ Advance /\ UNCHANGED <<pending, accepted>>
        /\ hand.pc \in {"check candidate", "check final", "check old"}
    BY <1>3 DEF CheckLocal, records, Checks
  <2>2. CASE hand.pc = "check candidate"
    <3>1. /\ hand'.do = hand.do
          /\ hand'.pc \in Finish => hand'.pc = "select" /\ hand.do = "settle"
      BY <1>0, <2>1, <2>2, Advanced DEF Turns, CleanupPlaces, Finish
    <3>2. hand.do = "settle" => pending'.phase = "accepted"
      BY <1>0, <2>1, <2>2 DEF FinishInv
    <3> QED BY <3>1, <3>2 DEF FinishInv, Finish
  <2>3. CASE hand.pc # "check candidate"
    BY <2>1, <2>3, <1>b DEF Turns, CleanupPlaces, Finish
  <2> QED BY <2>2, <2>3
<1>4. ASSUME NEW d \in Directions, StartCopy(d) \/ EndCopy(d) \/ VerifyCopy(d)
      PROVE  FinishInv'
  <2>1. hand.pc \in {CopyOf[d], WaitOf[d], CheckOf[d]} /\ Advance /\ UNCHANGED pending
    BY <1>4 DEF StartCopy, EndCopy, VerifyCopy, records
  <2>2. CASE d = "forward"
    BY <2>1, <2>2, <1>b DEF Turns, CleanupPlaces, Finish, CopyOf, WaitOf, CheckOf
  <2>3. CASE d = "reverse"
    BY <2>1, <2>3, <1>b DEF Turns, CleanupPlaces, Finish, CopyOf, WaitOf, CheckOf
  <2> QED BY <2>2, <2>3 DEF Directions
<1>5. ASSUME NEW s \in Sides, AskShutdown(s) \/ Stop(s) \/ Kill(s)
      PROVE  FinishInv'
  <2>1. CASE AskShutdown(s)
    BY <2>1, <1>u DEF AskShutdown, records
  <2>2. CASE Kill(s)
    <3>1. CASE s = "old"
      BY <2>2, <3>1, <1>b DEF Kill, KillOf, Turns, CleanupPlaces, Finish, records
    <3>2. CASE s = "candidate"
      BY <2>2, <3>2, <1>b DEF Kill, KillOf, Turns, CleanupPlaces, Finish, records
    <3> QED BY <3>1, <3>2 DEF Sides
  <2>3. CASE Stop(s)
    <3>1. CASE s = "old"
      BY <2>3, <3>1, <1>b DEF Stop, StopOf, Turns, CleanupPlaces, Finish, records
    <3>2. CASE s = "candidate"
      <4>1. hand.pc = "stop candidate" /\ hand.do \in {"cutover", "rollback"}
        BY <1>0, <2>3, <3>2, WhoIsThere DEF Stop, StopOf
      <4>2. \/ hand.do = "cutover"  /\ Goto("finalizing-candidate")
            \/ hand.do = "rollback" /\ Goto("fencing-old")
            \/ hand.do = "rollback" /\ Goto("old-ready")
        BY <2>3, <3>2, <4>1 DEF Stop
      <4>3. hand'.do = hand.do /\ hand'.pc \in {"finalizing-candidate", "fencing-old", "old-ready"}
        BY <1>0, <4>2 DEF HandInv, Hands, Goto
      <4> QED BY <4>1, <4>3, <1>t DEF Finish
    <3> QED BY <3>1, <3>2 DEF Sides
  <2> QED BY <1>5, <2>1, <2>2, <2>3
<1>6. CASE Decide
  <2>1. \/ hand'.do = "settle"   /\ hand'.pc = "accepted"
        \/ hand'.do = "rollback" /\ hand'.pc = "fencing-candidate"
    BY <1>6 DEF Decide, Run
  <2> QED BY <2>1, <1>t DEF Finish
(* The end of an operation.                                                *)
<1>7. CASE Select \/ Link \/ Persist \/ Complete
  <2>1. CASE hand.pc = "persist off"
    BY <1>7, <2>1, <1>b
    DEF Select, Link, Persist, Complete, Turns, CleanupPlaces, Finish, records
  <2>2. CASE hand.pc # "persist off"
    <3>1. Advance /\ hand.pc \in {"select", "link", "persist on", "complete"}
      BY <1>7, <2>2 DEF Select, Link, Persist, Complete
    <3>2. hand.do \in {"cutover", "settle", "rollback"}
      BY <1>0, <3>1, WhoIsThere DEF Finish
    <3>3. hand'.do = hand.do /\ hand'.pc = After(hand.do, hand.pc)
      BY <1>0, <3>1, Advanced DEF Turns, CleanupPlaces
    <3>4. hand'.pc = CASE hand.pc = "select"     -> "link"
                       [] hand.pc = "link"       -> "persist on"
                       [] hand.pc = "persist on" -> "complete"
                       [] hand.pc = "complete"   -> "unpend"
      BY <3>1, <3>2, <3>3 DEF After
    <3>5. /\ Side' = Side
          /\ hand.do = "settle" => pending.phase = "accepted"
          /\ pending.phase = "accepted" <=> hand.do # "rollback"
      BY <1>0, <3>1, <3>3 DEF FinishInv, Finish, Side
    <3>6. CASE Select
      <4>1. live = {Side} /\ accepted = Side
        BY <3>6, WhenReady DEF Select
      <4>2. /\ hand'.pc = "link" /\ conf'.gen = Side
            /\ UNCHANGED <<accepted, pending, live>>
        BY <1>0, <3>4, <3>6 DEF Select, XenType, records, xen
      <4> QED BY <3>3, <3>5, <4>1, <4>2 DEF FinishInv, Finish
    <3>7. CASE Link \/ Persist \/ Complete
      <4>1. /\ hand'.pc \in {"persist on", "complete", "unpend"}
            /\ hand.pc \in Finish \ {"select"}
        BY <2>2, <3>4, <3>7 DEF Link, Persist, Complete, Finish
      <4>2. accepted = Side /\ live \subseteq {accepted} /\ conf.gen = accepted
        BY <1>0, <4>1 DEF FinishInv
      <4>3. conf'.gen = conf.gen /\ UNCHANGED <<accepted, pending, live>>
        BY <1>0, <3>7 DEF Link, Persist, Complete, XenType, records, xen
      <4>4. hand'.pc \in {"complete", "unpend"} => saved' = conf'
        BY <1>0, <2>2, <3>4, <3>7 DEF Link, Persist, Complete, FinishInv
      <4>5. hand'.pc = "unpend" => complete' = pending'
        BY <2>2, <3>4, <3>7 DEF Link, Persist, Complete
      <4> QED BY <3>3, <3>5, <4>1, <4>2, <4>3, <4>4, <4>5 DEF FinishInv
    <3> QED BY <1>7, <3>6, <3>7
  <2> QED BY <2>1, <2>2
<1>8. CASE Unpend \/ EndStatus \/ ProcessKilled \/ PowerLoss
  BY <1>8, <1>i DEF Unpend, EndStatus, ProcessKilled, PowerLoss, Return
(* The other commands, and those who hold no lock.                         *)
<1>9. CASE SaveProgress \/ Retire
  <2>1. hand.do = "cleanup"
    BY <1>0, <1>9, WhoIsThere DEF SaveProgress, Retire, CleanupPlaces
  <2>2. hand' = Idle \/ \E pc \in CleanupPlaces : Goto(pc)
    BY <1>9 DEF SaveProgress, Retire, Return, CleanupPlaces
  <2>3. ASSUME NEW pc \in CleanupPlaces, Goto(pc) PROVE FinishInv'
    <3>1. hand'.do = "cleanup" /\ hand'.pc = pc
      BY <1>0, <2>1, <2>3, Went DEF InProgram
    <3> QED BY <2>3, <3>1, <1>t DEF CleanupPlaces, Finish
  <2> QED BY <2>2, <2>3, <1>i
<1>10. CASE \/ AdoptBaseline \/ StartCutover \/ Recover \/ SupervisorRecovers \/ TakeStatus
            \/ StartCleanup \/ BootRecover
  <2>1. hand = Idle
    BY <1>10
    DEF AdoptBaseline, StartCutover, Recover, SupervisorRecovers, TakeStatus, StartCleanup,
        BootRecover, LockFree
  <2>2. \/ hand' = hand
        \/ \E do, pc : Run(do, pc) /\ do # "settle" /\ pc \in {"unlink", "read"} \cup CleanupPlaces
    BY <1>10
    DEF AdoptBaseline, StartCutover, Recover, SupervisorRecovers, TakeStatus, StartCleanup,
        BootRecover, CleanupPlaces
  <2>3. ASSUME NEW do, NEW pc \in {"unlink", "read"} \cup CleanupPlaces, Run(do, pc), do # "settle"
        PROVE  FinishInv'
    <3>1. hand'.do = do /\ hand'.pc = pc
      BY <2>3 DEF Run
    <3> QED BY <2>3, <3>1, <1>t DEF CleanupPlaces, Finish
  <2> QED BY <2>1, <2>2, <2>3, <1>i
<1>11. CASE Fail
  <2>1. CASE FailCutover \/ FailRecovery
    <3>1. hand'.do # "settle" /\ hand'.pc = "unlink"
      BY <2>1 DEF FailCutover, FailRecovery, Run
    <3> QED BY <3>1, <1>t DEF Finish
  <2>3. CASE FailCleanup
    BY <2>3, <1>i DEF FailCleanup, Return
  <2>2. CASE FailFence
    <3>1. CASE hand.pc = "recovery-failed"
      BY <2>2, <3>1, <1>i DEF FailFence, Return
    <3>2. CASE hand.pc # "recovery-failed"
      <4>1. hand'.do = "fence"
        BY <1>0, <2>2, <3>2 DEF FailFence, HandInv, Hands
      <4>2. HandInv' /\ hand' # Idle
        BY <4>1, HandNext, Held DEF RouterInv
      <4>3. hand'.pc \in FencePlaces
        BY <4>1, <4>2 DEF HandInv, InProgram
      <4> QED BY <4>1, <4>3, <1>t DEF FencePlaces, Finish
    <3> QED BY <3>1, <3>2
  <2> QED BY <1>11, <2>1, <2>2, <2>3 DEF Fail
<1>12. CASE \/ UNCHANGED vars \/ SupervisorLoses \/ Controller \/ Guests \/ HelperDies \/ GuestDies
            \/ OtherCommit
  <2>1. /\ UNCHANGED <<hand, accepted, pending, complete, conf>>
        /\ live' \subseteq live /\ saved' \in {saved, conf}
    <3>1. CASE UNCHANGED vars \/ SupervisorLoses \/ HelperDies \/ GuestDies \/ OtherCommit
      BY <3>1 DEF vars, records, xen, SupervisorLoses, HelperDies, GuestDies, OtherCommit
    <3>2. CASE Controller
      BY <3>2
      DEF Controller, CheckEnrollment, PublishDevice, PublishEnrollment, CheckAcceptance,
          PublishAcceptance, SignalLost, records, xen
    <3>3. CASE Guests
      BY <3>3 DEF Guests, HelperCopies, FinalizerEnds, GuestEnds, records
    <3> QED BY <1>12, <3>1, <3>2, <3>3
  <2> QED BY <2>1, <1>u
<1>13. CASE FenceAutostart \/ Xendomains
  <2>1. hand' = Idle
    BY <1>0, <1>13 DEF FenceAutostart, Xendomains, HelperGone, actors
  <2> QED BY <2>1, <1>i
<1> QED
  BY <1>1, <1>2, <1>3, <1>4, <1>5, <1>6, <1>7, <1>8, <1>9, <1>10, <1>11, <1>12, <1>13
  DEF RouterNext, Worker, Commands, Failures, Boot

(* Without an operation nothing but the boot sequence moves a definition   *)
(* or starts a router, and it starts what the definition selects.          *)
LEMMA SettledNext ==
  ASSUME RouterInv, [RouterNext]_vars
  PROVE  SettledIsSelected'
<1>0. /\ SettledIsSelected /\ FinishInv /\ PendingInv /\ BaselineInv
      /\ XenType /\ RecordType /\ HandInv
  BY DEF RouterInv, TypeInv
<1>n. None \notin Pending /\ None # "old" /\ None # "candidate"
  BY ConstantsAssumption DEF Routers, Sides
<1>p. ASSUME pending' # None PROVE SettledIsSelected'
  BY <1>p DEF SettledIsSelected
<1>1. CASE Moving
  <2>1. CASE Unpend
    <3>1. /\ UNCHANGED <<accepted, complete, conf, saved, live>> /\ hand.pc = "unpend"
      BY <2>1 DEF Unpend, xen
    <3>2. hand.pc \in Finish \ {"select"}
      BY <3>1 DEF Finish
    <3>3. /\ accepted = Side /\ live \subseteq {accepted} /\ conf.gen = accepted
          /\ saved = conf /\ complete = pending
          /\ pending.phase = "accepted" <=> hand.do # "rollback"
      BY <1>0, <3>1, <3>2 DEF FinishInv
    <3>4. accepted = (IF complete.phase = "accepted" THEN "candidate" ELSE "old")
      BY <3>3 DEF Side
    <3> QED BY <3>1, <3>3, <3>4 DEF SettledIsSelected
  <2>2. CASE Checkpoint
    <3>1. pending' \in Pending
      BY <2>2, RecordedType DEF Checkpoint
    <3> QED BY <3>1, <1>n, <1>p
  <2>3. CASE ~Unpend /\ ~Checkpoint
    BY <1>1, <1>n, <1>p, <2>3, MovingIsPending, MovingKeeps
  <2> QED BY <2>1, <2>2, <2>3
<1>2. CASE AdoptBaseline
  <2>1. /\ accepted' = "old" /\ UNCHANGED <<complete, conf, saved, live>>
        /\ accepted = None /\ live = {"old"} /\ conf.gen = "old"
    BY <1>2 DEF AdoptBaseline, xen
  <2>2. complete = None /\ saved.gen = "old"
    BY <1>0, <2>1 DEF BaselineInv
  <2> QED BY <2>1, <2>2 DEF SettledIsSelected
<1>3. CASE StartCutover
  <2>1. pending' \in Pending
    BY <1>3 DEF StartCutover, Pending, Phases, CutoverPhases
  <2> QED BY <2>1, <1>n, <1>p
<1>4. CASE ~Moving /\ ~AdoptBaseline /\ ~StartCutover
  <2>1. UNCHANGED <<accepted, pending, complete>>
    BY <1>4, OthersKeep
  <2>2. UNCHANGED marker /\ BaselineInv'
    <3>1. BaselineInv'
      BY BaselineNext
    <3> QED BY <1>0, <3>1 DEF BaselineInv
  <2>u. ASSUME live' \subseteq live, {conf', saved'} \subseteq {conf, saved} PROVE SettledIsSelected'
    BY <1>0, <2>1, <2>2, <2>u DEF SettledIsSelected
  <2>3. CASE \/ UNCHANGED vars \/ SaveProgress \/ Retire \/ EndStatus \/ Controller \/ Recover
             \/ SupervisorRecovers \/ SupervisorLoses \/ TakeStatus \/ StartCleanup
    BY <2>3, <2>u
    DEF vars, xen, SaveProgress, Retire, EndStatus, Controller, CheckEnrollment, PublishDevice,
        PublishEnrollment, CheckAcceptance, PublishAcceptance, SignalLost, Recover,
        SupervisorRecovers, SupervisorLoses, TakeStatus, StartCleanup
  <2>4. CASE Guests \/ Failures
    BY <2>4, <2>u
    DEF Guests, HelperCopies, FinalizerEnds, GuestEnds, xen, Failures, Fail, HelperDies,
        GuestDies, ProcessKilled, PowerLoss
  <2>5. CASE OtherCommit \/ BootRecover
    BY <2>5, <2>u DEF OtherCommit, BootRecover, xen
  <2>6. CASE FenceAutostart
    <3>1. /\ ~conf'.auto /\ live' = live /\ saved' \in {saved, conf'}
      BY <1>0, <2>6 DEF FenceAutostart, XenType, xen
    <3> QED BY <1>0, <2>1, <2>2, <3>1 DEF SettledIsSelected
  <2>7. CASE Xendomains
    <3>1. CASE conf.auto /\ live = {}
      <4>1. UNCHANGED <<conf, saved>> /\ live' = {conf.gen}
        BY <2>7, <3>1 DEF Xendomains
      <4> QED BY <1>0, <2>1, <2>2, <3>1, <4>1 DEF SettledIsSelected
    <3>2. CASE ~(conf.auto /\ live = {})
      BY <2>7, <3>2, <2>u DEF Xendomains
    <3> QED BY <3>1, <3>2
  <2> QED
    BY <1>4, <2>3, <2>4, <2>5, <2>6, <2>7 DEF RouterNext, Worker, Moving, Commands, Boot
<1> QED BY <1>1, <1>2, <1>3, <1>4

-----------------------------------------------------------------------------

(* RouterInv is inductive.                                                 *)
LEMMA RouterInit ==
  ASSUME Init
  PROVE  RouterInv
<1>1. hand = Idle /\ HandInv
  BY DEF Init, HandInv, Idle, Hands, Programs, Places
<1>2. hand.pc = "idle" /\ hand.do = "none"
  BY <1>1 DEF Idle
<1>3. RecordType /\ XenType /\ ActorType
  BY ConstantsAssumption DEF Init, RecordType, XenType, ActorType, Sides
<1>4. Apart /\ HelperGone /\ PendingInv /\ FinishInv
  BY <1>2, <1>1
  DEF Init, Apart, HelperGone, PendingInv, FinishInv, Finish, Movers, Recovering
<1>5. BaselineInv /\ SettledIsSelected
  BY DEF Init, BaselineInv, SettledIsSelected
<1> QED BY <1>1, <1>3, <1>4, <1>5 DEF RouterInv, TypeInv

LEMMA RouterStep ==
  ASSUME RouterInv, [RouterNext]_vars
  PROVE  RouterInv'
<1>1. HandInv'
  BY HandNext DEF RouterInv
<1> QED
  BY <1>1, RecordTypeNext, XenTypeNext, ActorTypeNext, ApartNext, HelperGoneNext, PendingNext,
     FinishNext, BaselineNext, SettledNext
  DEF RouterInv, TypeInv

LEMMA RouterInvariant == Spec => []RouterInv
  BY RouterInit, RouterStep, PTL DEF Spec

(* Records, guests and phases keep their types, whatever fails.            *)
THEOREM TypeCorrect == Spec => []TypeOK
<1>1. RouterInv => TypeOK
  BY DEF RouterInv, TypeInv, RecordType, XenType, ActorType, BaselineInv, TypeOK, Sides, Routers
<1> QED BY <1>1, RouterInvariant, PTL

(* The invariant leaves room for one guest with a router's disk.           *)
LEMMA OneAtATime ==
  ASSUME RouterInv
  PROVE  OneRouter
<1>1. (\A s, t \in live : s = t) /\ (helper # None => live = {})
  BY DEF RouterInv, Apart
<1>2. CASE live = {}
  BY <1>1, <1>2, FS_EmptySet DEF OneRouter
<1>3. CASE live # {}
  <2>1. PICK s \in live : TRUE
    BY <1>3
  <2>2. live = {s}
    BY <1>1, <2>1
  <2>3. Cardinality(live) = 1
    BY <2>2, FS_Singleton
  <2> QED BY <1>1, <2>3 DEF OneRouter
<1> QED BY <1>2, <1>3

(* Two routers never run together, nor a router beside a helper guest:     *)
(* stop(), start() and copy() look first, and a boot that starts a router  *)
(* follows a recovery that ended with its helpers gone.                    *)
THEOREM OneRouterRuns == Spec => []OneRouter
<1>1. RouterInv => OneRouter
  BY OneAtATime
<1> QED BY <1>1, RouterInvariant, PTL

(* Whichever worker, recovery or boot finishes an operation, its selection *)
(* is what runs, what the next boot starts, and what complete.json says.   *)
THEOREM SettledSelection == Spec => []SettledIsSelected
<1>1. RouterInv => SettledIsSelected
  BY DEF RouterInv
<1> QED BY <1>1, RouterInvariant, PTL

-----------------------------------------------------------------------------
(* After the acceptance nothing can bring the old router back: it does not *)
(* run, no definition starts it, and no rollback is under way.  A cutover  *)
(* gets there only with the autostart link gone, in memory and on the boot *)
(* medium.                                                                 *)
NoWayBack ==
  accepted = "candidate" =>
    /\ "old" \notin live
    /\ conf.auto  => conf.gen  = "candidate"
    /\ saved.auto => saved.gen = "candidate"
    /\ hand.do # "rollback"

LinkGone ==
  hand.do = "cutover" /\ hand.pc \notin {"unlink"} \cup Finish =>
    /\ ~conf.auto
    /\ hand.pc # "persist off" => ~saved.auto

-----------------------------------------------------------------------------

(* Whichever place a command begins at, its name is known.                 *)
LEMMA Begun ==
  /\ StartCleanup => hand'.do = "cleanup"
  /\ TakeStatus   => hand'.do = "status"
  /\ Recover \/ SupervisorRecovers \/ BootRecover => hand' = hand \/ hand'.do = "recover"
<1>r. \A do, pc : Run(do, pc) => hand'.do = do
  BY DEF Run
<1>1. ASSUME StartCleanup PROVE hand'.do = "cleanup"
  <2>1. CASE complete.phase = "accepted"
    BY <1>1, <1>r, <2>1 DEF StartCleanup
  <2>2. CASE complete.phase # "accepted" /\ "disk" \notin gone
    BY <1>1, <1>r, <2>2 DEF StartCleanup
  <2>3. CASE complete.phase # "accepted" /\ "disk" \in gone
    <3>1. CASE progress \in {"disk-removing", "disk-removed"}
      BY <1>1, <1>r, <2>3, <3>1 DEF StartCleanup
    <3>2. CASE progress \notin {"disk-removing", "disk-removed"}
      BY <1>1, <1>r, <2>3, <3>2 DEF StartCleanup
    <3> QED BY <3>1, <3>2
  <2> QED BY <2>1, <2>2, <2>3
<1>2. TakeStatus => hand'.do = "status"
  BY <1>r DEF TakeStatus
<1>3. Recover => hand' = hand \/ hand'.do = "recover"
  BY <1>r DEF Recover
<1>4. SupervisorRecovers => hand' = hand \/ hand'.do = "recover"
  BY <1>r DEF SupervisorRecovers
<1>5. BootRecover => hand' = hand \/ hand'.do = "recover"
  BY <1>r DEF BootRecover
<1> QED BY <1>1, <1>2, <1>3, <1>4, <1>5

(* A cutover moves on with its link gone.                                  *)
LEMMA LinkGoneNext ==
  ASSUME RouterInv, LinkGone, [RouterNext]_vars
  PROVE  LinkGone'
<1>0. HandInv /\ XenType
  BY DEF RouterInv, TypeInv
<1>u. ASSUME hand' = hand, conf' = conf, saved' \in {saved, conf} PROVE LinkGone'
  BY <1>u DEF LinkGone
<1>d. ASSUME hand'.do # "cutover" PROVE LinkGone'
  BY <1>d DEF LinkGone
<1>i. ASSUME hand' = Idle PROVE LinkGone'
  BY <1>i, <1>d, Held
<1>a. ASSUME hand'.do = hand.do, hand.pc \notin {"unlink", "persist off"} \cup Finish,
             UNCHANGED <<conf, saved>>
      PROVE  LinkGone'
  BY <1>a DEF LinkGone
<1>g. ASSUME NEW pc, Goto(pc) PROVE hand'.do = hand.do /\ hand'.pc = pc
  BY <1>0, <1>g DEF HandInv, Hands, Goto
<1>1. CASE Unlink
  <2>1. /\ hand.pc = "unlink" /\ conf' = [conf EXCEPT !.auto = FALSE]
        /\ hand'.do = hand.do /\ hand'.pc = After(hand.do, hand.pc)
    BY <1>1, <1>g DEF Unlink, Advance
  <2>2. hand'.pc = "persist off" /\ ~conf'.auto
    BY <1>0, <2>1 DEF After, XenType
  <2> QED BY <2>2 DEF LinkGone
<1>2. CASE Persist
  <2>1. /\ hand'.do = hand.do /\ hand'.pc = After(hand.do, hand.pc)
        /\ saved' = conf /\ conf' = conf
    BY <1>2, <1>g DEF Persist, Advance
  <2>2. CASE hand.pc = "persist on"
    <3>1. hand'.pc = "complete"
      BY <2>1, <2>2 DEF After
    <3> QED BY <3>1 DEF LinkGone, Finish
  <2>3. CASE hand.pc = "persist off"
    BY <2>1, <2>3 DEF LinkGone, Finish
  <2> QED BY <1>2, <2>2, <2>3 DEF Persist
<1>3. CASE Select \/ Link \/ Complete
  <2>1. /\ hand.pc \in {"select", "link", "complete"}
        /\ hand'.do = hand.do /\ hand'.pc = After(hand.do, hand.pc)
    BY <1>3, <1>g DEF Select, Link, Complete, Advance
  <2>2. After(hand.do, "select") = "link" /\ After(hand.do, "link") = "persist on"
        /\ After(hand.do, "complete") = "unpend"
    BY DEF After
  <2> QED BY <2>1, <2>2 DEF LinkGone, Finish
<1>4. CASE \/ RecordAttempt \/ CheckLocal \/ AwaitEnrollment \/ Finalize \/ AwaitFinalizer
           \/ AwaitAcceptance \/ Commit \/ FenceHelper \/ Start
  <2>1. /\ hand'.do = hand.do /\ UNCHANGED <<conf, saved>>
        /\ hand.pc \in {"attempt", "await enrollment", "finalize", "await finalizer",
                        "await acceptance", "commit", "fence finalizer", "fence copy"}
                       \cup Starts \cup Checks
    BY <1>4, <1>g
    DEF RecordAttempt, CheckLocal, AwaitEnrollment, Finalize, AwaitFinalizer, AwaitAcceptance,
        Commit, FenceHelper, Start, Advance
  <2> QED BY <2>1, <1>a DEF Starts, Checks, Finish
<1>5. CASE Checkpoint
  <2>1. CASE hand.pc = "recovery-failed"
    BY <1>5, <2>1, <1>i DEF Checkpoint, Return
  <2>2. CASE hand.pc # "recovery-failed"
    <3>1. hand.pc \notin {"unlink", "persist off"} \cup Finish
      BY <1>5 DEF Checkpoint, Phases, CutoverPhases, RecoveryPhases, Finish
    <3>2. hand'.do = hand.do /\ UNCHANGED <<conf, saved>>
      BY <1>5, <2>2, <1>g DEF Checkpoint, Advance
    <3> QED BY <3>1, <3>2, <1>a
  <2> QED BY <2>1, <2>2
<1>6. ASSUME NEW d \in Directions, StartCopy(d) \/ EndCopy(d) \/ VerifyCopy(d)
      PROVE  LinkGone'
  <2>1. /\ hand.pc \in {CopyOf[d], WaitOf[d], CheckOf[d]}
        /\ hand'.do = hand.do /\ UNCHANGED <<conf, saved>>
    BY <1>6, <1>g DEF StartCopy, EndCopy, VerifyCopy, Advance
  <2>2. hand.pc \notin {"unlink", "persist off"} \cup Finish
    <3>1. CASE d = "forward"
      BY <2>1, <3>1 DEF Finish, CopyOf, WaitOf, CheckOf
    <3>2. CASE d = "reverse"
      BY <2>1, <3>2 DEF Finish, CopyOf, WaitOf, CheckOf
    <3> QED BY <3>1, <3>2 DEF Directions
  <2> QED BY <2>1, <2>2, <1>a
<1>7. ASSUME NEW s \in Sides, AskShutdown(s) \/ GuestEnds(s) \/ Stop(s) \/ Kill(s)
      PROVE  LinkGone'
  <2>1. CASE AskShutdown(s) \/ GuestEnds(s)
    BY <2>1, <1>u DEF AskShutdown, GuestEnds
  <2>2. CASE Kill(s)
    <3>1. hand.pc \in {"kill old", "kill candidate"}
      <4>1. CASE s = "old"
        BY <2>2, <4>1 DEF Kill, KillOf
      <4>2. CASE s = "candidate"
        BY <2>2, <4>2 DEF Kill, KillOf
      <4> QED BY <4>1, <4>2 DEF Sides
    <3>2. hand'.do = hand.do /\ UNCHANGED <<conf, saved>>
      BY <2>2, <1>g DEF Kill, Advance
    <3> QED BY <3>1, <3>2, <1>a DEF Finish
  <2>3. CASE Stop(s)
    <3>1. CASE s = "old"
      <4>1. hand.pc = "stop old" /\ hand'.do = hand.do /\ UNCHANGED <<conf, saved>>
        BY <2>3, <3>1, <1>g DEF Stop, StopOf, Advance
      <4> QED BY <4>1, <1>a DEF Finish
    <3>2. CASE s = "candidate"
      <4>1. hand.pc = "stop candidate" /\ UNCHANGED <<conf, saved>> /\ \E pc : Goto(pc)
        BY <2>3, <3>2 DEF Stop, StopOf
      <4>2. hand'.do = hand.do
        BY <4>1, <1>g
      <4> QED BY <4>1, <4>2, <1>a DEF Finish
    <3> QED BY <3>1, <3>2 DEF Sides
  <2> QED BY <1>7, <2>1, <2>2, <2>3
<1>8. CASE Unpend \/ EndStatus \/ ProcessKilled \/ PowerLoss
  BY <1>8, <1>i DEF Unpend, EndStatus, ProcessKilled, PowerLoss, Return
<1>9. CASE Decide \/ Recover \/ SupervisorRecovers \/ BootRecover \/ AdoptBaseline
  <2>1. (hand' = hand /\ hand = Idle) \/ \E do, pc : Run(do, pc) /\ do # "cutover"
    <3>1. CASE Decide
      <4>1. Run("settle", "accepted") \/ Run("rollback", "fencing-candidate")
        BY <3>1 DEF Decide
      <4> QED BY <4>1
    <3>2. CASE Recover \/ SupervisorRecovers \/ BootRecover \/ AdoptBaseline
      <4>1. (hand' = hand /\ hand = Idle) \/ Run("recover", "unlink")
        BY <3>2 DEF Recover, SupervisorRecovers, BootRecover, AdoptBaseline, LockFree
      <4> QED BY <4>1
    <3> QED BY <1>9, <3>1, <3>2
  <2>2. ASSUME NEW do, NEW pc, Run(do, pc), do # "cutover" PROVE LinkGone'
    BY <2>2, <1>d DEF Run
  <2> QED BY <2>1, <2>2, <1>i
<1>10. CASE StartCutover
  BY <1>10 DEF StartCutover, Run, LinkGone
<1>11. CASE SaveProgress \/ Retire
  <2>1. hand.do = "cleanup"
    BY <1>0, <1>11, WhoIsThere DEF SaveProgress, Retire, CleanupPlaces
  <2>2. hand' = Idle \/ \E pc : Goto(pc)
    BY <1>11 DEF SaveProgress, Retire, Return
  <2> QED BY <2>1, <2>2, <1>g, <1>d, <1>i
<1>12. CASE Fail
  <2>1. CASE FailCutover \/ FailRecovery
    BY <2>1, <1>d DEF FailCutover, FailRecovery, Run
  <2>2. CASE FailCleanup
    BY <2>2, <1>i DEF FailCleanup, Return
  <2>3. CASE FailFence
    <3>1. hand' = Idle \/ hand'.do = hand.do
      BY <1>0, <2>3 DEF FailFence, Return, HandInv, Hands
    <3> QED BY <2>3, <3>1, <1>i, <1>d DEF FailFence
  <2> QED BY <1>12, <2>1, <2>2, <2>3 DEF Fail
<1>13. CASE \/ UNCHANGED vars \/ SupervisorLoses \/ Controller \/ FinalizerEnds \/ HelperDies
            \/ GuestDies \/ OtherCommit
  BY <1>13, <1>u
  DEF vars, SupervisorLoses, Controller, CheckEnrollment, PublishDevice, PublishEnrollment,
      CheckAcceptance, PublishAcceptance, SignalLost, FinalizerEnds, HelperDies, GuestDies,
      OtherCommit
<1>14. ASSUME NEW d \in Directions, HelperCopies(d) PROVE LinkGone'
  BY <1>14, <1>u DEF HelperCopies
<1>15. CASE FenceAutostart \/ Xendomains
  <2>1. hand' = Idle
    BY <1>15 DEF FenceAutostart, Xendomains, RouterInv, HelperGone, actors
  <2> QED BY <2>1, <1>i
<1>16. CASE TakeStatus \/ StartCleanup
  <2>1. hand'.do \in {"status", "cleanup"}
    BY <1>16, Begun
  <2> QED BY <2>1, <1>d
<1> QED
  BY <1>1, <1>2, <1>3, <1>4, <1>5, <1>6, <1>7, <1>8, <1>9, <1>10, <1>11, <1>12, <1>13, <1>14,
     <1>15, <1>16
  DEF RouterNext, Worker, Commands, Guests, Failures, Boot

(* After the acceptance every start and every rollback concerns the        *)
(* candidate.                                                              *)
LEMMA NoWayBackNext ==
  ASSUME RouterInv, NoWayBack, LinkGone, [RouterNext]_vars
  PROVE  NoWayBack'
<1>0. HandInv /\ XenType /\ FinishInv /\ BaselineInv
  BY DEF RouterInv, TypeInv
<1>n. ASSUME accepted' # "candidate" PROVE NoWayBack'
  BY <1>n DEF NoWayBack
<1>g. ASSUME NEW pc, Goto(pc) PROVE hand'.do = hand.do
  BY <1>0, <1>g DEF HandInv, Hands, Goto
(* Whoever neither starts a router nor writes a definition, and does not   *)
(* turn to a rollback.                                                     *)
<1>k. ASSUME accepted' = accepted, live' \subseteq live, {conf', saved'} \subseteq {conf, saved},
             hand'.do # "rollback" \/ hand'.do = hand.do
      PROVE  NoWayBack'
  BY <1>k DEF NoWayBack
<1>i. hand' = Idle => hand'.do # "rollback"
  BY Held
<1>1. CASE \/ Checkpoint \/ Persist \/ RecordAttempt \/ CheckLocal \/ AwaitEnrollment \/ Finalize
           \/ AwaitFinalizer \/ AwaitAcceptance \/ Complete \/ FenceHelper
  <2>1. hand' = Idle \/ hand'.do = hand.do
    BY <1>1, <1>g
    DEF Checkpoint, Persist, RecordAttempt, CheckLocal, AwaitEnrollment, Finalize,
        AwaitFinalizer, AwaitAcceptance, Complete, FenceHelper, Advance, Return
  <2>2. accepted' = accepted /\ live' = live /\ {conf', saved'} \subseteq {conf, saved}
    BY <1>1
    DEF Checkpoint, Persist, RecordAttempt, CheckLocal, AwaitEnrollment, Finalize,
        AwaitFinalizer, AwaitAcceptance, Complete, FenceHelper, records, xen
  <2> QED BY <2>1, <2>2, <1>i, <1>k
<1>2. CASE Unlink
  <2>1. hand'.do = hand.do /\ ~conf'.auto /\ UNCHANGED <<accepted, live, saved>>
    BY <1>0, <1>2, <1>g DEF Unlink, Advance, XenType, records, xen
  <2> QED BY <2>1 DEF NoWayBack
<1>3. CASE Select \/ Link
  <2>1. hand'.do = hand.do /\ UNCHANGED <<accepted, live, saved>>
    BY <1>3, <1>g DEF Select, Link, Advance, records, xen
  <2>2. conf'.gen = accepted
    <3>1. CASE Select
      <4>1. accepted = Side
        BY <3>1, WhenReady DEF Select
      <4> QED BY <1>0, <3>1, <4>1 DEF Select, XenType
    <3>2. CASE Link
      <4>1. conf.gen = accepted
        BY <1>0, <3>2 DEF Link, FinishInv, Finish
      <4> QED BY <1>0, <3>2, <4>1 DEF Link, XenType
    <3> QED BY <1>3, <3>1, <3>2
  <2> QED BY <2>1, <2>2 DEF NoWayBack
<1>4. CASE Commit
  <2>1. live = {"candidate"} /\ UNCHANGED <<conf, saved, live>> /\ hand.pc = "commit"
        /\ hand'.do = hand.do
    BY <1>4, <1>g, WhenReady DEF Commit, Advance, xen
  <2>2. hand.do = "cutover"
    <3>1. hand # Idle
      BY <2>1, Held
    <3> QED BY <1>0, <2>1, <3>1
        DEF HandInv, InProgram, RecoverPlaces, SettlePlaces, RollbackPlaces, FencePlaces,
            CleanupPlaces, Finish
  <2>3. ~conf.auto /\ ~saved.auto
    BY <2>1, <2>2 DEF LinkGone, Finish
  <2> QED BY <2>1, <2>2, <2>3 DEF NoWayBack
<1>5. CASE Start
  <2>1. live' = {Side} /\ UNCHANGED <<accepted, conf, saved>> /\ hand'.do = hand.do
    BY <1>5, <1>g DEF Start, Advance, records
  <2>2. accepted = "candidate" => Side = "candidate"
    BY DEF NoWayBack, Side
  <2> QED BY <2>1, <2>2 DEF NoWayBack
<1>6. ASSUME NEW d \in Directions, StartCopy(d) \/ EndCopy(d) \/ VerifyCopy(d) \/ HelperCopies(d)
      PROVE  NoWayBack'
  <2>1. UNCHANGED <<accepted, live, conf, saved>> /\ hand'.do = hand.do
    BY <1>6, <1>g DEF StartCopy, EndCopy, VerifyCopy, HelperCopies, Advance, records, xen
  <2> QED BY <2>1, <1>k
<1>7. ASSUME NEW s \in Sides, AskShutdown(s) \/ GuestEnds(s) \/ Stop(s) \/ Kill(s)
      PROVE  NoWayBack'
  <2>1. hand' = hand \/ (\E pc : Goto(pc))
    BY <1>7 DEF AskShutdown, GuestEnds, Stop, Kill, Advance
  <2>2. live' \subseteq live /\ UNCHANGED <<accepted, conf, saved>>
    BY <1>7 DEF AskShutdown, GuestEnds, Stop, Kill, records
  <2> QED BY <2>1, <2>2, <1>g, <1>k
<1>8. CASE Decide
  <2>1. accepted' = accepted /\ live' = live /\ UNCHANGED <<conf, saved>>
    BY <1>8 DEF Decide, records, xen
  <2>2. accepted = "candidate" => hand'.do = "settle"
    BY <1>8 DEF Decide, Run
  <2> QED BY <2>1, <2>2 DEF NoWayBack
<1>9. CASE Unpend \/ EndStatus \/ ProcessKilled \/ PowerLoss
  <2>1. hand' = Idle /\ accepted' = accepted /\ live' \subseteq live
        /\ {conf', saved'} \subseteq {conf, saved}
    BY <1>9 DEF Unpend, EndStatus, ProcessKilled, PowerLoss, Return, records, xen
  <2> QED BY <2>1, <1>i, <1>k
<1>10. CASE SaveProgress \/ Retire
  <2>1. (hand' = Idle \/ \E pc : Goto(pc)) /\ UNCHANGED <<accepted, live, conf, saved>>
    BY <1>10 DEF SaveProgress, Retire, Return, records, xen
  <2> QED BY <2>1, <1>g, <1>i, <1>k
<1>11. CASE AdoptBaseline \/ StartCutover
  BY <1>11, <1>n DEF AdoptBaseline, StartCutover
<1>12. CASE \/ Recover \/ SupervisorRecovers \/ SupervisorLoses \/ TakeStatus \/ StartCleanup
            \/ BootRecover
  <2>1. hand' = hand \/ hand'.do \in {"recover", "status", "cleanup"}
    BY <1>12, Begun DEF SupervisorLoses
  <2>2. UNCHANGED <<accepted, live, conf, saved>>
    BY <1>12
    DEF Recover, SupervisorRecovers, SupervisorLoses, TakeStatus, StartCleanup, BootRecover,
        records, xen
  <2> QED BY <2>1, <2>2, <1>k
<1>13. CASE Fail
  <2>1. hand'.do # "rollback"
    <3>1. CASE FailCutover \/ FailRecovery
      BY <3>1 DEF FailCutover, FailRecovery, Run
    <3>2. CASE FailCleanup
      BY <3>2, <1>i DEF FailCleanup, Return
    <3>3. CASE FailFence
      <4>1. hand' = Idle \/ hand'.do = hand.do
        BY <1>0, <3>3 DEF FailFence, Return, HandInv, Hands
      <4> QED BY <3>3, <4>1, <1>i DEF FailFence
    <3> QED BY <1>13, <3>1, <3>2, <3>3 DEF Fail
  <2>2. UNCHANGED <<accepted, live, conf, saved>>
    BY <1>13 DEF Fail, records
  <2> QED BY <2>1, <2>2, <1>k
<1>14. CASE \/ UNCHANGED vars \/ Controller \/ FinalizerEnds \/ HelperDies \/ GuestDies
            \/ OtherCommit
  <2>1. hand' = hand /\ accepted' = accepted /\ live' \subseteq live
        /\ {conf', saved'} \subseteq {conf, saved}
    BY <1>14
    DEF vars, Controller, CheckEnrollment, PublishDevice, PublishEnrollment, CheckAcceptance,
        PublishAcceptance, SignalLost, FinalizerEnds, HelperDies, GuestDies, OtherCommit,
        records, xen
  <2> QED BY <2>1, <1>k
<1>15. CASE FenceAutostart
  <2>1. ~conf'.auto /\ saved' \in {saved, conf'} /\ UNCHANGED <<accepted, live, hand>>
    BY <1>0, <1>15 DEF FenceAutostart, XenType, records, xen
  <2> QED BY <2>1 DEF NoWayBack
<1>16. CASE Xendomains
  <2>1. CASE conf.auto /\ live = {}
    <3>1. live' = {conf.gen} /\ UNCHANGED <<accepted, conf, saved, hand>>
      BY <1>16, <2>1 DEF Xendomains, records
    <3> QED BY <2>1, <3>1 DEF NoWayBack
  <2>2. CASE ~(conf.auto /\ live = {})
    BY <1>16, <2>2, <1>k DEF Xendomains, records
  <2> QED BY <2>1, <2>2
<1> QED
  BY <1>1, <1>2, <1>3, <1>4, <1>5, <1>6, <1>7, <1>8, <1>9, <1>10, <1>11, <1>12, <1>13, <1>14,
     <1>15, <1>16
  DEF RouterNext, Worker, Commands, Guests, Failures, Boot

-----------------------------------------------------------------------------

(* What a step of the transaction looks like from outside: it ends         *)
(* routers, or starts one where none ran, or selects the one that runs.    *)
LEMMA StepShape ==
  ASSUME RouterInv, [RouterNext]_vars
  PROVE  /\ accepted = "candidate" => accepted' = "candidate"
         /\ live' \subseteq live \/ live = {}
         /\ accepted' = "candidate" /\ accepted # "candidate" =>
              live' = {"candidate"} /\ live = {"candidate"}
<1>n. None # "candidate"
  BY ConstantsAssumption DEF Routers, Sides
<1>1. CASE Commit
  <2>1. live = {"candidate"} /\ live' = live /\ accepted' = "candidate"
    BY <1>1, WhenReady DEF Commit, xen
  <2> QED BY <2>1
<1>2. CASE ~Commit
  <2>1. accepted' = accepted \/ (accepted = None /\ accepted' = "old")
    <3>1. CASE Moving
      BY <1>2, <3>1, MovingKeeps
    <3>2. CASE AdoptBaseline \/ StartCutover
      BY <3>2 DEF AdoptBaseline, StartCutover
    <3>3. CASE ~Moving /\ ~AdoptBaseline /\ ~StartCutover
      BY <3>3, OthersKeep
    <3> QED BY <3>1, <3>2, <3>3
  <2>2. live' \subseteq live \/ live = {}
    <3>1. CASE Start
      <4>1. live \subseteq {Side} /\ live' = {Side}
        BY <3>1, WhenReady DEF Start
      <4> QED BY <4>1
    <3>2. CASE Xendomains
      BY <3>2 DEF Xendomains
    <3>3. CASE \/ UNCHANGED vars \/ Checkpoint \/ Unlink \/ Persist \/ RecordAttempt \/ CheckLocal
               \/ AwaitEnrollment \/ Finalize \/ AwaitFinalizer \/ AwaitAcceptance \/ Select
               \/ Link \/ Complete \/ Unpend \/ FenceHelper \/ Decide \/ SaveProgress \/ Retire
               \/ EndStatus
      BY <3>3
      DEF vars, xen, Checkpoint, Unlink, Persist, RecordAttempt, CheckLocal, AwaitEnrollment,
          Finalize, AwaitFinalizer, AwaitAcceptance, Select, Link, Complete, Unpend,
          FenceHelper, Decide, SaveProgress, Retire, EndStatus
    <3>4. CASE Commands \/ Controller \/ OtherCommit \/ BootRecover \/ FenceAutostart
      BY <3>4
      DEF Commands, xen, AdoptBaseline, StartCutover, Recover, SupervisorRecovers,
          SupervisorLoses, TakeStatus, StartCleanup, Controller, CheckEnrollment,
          PublishDevice, PublishEnrollment, CheckAcceptance, PublishAcceptance, SignalLost,
          OtherCommit, BootRecover, FenceAutostart
    <3>5. ASSUME NEW s \in Sides, AskShutdown(s) \/ Stop(s) \/ Kill(s)
          PROVE  live' \subseteq live
      BY <3>5 DEF AskShutdown, Stop, Kill
    <3>6. ASSUME NEW d \in Directions, StartCopy(d) \/ EndCopy(d) \/ VerifyCopy(d)
          PROVE  live' \subseteq live
      BY <3>6 DEF StartCopy, EndCopy, VerifyCopy, xen
    <3>7. CASE Guests \/ Failures
      BY <3>7
      DEF Guests, HelperCopies, FinalizerEnds, GuestEnds, Failures, Fail, HelperDies,
          GuestDies, ProcessKilled, PowerLoss, xen
    <3> QED
      BY <1>2, <3>1, <3>2, <3>3, <3>4, <3>5, <3>6, <3>7 DEF RouterNext, Worker, Boot
  <2> QED BY <1>n, <2>1, <2>2
<1> QED BY <1>1, <1>2

(* The one router of a set of running ones, and the one that runs, as the  *)
(* promise sees it.                                                        *)
TheOne(l) == IF l \cap Sides = {} THEN None ELSE CHOOSE s \in l \cap Sides : TRUE

Running == IF live \cap Sides = {} THEN None ELSE CHOOSE s \in live \cap Sides : TRUE

LEMMA TheOneIs ==
  ASSUME NEW l, l \subseteq Sides, \A s, t \in l : s = t
  PROVE  \/ l = {} /\ TheOne(l) = None
         \/ \E s \in Sides : l = {s} /\ TheOne(l) = s
<1>1. CASE l = {}
  BY <1>1 DEF TheOne
<1>2. CASE l # {}
  <2>1. PICK s \in l : TRUE
    BY <1>2
  <2>2. l = {s} /\ s \in Sides /\ l \cap Sides = l
    BY <2>1
  <2>3. (CHOOSE t \in l : TRUE) \in l
    BY <2>1
  <2>4. TheOne(l) = s
    BY <2>2, <2>3 DEF TheOne
  <2> QED BY <2>2, <2>4
<1> QED BY <1>1, <1>2

LEMMA PromiseInit ==
  ASSUME Init
  PROVE  Selection!Init
<1>1. Running = "old" /\ accepted # "candidate"
  <2>1. live \subseteq Sides /\ live = {"old"} /\ \A s, t \in live : s = t
    BY DEF Init, Sides
  <2>2. accepted # "candidate"
    BY ConstantsAssumption DEF Init, Routers, Sides
  <2> QED BY <2>1, <2>2, TheOneIs DEF TheOne, Running
<1> QED BY <1>1 DEF Selection!Init, Running

LEMMA PromiseStep ==
  ASSUME RouterInv, RouterInv', NoWayBack', [RouterNext]_vars
  PROVE  [Selection!Next]_(Selection!vars)
<1> DEFINE Sel == IF accepted = "candidate" THEN accepted ELSE "old"
           Ret == IF accepted = "candidate" THEN {"old"} ELSE {}
<1>n. None \notin Sides /\ "old" \in Sides /\ "candidate" \in Sides
  BY ConstantsAssumption DEF Routers, Sides
<1>1. /\ \/ live = {} /\ Running = None
         \/ \E s \in Sides : live = {s} /\ Running = s
      /\ \/ live' = {} /\ Running' = None
         \/ \E s \in Sides : live' = {s} /\ Running' = s
  <2>1. /\ live \subseteq Sides /\ \A s, t \in live : s = t
        /\ live' \subseteq Sides /\ \A s, t \in live' : s = t
    BY DEF RouterInv, TypeInv, XenType, Apart
  <2>2. \/ live = {} /\ Running = None
        \/ \E s \in Sides : live = {s} /\ Running = s
    BY <2>1, TheOneIs DEF TheOne, Running
  <2>3. \/ live' = {} /\ Running' = None
        \/ \E s \in Sides : live' = {s} /\ Running' = s
    BY <2>1, TheOneIs DEF TheOne, Running
  <2> QED BY <2>2, <2>3
<1>2. Running' = Running \/ Running' = None \/ (Running = None /\ Running' \in Sides)
  BY <1>1, StepShape
<1>3. /\ accepted = "candidate" => accepted' = "candidate"
      /\ accepted' = "candidate" /\ accepted # "candidate" =>
           Running' = "candidate" /\ Running = "candidate"
      /\ accepted' = "candidate" => Running' # "old"
  BY <1>1, <1>n, StepShape DEF NoWayBack
<1>4. CASE (accepted = "candidate") <=> (accepted' = "candidate")
  <2>1. Sel' = Sel /\ Ret' = Ret
    BY <1>4
  <2>2. CASE Running' = Running
    BY <2>1, <2>2 DEF Selection!vars, Running
  <2>3. CASE Running' # Running
    <3>1. Running' = None \/ (Running = None /\ Running' \in {Sel} \cup ((Sides \ (Ret \cup {Sel})) \cap {"candidate"}))
      BY <1>2, <1>3, <1>4, <2>3 DEF Sides
    <3>2. Running' \in Sides \cup {None}
      BY <1>1
    <3>3. Selection!Run
      BY <2>1, <3>1, <3>2 DEF Selection!Run, Selection!New, Running
    <3> QED BY <3>3 DEF Selection!Next
  <2> QED BY <2>2, <2>3
<1>5. CASE accepted # "candidate" /\ accepted' = "candidate"
  <2>1. Running = "candidate" /\ Running' = "candidate"
    BY <1>3, <1>5
  <2>2. Selection!Select("router", "candidate")
    BY <1>5, <1>n, <2>1 DEF Selection!Select, Selection!New, Running
  <2> QED BY <1>n, <2>2 DEF Selection!Next
<1> QED BY <1>3, <1>4, <1>5

(* The cutover with its recovery, boot and failures is a selection that    *)
(* changes once: for any number of failures, the router that was replaced  *)
(* is never selected and never runs again.                                 *)
THEOREM ImplementsPromise == Spec => ImplementsSelection
<1>1. Init => NoWayBack /\ LinkGone
  <2> SUFFICES ASSUME Init PROVE NoWayBack /\ LinkGone
    OBVIOUS
  <2>1. hand.do = "none" /\ accepted # "candidate"
    BY ConstantsAssumption DEF Init, Idle, Routers, Sides
  <2> QED BY <2>1 DEF NoWayBack, LinkGone
<1>2. RouterInv /\ NoWayBack /\ LinkGone /\ [RouterNext]_vars => NoWayBack' /\ LinkGone'
  BY NoWayBackNext, LinkGoneNext
<1>3. RouterInv /\ RouterInv' /\ NoWayBack' /\ [RouterNext]_vars => [Selection!Next]_(Selection!vars)
  BY PromiseStep
<1>4. Init => Selection!Init
  BY PromiseInit
<1> QED
  BY <1>1, <1>2, <1>3, <1>4, RouterInvariant, PTL DEF Spec, ImplementsSelection, Selection!Spec

(* In particular, once the candidate is accepted, recovery, boot and a     *)
(* rollback neither select nor start the router that it replaced.          *)
THEOREM RetiredForever == Spec => []Selection!NeverRetired
<1>1. Init => NoWayBack /\ LinkGone
  BY ConstantsAssumption DEF Init, Idle, Routers, Sides, NoWayBack, LinkGone
<1>2. RouterInv /\ NoWayBack /\ LinkGone /\ [RouterNext]_vars => NoWayBack' /\ LinkGone'
  BY NoWayBackNext, LinkGoneNext
<1>3. RouterInv /\ NoWayBack => Selection!NeverRetired
  <2> SUFFICES ASSUME NoWayBack, accepted = "candidate"
               PROVE  /\ "candidate" # "old"
                      /\ (IF live \cap Sides = {} THEN None
                         ELSE CHOOSE s \in live \cap Sides : TRUE) # "old"
    BY DEF Selection!NeverRetired
  <2>1. "old" \notin live
    BY DEF NoWayBack
  <2>2. None # "old"
    BY ConstantsAssumption DEF Routers, Sides
  <2>3. live \cap Sides # {} => (CHOOSE s \in live \cap Sides : TRUE) \in live \cap Sides
    OBVIOUS
  <2> QED BY <2>1, <2>2, <2>3
<1> QED BY <1>1, <1>2, <1>3, RouterInvariant, PTL DEF Spec

-----------------------------------------------------------------------------
(* The state of the router: which disks hold the newest.                   *)

Selected == IF accepted = "candidate" THEN "candidate" ELSE "old"

(* The places of a cutover before the candidate may have served.           *)
BeforeCandidate ==
  {"unlink", "persist off", "attempt", "stopping-old", "stop old", "copying-forward",
   "copy forward", "wait forward", "candidate-ready", "verify forward", "starting-candidate"}

(* The places of a rollback that copy the state back, those that follow,   *)
(* and those at which the old router may have served again.                *)
CopyBack == {"fencing-old", "stop old", "copying-reverse", "copy reverse", "wait reverse",
             "verify reverse"}
BeforeOld == {"old-ready", "starting-old"}
AfterOld  == {"start old", "checking-old", "check old", "rolled-back"} \cup Finish

(* The record is never at odds with its own start markers.                 *)
RecordInv ==
  /\ pending # None => Valid(pending)
  /\ accepted = "candidate" /\ pending # None => pending.candidate_started
  /\ accepted # "candidate" => conf.gen = "old" /\ saved.gen = "old"
  /\ mode = "xendomains" /\ conf.auto => pending = None

(* What each command knows of the starts that were recorded.               *)
StartedInv ==
  /\ hand.do = "settle" => accepted = "candidate"
  /\ hand.do = "rollback" => accepted = "old"
  /\ hand.do = "cutover" =>
       /\ ~pending.old_started
       /\ hand.pc \in BeforeCandidate <=> ~pending.candidate_started
  /\ hand.do = "rollback" =>
       /\ hand.pc \in CopyBack => CopiesBack
       /\ hand.pc \in BeforeOld => helper = None
       /\ hand.pc \in AfterOld => pending.old_started

(* Receipts and copy guests belong to this operation and its direction.    *)
CopiesInv ==
  /\ pending = None /\ complete = None => receipt = {} /\ helper \notin Directions
  /\ "reverse" \in receipt \/ helper = "reverse" =>
       accepted = "old" /\ hand.do \notin {"cutover", "settle"}
  /\ helper = "reverse" => pending # None /\ CopiesBack
  /\ hand.do = "cutover" /\ hand.pc \in BeforeCandidate /\ "forward" \in receipt =>
       "candidate" \in fresh
  /\ "reverse" \in receipt => "old" \in fresh

(* The disk of whoever may have served last is among the newest.           *)
ServedInv ==
  /\ pending = None => Selected \in fresh
  /\ pending # None =>
       /\ ~pending.candidate_started => "old" \in fresh
       /\ pending.candidate_started /\ ~pending.old_started => "candidate" \in fresh
       /\ pending.old_started => "old" \in fresh
  /\ hand.do = "cutover" /\ hand.pc = "starting-candidate" => "candidate" \in fresh
  /\ hand.do = "rollback" /\ hand.pc \in BeforeOld => "old" \in fresh
  /\ live \subseteq fresh

FreshInv == RecordInv /\ StartedInv /\ CopiesInv /\ ServedInv

(* A fence that has not failed has done what lies behind it.               *)
FenceInv ==
  /\ hand.do \in Movers => pending.phase # "recovery-failed"
  /\ hand.do = "fence" /\ ~hand.failed =>
       /\ hand.pc # "unlink" => ~conf.auto
       /\ hand.pc \notin {"unlink", "persist off"} => ~saved.auto
       /\ hand.pc \in {"fence copy", "kill candidate", "kill old", "recovery-failed"}
            => helper # "finalizer"
       /\ hand.pc \in {"kill candidate", "kill old", "recovery-failed"} => helper = None
       /\ hand.pc \in {"kill old", "recovery-failed"} => "candidate" \notin live
       /\ hand.pc = "recovery-failed" => "old" \notin live
  /\ FailedIsFenced

-----------------------------------------------------------------------------

(* Where a command that goes on came from.                                 *)
LEMMA Passage ==
  ASSUME NEW do, NEW pc, InProgram(do, pc), pc \notin Turns
  PROVE  /\ do = "cutover" =>
              /\ pc # "starting-candidate" =>
                   (After(do, pc) \in BeforeCandidate <=> pc \in BeforeCandidate)
              /\ pc = "starting-candidate" => After(do, pc) \notin BeforeCandidate
              /\ After(do, pc) = "starting-candidate" => pc = "verify forward"
         /\ do = "rollback" =>
              /\ After(do, pc) \in CopyBack => pc \in CopyBack
              /\ After(do, pc) \in BeforeOld \ {pc} => pc \in BeforeOld \cup {"verify reverse"}
              /\ After(do, pc) \in AfterOld => pc \in AfterOld \cup {"starting-old"}
<1>1. CASE do = "cutover"
  <2>1. pc \in CutoverPlaces \ Turns
    BY <1>1 DEF InProgram
  <2>2. CASE pc \in
         {"unlink", "persist off", "attempt", "stopping-old", "stop old", "copying-forward"}
    <3>1. /\ After("cutover", "unlink") = "persist off"
          /\ After("cutover", "persist off") = "attempt"
          /\ After("cutover", "attempt") = "stopping-old"
          /\ After("cutover", "stopping-old") = "stop old"
          /\ After("cutover", "stop old") = "copying-forward"
          /\ After("cutover", "copying-forward") = "copy forward"
      BY DEF After
    <3> QED BY <1>1, <2>2, <3>1 DEF BeforeCandidate
  <2>3. CASE pc \in
         {"copy forward", "wait forward", "candidate-ready", "verify forward",
          "starting-candidate", "start candidate"}
    <3>1. /\ After("cutover", "copy forward") = "wait forward"
          /\ After("cutover", "wait forward") = "candidate-ready"
          /\ After("cutover", "candidate-ready") = "verify forward"
          /\ After("cutover", "verify forward") = "starting-candidate"
          /\ After("cutover", "starting-candidate") = "start candidate"
          /\ After("cutover", "start candidate") = "checking-candidate"
      BY DEF After
    <3> QED BY <1>1, <2>3, <3>1 DEF BeforeCandidate
  <2>4. CASE pc \in
         {"checking-candidate", "check candidate", "awaiting-enrollment", "await enrollment",
          "stopping-candidate-for-finalization", "finalizing-candidate"}
    <3>1. /\ After("cutover", "checking-candidate") = "check candidate"
          /\ After("cutover", "check candidate") = "awaiting-enrollment"
          /\ After("cutover", "awaiting-enrollment") = "await enrollment"
          /\ After("cutover", "await enrollment") = "stopping-candidate-for-finalization"
          /\ After("cutover", "stopping-candidate-for-finalization") = "stop candidate"
          /\ After("cutover", "finalizing-candidate") = "finalize"
      BY DEF After
    <3> QED BY <1>1, <2>4, <3>1 DEF BeforeCandidate
  <2>5. CASE pc \in
         {"finalize", "await finalizer", "restarting-candidate", "restart candidate",
          "checking-final-candidate", "check final"}
    <3>1. /\ After("cutover", "finalize") = "await finalizer"
          /\ After("cutover", "await finalizer") = "restarting-candidate"
          /\ After("cutover", "restarting-candidate") = "restart candidate"
          /\ After("cutover", "restart candidate") = "checking-final-candidate"
          /\ After("cutover", "checking-final-candidate") = "check final"
          /\ After("cutover", "check final") = "awaiting-acceptance"
      BY DEF After
    <3> QED BY <1>1, <2>5, <3>1 DEF BeforeCandidate
  <2>6. CASE pc \in
         {"awaiting-acceptance", "await acceptance", "committing", "commit", "accepted"} \cup Finish
    <3>1. /\ After("cutover", "awaiting-acceptance") = "await acceptance"
          /\ After("cutover", "await acceptance") = "committing"
          /\ After("cutover", "committing") = "commit"
          /\ After("cutover", "commit") = "accepted"
          /\ After("cutover", "accepted") = "select"
          /\ After("cutover", "select") = "link"
          /\ After("cutover", "link") = "persist on"
          /\ After("cutover", "persist on") = "complete"
          /\ After("cutover", "complete") = "unpend"
      BY DEF After
    <3> QED BY <1>1, <2>1, <2>6, <3>1 DEF BeforeCandidate, Finish, Turns
  <2> QED
    BY <2>1, <2>2, <2>3, <2>4, <2>5, <2>6 DEF CutoverPlaces, CutoverPhases, Turns
<1>2. CASE do = "rollback"
  <2>1. pc \in RollbackPlaces \ Turns
    BY <1>2 DEF InProgram
  <2>2. CASE pc \in
         {"fencing-candidate", "fencing-old", "stop old", "copying-reverse", "copy reverse"}
    <3>1. /\ After("rollback", "fencing-candidate") = "stop candidate"
          /\ After("rollback", "fencing-old") = "stop old"
          /\ After("rollback", "stop old") = "copying-reverse"
          /\ After("rollback", "copying-reverse") = "copy reverse"
          /\ After("rollback", "copy reverse") = "wait reverse"
      BY DEF After
    <3> QED BY <1>2, <2>2, <3>1 DEF CopyBack, BeforeOld, AfterOld, Finish
  <2>3. CASE pc \in
         {"wait reverse", "verify reverse", "old-ready", "starting-old", "start old"}
    <3>1. /\ After("rollback", "wait reverse") = "verify reverse"
          /\ After("rollback", "verify reverse") = "old-ready"
          /\ After("rollback", "old-ready") = "starting-old"
          /\ After("rollback", "starting-old") = "start old"
          /\ After("rollback", "start old") = "checking-old"
      BY DEF After
    <3> QED BY <1>2, <2>3, <3>1 DEF CopyBack, BeforeOld, AfterOld, Finish
  <2>4. CASE pc \in {"checking-old", "check old", "rolled-back"} \cup Finish
    <3>1. /\ After("rollback", "checking-old") = "check old"
          /\ After("rollback", "check old") = "rolled-back"
          /\ After("rollback", "rolled-back") = "select"
          /\ After("rollback", "select") = "link"
          /\ After("rollback", "link") = "persist on"
          /\ After("rollback", "persist on") = "complete"
          /\ After("rollback", "complete") = "unpend"
      BY DEF After
    <3> QED BY <1>2, <2>1, <2>4, <3>1 DEF CopyBack, BeforeOld, AfterOld, Finish, Turns
  <2> QED BY <2>1, <2>2, <2>3, <2>4 DEF RollbackPlaces, Turns
<1>3. CASE do \notin {"cutover", "rollback"}
  BY <1>3
<1> QED BY <1>1, <1>2, <1>3

(* Who is at a place that moves the state.                                 *)
LEMMA WhoMoves ==
  ASSUME HandInv
  PROVE  /\ hand.pc \in BeforeCandidate \ {"unlink", "persist off", "stop old"}
              => hand.do = "cutover"
         /\ hand.pc \in {"commit", "restart candidate"} => hand.do = "cutover"
         /\ hand.pc = "start candidate" => hand.do \in {"cutover", "settle"}
         /\ hand.pc \in (CopyBack \ {"stop old"}) \cup BeforeOld \cup {"start old"}
              => hand.do = "rollback"
         /\ hand.pc = "verify reverse" => hand.do = "rollback"
         /\ hand.pc \in {"select", "unpend"} => hand.do \in {"cutover", "settle", "rollback"}
         /\ hand.pc = "accepted" => hand.do \in {"cutover", "settle"}
         /\ hand.do = "cutover" => hand.pc \in CutoverPlaces
<1>1. CASE hand = Idle
  BY <1>1 DEF Idle, BeforeCandidate, CopyBack, BeforeOld
<1>2. CASE InProgram(hand.do, hand.pc)
  <2>1. CASE hand.do = "cutover"
    BY <1>2, <2>1
    DEF InProgram, CutoverPlaces, CutoverPhases, Finish, BeforeCandidate, CopyBack, BeforeOld
  <2>2. CASE hand.do = "rollback"
    BY <1>2, <2>2 DEF InProgram, RollbackPlaces, Finish, BeforeCandidate, CopyBack, BeforeOld
  <2>3. CASE hand.do \in {"recover", "settle", "fence"}
    BY <1>2, <2>3
    DEF InProgram, RecoverPlaces, SettlePlaces, FencePlaces, Finish, BeforeCandidate, CopyBack,
        BeforeOld
  <2>4. CASE hand.do \in {"cleanup", "status"}
    BY <1>2, <2>4 DEF InProgram, CleanupPlaces, BeforeCandidate, CopyBack, BeforeOld
  <2> QED BY <1>2, <2>1, <2>2, <2>3, <2>4 DEF InProgram
<1> QED BY <1>1, <1>2 DEF HandInv

(* What a checkpoint writes: its place, the markers there were, and at     *)
(* two places one more.                                                    *)
LEMMA Written ==
  ASSUME RouterInv, RecordInv, StartedInv, Checkpoint
  PROVE  /\ pending \in Pending /\ pending' \in Pending /\ pending # None /\ pending' # None
         /\ pending' = Recorded /\ Valid(pending')
         /\ pending'.phase = hand.pc
         /\ hand.pc # "starting-candidate" =>
              pending'.candidate_started = pending.candidate_started
         /\ hand.pc = "starting-candidate" => pending'.candidate_started
         /\ hand.pc # "starting-old" => pending'.old_started = pending.old_started
         /\ hand.pc = "starting-old" => pending'.old_started
<1>1. hand.pc \in Phases /\ pending' = Recorded /\ Valid(pending')
  BY DEF Checkpoint
<1>2. pending \in Pending /\ pending' \in Pending
  BY <1>1, MovingIsPending, RecordedType DEF Moving
<1>3. None \notin Pending
  BY ConstantsAssumption
<1>4. pending.candidate_started \in BOOLEAN /\ pending.old_started \in BOOLEAN
  BY <1>2 DEF Pending
<1>5. /\ Recorded.phase = hand.pc
      /\ Recorded.candidate_started =
           (\/ pending.candidate_started \/ hand.pc = "starting-candidate"
            \/ (hand.pc = "accepted" /\ hand.do = "settle"))
      /\ Recorded.old_started = (pending.old_started \/ hand.pc = "starting-old")
  BY DEF Recorded
<1>6. hand.pc = "accepted" /\ hand.do = "settle" => pending.candidate_started
  BY <1>2, <1>3 DEF StartedInv, RecordInv
<1> QED BY <1>1, <1>2, <1>3, <1>4, <1>5, <1>6

(* The record and the definition agree with the selection.                 *)
LEMMA RecordNext ==
  ASSUME RouterInv, RecordInv, StartedInv, [RouterNext]_vars
  PROVE  RecordInv'
<1>0. HandInv /\ XenType /\ BaselineInv /\ HelperGone
  BY DEF RouterInv, TypeInv
<1>n. None # "candidate" /\ None # "old"
  BY ConstantsAssumption DEF Routers, Sides
<1>b. mode' = "xendomains" => hand' = Idle
  <2>1. RouterInv'
    BY RouterStep
  <2> QED BY <2>1 DEF RouterInv, HelperGone
<1>c. accepted' # "candidate" => accepted # "candidate"
  BY StepShape
(* Nothing of it changes, but the definition may lose its link.            *)
<1>k. ASSUME UNCHANGED <<accepted, pending>>, {conf', saved'} \subseteq {conf, saved},
             mode' = "xendomains" => mode = "xendomains" /\ conf' = conf
      PROVE  RecordInv'
  BY <1>k DEF RecordInv
<1>1. CASE Checkpoint
  <2>1. Valid(pending') /\ (pending.candidate_started => pending'.candidate_started)
        /\ pending # None
    BY <1>1, Written
  <2>2. UNCHANGED <<accepted, conf, saved>>
    BY <1>1 DEF Checkpoint
  <2>3. mode' # "xendomains"
    <3>1. CASE hand.pc = "recovery-failed"
      <4>1. hand # Idle /\ Return(FALSE)
        BY <1>1, <3>1, Held DEF Checkpoint
      <4> QED BY <4>1, Returned
    <3>2. CASE hand.pc # "recovery-failed"
      <4>1. hand # Idle
        BY <1>1, Held DEF Checkpoint, Phases, CutoverPhases, RecoveryPhases
      <4> QED BY <1>0, <1>1, <3>2, <4>1 DEF Checkpoint, HelperGone
    <3> QED BY <3>1, <3>2
  <2> QED BY <2>1, <2>2, <2>3 DEF RecordInv
<1>2. CASE Unpend
  <2>1. pending' = None /\ UNCHANGED <<accepted, conf, saved>>
    BY <1>2 DEF Unpend, xen
  <2> QED BY <2>1 DEF RecordInv
<1>3. CASE Commit
  <2>1. /\ hand.do = "cutover" /\ hand.pc \notin BeforeCandidate
        /\ accepted' = "candidate" /\ UNCHANGED <<pending, conf, mode>>
    BY <1>0, <1>3, WhoMoves DEF Commit, BeforeCandidate
  <2>2. pending.candidate_started = TRUE
    <3>1. pending \in Pending
      BY <1>3, MovingIsPending DEF Moving
    <3> QED BY <2>1, <3>1 DEF StartedInv, Pending
  <2> QED BY <2>1, <2>2 DEF RecordInv
<1>4. CASE StartCutover
  <2>1. /\ pending' = [phase |-> "armed", candidate_started |-> FALSE,
                       old_started |-> FALSE, fenced |-> FALSE]
        /\ accepted = "old" /\ UNCHANGED <<accepted, conf, saved, mode>> /\ mode = "up"
    BY <1>4 DEF StartCutover, LockFree
  <2>2. Valid(pending')
    <3>1. /\ pending'.phase = "armed" /\ pending'.candidate_started = FALSE
          /\ pending'.old_started = FALSE
      BY <2>1
    <3>2. "armed" \notin CandidatePhases /\ "armed" # "copying-reverse"
      BY DEF CandidatePhases
    <3>3. ("armed" \in CandidatePhases) = FALSE
      BY <3>2
    <3>4. pending'.candidate_started = (pending'.phase \in CandidatePhases)
      BY <3>1, <3>3, Zenon
    <3> QED BY <3>1, <3>2, <3>4 DEF Valid
  <2> QED BY <2>1, <2>2 DEF RecordInv
<1>5. CASE Select \/ Link \/ Unlink
  <2>1. UNCHANGED <<accepted, pending, saved, mode>> /\ hand # Idle
    BY <1>5, Held DEF Select, Link, Unlink, records
  <2>2. mode # "xendomains"
    BY <1>0, <2>1 DEF HelperGone
  <2>3. accepted # "candidate" => conf'.gen = "old"
    <3>1. CASE Select
      <4>1. accepted = Side /\ conf'.gen = Side
        BY <1>0, <3>1, WhenReady DEF Select, XenType
      <4> QED BY <4>1 DEF Side
    <3>2. CASE Link \/ Unlink
      BY <1>0, <3>2 DEF Link, Unlink, XenType, RecordInv
    <3> QED BY <1>5, <3>1, <3>2
  <2> QED BY <2>1, <2>2, <2>3 DEF RecordInv
<1>6. CASE \/ Persist \/ RecordAttempt \/ CheckLocal \/ AwaitEnrollment \/ Finalize
           \/ AwaitFinalizer \/ AwaitAcceptance \/ Complete \/ FenceHelper \/ Decide \/ Start
           \/ Retire \/ EndStatus
  BY <1>6, <1>k
  DEF Persist, RecordAttempt, CheckLocal, AwaitEnrollment, Finalize, AwaitFinalizer,
      AwaitAcceptance, Complete, FenceHelper, Decide, Start, Retire, EndStatus, records, xen
<1>7. ASSUME NEW d \in Directions, StartCopy(d) \/ EndCopy(d) \/ VerifyCopy(d) \/ HelperCopies(d)
      PROVE  RecordInv'
  BY <1>7, <1>k DEF StartCopy, EndCopy, VerifyCopy, HelperCopies, records, xen
<1>8. ASSUME NEW s \in Sides, AskShutdown(s) \/ GuestEnds(s) \/ Stop(s) \/ Kill(s)
      PROVE  RecordInv'
  BY <1>8, <1>k DEF AskShutdown, GuestEnds, Stop, Kill, records
<1>9. CASE AdoptBaseline
  <2>1. UNCHANGED <<pending, conf, saved, mode>> /\ accepted' = "old" /\ accepted = None
    BY <1>9 DEF AdoptBaseline, xen
  <2> QED BY <1>n, <2>1 DEF RecordInv
<1>10. CASE SaveProgress
  <2>1. hand # Idle /\ hand.do = "cleanup" /\ UNCHANGED <<accepted, pending, conf, saved>>
    BY <1>0, <1>10, WhoIsThere, Held DEF SaveProgress, CleanupPlaces, records, xen
  <2>2. mode = "up"
    BY <1>0, <2>1 DEF HelperGone, Recovering
  <2>3. mode' = "up"
    BY <1>10, <2>2 DEF SaveProgress, Return
  <2> QED BY <2>1, <2>3, <1>k
<1>11. CASE Recover \/ SupervisorRecovers \/ SupervisorLoses \/ TakeStatus \/ StartCleanup
  BY <1>11, <1>k
  DEF Recover, SupervisorRecovers, SupervisorLoses, TakeStatus, StartCleanup, records, xen
<1>12. CASE Fail \/ ProcessKilled
  <2>1. hand # Idle /\ UNCHANGED <<accepted, pending, conf, saved>>
    <3>1. CASE Fail
      <4>1. hand.do # "none"
        BY <3>1 DEF Fail, FailCutover, FailRecovery, FailFence, FailCleanup, Recovering
      <4> QED BY <3>1, <4>1, Held DEF Fail, records
    <3>2. CASE ProcessKilled
      BY <3>2 DEF ProcessKilled, records, xen
    <3> QED BY <1>12, <3>1, <3>2
  <2>2. mode' = mode \/ Return(FALSE)
    BY <1>12 DEF Fail, FailCutover, FailRecovery, FailFence, FailCleanup, ProcessKilled
  <2>3. mode' = "xendomains" => mode = "xendomains"
    BY <2>1, <2>2, Returned
  <2> QED BY <2>1, <2>3, <1>k
<1>13. CASE PowerLoss
  <2>1. mode' = "recovery" /\ UNCHANGED <<accepted, pending, saved>> /\ conf' = saved
    BY <1>13 DEF PowerLoss, records
  <2> QED BY <2>1, <1>k
<1>14. CASE UNCHANGED vars \/ Controller \/ FinalizerEnds \/ HelperDies \/ GuestDies \/ OtherCommit
  <2>1. UNCHANGED <<accepted, pending, conf, mode>> /\ saved' \in {conf, saved}
    BY <1>14
    DEF vars, Controller, CheckEnrollment, PublishDevice, PublishEnrollment, CheckAcceptance,
        PublishAcceptance, SignalLost, FinalizerEnds, HelperDies, GuestDies, OtherCommit,
        records, xen
  <2> QED BY <2>1, <1>k
<1>15. CASE BootRecover
  <2>1. UNCHANGED <<accepted, pending, conf, saved>> /\ mode = "recovery"
    BY <1>15 DEF BootRecover, records, xen
  <2>2. mode' = "xendomains" => pending = None
    BY <1>15, <2>1 DEF BootRecover
  <2> QED BY <2>1, <2>2 DEF RecordInv
<1>16. CASE FenceAutostart
  <2>1. /\ ~conf'.auto /\ conf'.gen = conf.gen /\ saved' \in {saved, conf'}
        /\ UNCHANGED <<accepted, pending>>
    BY <1>0, <1>16 DEF FenceAutostart, XenType, records
  <2> QED BY <2>1 DEF RecordInv
<1>17. CASE Xendomains
  BY <1>17, <1>k DEF Xendomains, records
<1> QED
  BY <1>1, <1>2, <1>3, <1>4, <1>5, <1>6, <1>7, <1>8, <1>9, <1>10, <1>11, <1>12, <1>13, <1>14,
     <1>15, <1>16, <1>17
  DEF RouterNext, Worker, Commands, Guests, Failures, Boot

(* What each command knows of the recorded starts.                         *)
LEMMA StartedNext ==
  ASSUME RouterInv, RecordInv, StartedInv, CopiesInv, [RouterNext]_vars
  PROVE  StartedInv'
<1>0. HandInv /\ HandInv' /\ PendingInv /\ BaselineInv
  BY HandNext DEF RouterInv
<1>n. None \notin Pending /\ None # "candidate" /\ None # "old"
  BY ConstantsAssumption DEF Routers, Sides
<1>s. accepted = "candidate" => accepted' = "candidate"
  BY StepShape
(* Another command, which knows nothing yet.                               *)
<1>d. ASSUME hand'.do \notin {"cutover", "settle", "rollback"} PROVE StartedInv'
  BY <1>d DEF StartedInv
<1>i. ASSUME hand' = Idle PROVE StartedInv'
  BY <1>i, <1>d DEF Idle
(* The place stays.                                                        *)
<1>u. ASSUME UNCHANGED <<hand, pending>>, accepted' = accepted, helper' \in {helper, None}
      PROVE  StartedInv'
  BY <1>u DEF StartedInv, CopiesBack
(* The command goes on where the markers do not change.                    *)
<1>a. ASSUME Advance, hand.pc # "idle",
             hand.pc \notin Turns \cup {"starting-candidate", "starting-old", "verify reverse",
                                        "commit"},
             pending'.candidate_started = pending.candidate_started,
             pending'.old_started = pending.old_started,
             accepted' = accepted, hand.pc \in BeforeOld => helper' \in {helper, None}
      PROVE  StartedInv'
  <2>1. /\ hand'.do = hand.do /\ hand'.pc = After(hand.do, hand.pc)
        /\ InProgram(hand.do, hand.pc)
    BY <1>0, <1>a, Advanced
  <2>p. hand.pc \notin Turns
    BY <1>a
  <2>2. hand.do = "cutover" => (hand'.pc \in BeforeCandidate <=> hand.pc \in BeforeCandidate)
    <3>1. hand.do = "cutover" /\ hand.pc # "starting-candidate" =>
            (After(hand.do, hand.pc) \in BeforeCandidate <=> hand.pc \in BeforeCandidate)
      BY <2>1, <2>p, Passage
    <3> QED BY <1>a, <2>1, <3>1
  <2>3. hand.do = "rollback" =>
          /\ hand'.pc \in CopyBack => hand.pc \in CopyBack
          /\ hand'.pc \in BeforeOld => hand.pc \in BeforeOld
          /\ hand'.pc \in AfterOld => hand.pc \in AfterOld
    <3>1. LET next == After(hand.do, hand.pc)
          IN  hand.do = "rollback" =>
                /\ next \in CopyBack => hand.pc \in CopyBack
                /\ next \in BeforeOld \ {hand.pc} => hand.pc \in BeforeOld \cup {"verify reverse"}
                /\ next \in AfterOld => hand.pc \in AfterOld \cup {"starting-old"}
      BY <2>1, <2>p, Passage
    <3> QED BY <1>a, <2>1, <3>1
  <2> QED BY <1>a, <2>1, <2>2, <2>3 DEF StartedInv, CopiesBack
<1>1. CASE Checkpoint
  <2>1. /\ hand.pc \in Phases
        /\ hand.pc # "starting-candidate" =>
             pending'.candidate_started = pending.candidate_started
        /\ hand.pc = "starting-candidate" => pending'.candidate_started
        /\ hand.pc # "starting-old" => pending'.old_started = pending.old_started
        /\ hand.pc = "starting-old" => pending'.old_started
    BY <1>1, Written DEF Checkpoint
  <2>2. CASE hand.pc = "recovery-failed"
    BY <1>1, <2>2, <1>i DEF Checkpoint, Return
  <2>3. Phases \cap (Turns \cup {"idle", "verify reverse", "commit"}) = {"recovery-failed"}
    BY DEF Phases, CutoverPhases, RecoveryPhases, Turns, CleanupPlaces
  <2>4. CASE hand.pc \notin {"recovery-failed", "starting-candidate", "starting-old"}
    <3>1. Advance /\ UNCHANGED <<accepted, helper>>
      BY <1>1, <2>4 DEF Checkpoint, xen
    <3> QED BY <2>1, <2>3, <2>4, <3>1, <1>a
  <2>5. CASE hand.pc \in {"starting-candidate", "starting-old"}
    <3>1. Advance /\ UNCHANGED <<accepted, helper>>
      BY <1>1, <2>5 DEF Checkpoint, xen
    <3>2. hand'.do = hand.do /\ hand'.pc = After(hand.do, hand.pc)
      BY <1>0, <2>1, <2>3, <2>5, <3>1, Advanced
    <3>3. CASE hand.pc = "starting-candidate"
      <4>1. hand.do = "cutover" /\ hand'.pc = "start candidate"
        BY <1>0, <3>2, <3>3, WhoMoves DEF BeforeCandidate, After
      <4>2. ~pending'.old_started /\ pending'.candidate_started
        BY <2>1, <3>3, <4>1 DEF StartedInv
      <4> QED BY <3>2, <4>1, <4>2 DEF StartedInv, BeforeCandidate
    <3>4. CASE hand.pc = "starting-old"
      <4>1. hand.do = "rollback" /\ hand'.pc = "start old"
        BY <1>0, <3>2, <3>4, WhoMoves DEF BeforeOld, After
      <4>2. pending'.old_started /\ accepted' = "old"
        BY <2>1, <3>1, <3>4, <4>1 DEF StartedInv
      <4> QED BY <3>2, <4>1, <4>2 DEF StartedInv, CopyBack, BeforeOld
    <3> QED BY <2>5, <3>3, <3>4
  <2> QED BY <2>2, <2>4, <2>5
<1>2. CASE \/ Unlink \/ Persist \/ RecordAttempt \/ CheckLocal \/ AwaitEnrollment \/ Finalize
           \/ AwaitFinalizer \/ AwaitAcceptance \/ Select \/ Link \/ Complete \/ Start
           \/ FenceHelper
  <2>1. /\ Advance /\ UNCHANGED <<accepted, pending>>
        /\ hand.pc \in {"unlink", "persist off", "persist on", "attempt", "await enrollment",
                        "finalize", "await finalizer", "await acceptance", "select", "link",
                        "complete", "fence finalizer", "fence copy"} \cup Starts \cup Checks
    BY <1>2
    DEF Unlink, Persist, RecordAttempt, CheckLocal, AwaitEnrollment, Finalize, AwaitFinalizer,
        AwaitAcceptance, Select, Link, Complete, Start, FenceHelper, records
  <2> QED BY <2>1, <1>a DEF Turns, CleanupPlaces, Starts, Checks, BeforeOld
<1>3. CASE Commit
  <2>1. /\ Advance /\ hand.pc = "commit" /\ hand.do = "cutover" /\ pending' = pending
    BY <1>0, <1>3, WhoMoves DEF Commit
  <2>2. hand'.do = "cutover" /\ hand'.pc = "accepted"
    <3>1. hand'.do = hand.do /\ hand'.pc = After(hand.do, hand.pc)
      BY <1>0, <2>1, Advanced DEF Turns, CleanupPlaces
    <3> QED BY <2>1, <3>1 DEF After
  <2> QED BY <2>1, <2>2 DEF StartedInv, BeforeCandidate
<1>4. ASSUME NEW d \in Directions, StartCopy(d) \/ EndCopy(d)
      PROVE  StartedInv'
  <2>1. Advance /\ hand.pc \in {CopyOf[d], WaitOf[d]} /\ UNCHANGED <<accepted, pending>>
    BY <1>4 DEF StartCopy, EndCopy, records
  <2>2. hand.pc \in {"copy forward", "wait forward", "copy reverse", "wait reverse"}
    <3>1. CASE d = "forward"
      BY <2>1, <3>1 DEF CopyOf, WaitOf
    <3>2. CASE d = "reverse"
      BY <2>1, <3>2 DEF CopyOf, WaitOf
    <3> QED BY <3>1, <3>2 DEF Directions
  <2> QED BY <2>1, <2>2, <1>a DEF Turns, CleanupPlaces, BeforeOld
<1>5. ASSUME NEW d \in Directions, VerifyCopy(d) PROVE StartedInv'
  <2>1. /\ Advance /\ UNCHANGED <<accepted, pending, helper>> /\ hand.pc = CheckOf[d] /\ helper = None
    <3>1. hand.pc \in {CheckOf[e] : e \in Directions}
      BY <1>5 DEF VerifyCopy
    <3> QED BY <1>5, <3>1 DEF VerifyCopy, Ready, records, xen
  <2>2. CASE d = "forward"
    <3>1. hand.pc = "verify forward"
      BY <2>1, <2>2 DEF CheckOf
    <3> QED BY <2>1, <3>1, <1>a DEF Turns, CleanupPlaces
  <2>3. CASE d = "reverse"
    <3>1. hand.pc = "verify reverse" /\ hand.do = "rollback"
      BY <1>0, <2>1, <2>3, WhoMoves DEF CheckOf
    <3>2. hand'.do = "rollback" /\ hand'.pc = "old-ready"
      <4>1. hand'.do = hand.do /\ hand'.pc = After(hand.do, hand.pc)
        BY <1>0, <2>1, <3>1, Advanced DEF Turns, CleanupPlaces
      <4> QED BY <3>1, <4>1 DEF After
    <3> QED BY <2>1, <3>1, <3>2 DEF StartedInv, CopyBack, AfterOld, Finish
  <2> QED BY <2>2, <2>3 DEF Directions
<1>6. ASSUME NEW s \in Sides, AskShutdown(s) \/ GuestEnds(s) \/ Kill(s)
      PROVE  StartedInv'
  <2>1. UNCHANGED <<accepted, pending, helper>>
    BY <1>6 DEF AskShutdown, GuestEnds, Kill, records
  <2>2. CASE UNCHANGED hand
    BY <2>1, <2>2, <1>u
  <2>3. CASE Kill(s)
    <3>1. Advance /\ hand.pc \in {"kill old", "kill candidate"}
      <4>1. CASE s = "old"
        BY <2>3, <4>1 DEF Kill, KillOf
      <4>2. CASE s = "candidate"
        BY <2>3, <4>2 DEF Kill, KillOf
      <4> QED BY <4>1, <4>2 DEF Sides
    <3> QED BY <2>1, <3>1, <1>a DEF Turns, CleanupPlaces
  <2> QED BY <1>6, <2>2, <2>3 DEF AskShutdown, GuestEnds
<1>7. ASSUME NEW s \in Sides, Stop(s) PROVE StartedInv'
  <2>1. UNCHANGED <<accepted, pending, helper>> /\ hand.pc = StopOf[s]
    BY <1>7 DEF Stop, records
  <2>2. CASE s = "old"
    <3>1. Advance /\ hand.pc = "stop old"
      BY <1>7, <2>2 DEF Stop, StopOf
    <3> QED BY <2>1, <3>1, <1>a DEF Turns, CleanupPlaces
  <2>3. CASE s = "candidate"
    <3>1. hand.pc = "stop candidate" /\ hand.do \in {"cutover", "rollback"} /\ helper = None
      BY <1>0, <1>7, <2>1, <2>3, WhoIsThere, WhenReady DEF Stop, StopOf
    <3>g. ASSUME NEW pc, Goto(pc) PROVE hand'.do = hand.do /\ hand'.pc = pc
      BY <1>0, <3>g DEF HandInv, Hands, Goto
    <3>2. CASE hand.do = "cutover"
      <4>1. Goto("finalizing-candidate")
        BY <1>7, <2>3, <3>2 DEF Stop
      <4>2. hand'.do = "cutover" /\ hand'.pc = "finalizing-candidate"
        BY <3>2, <3>g, <4>1
      <4> QED BY <2>1, <3>1, <3>2, <4>2 DEF StartedInv, BeforeCandidate
    <3>3. CASE hand.do = "rollback"
      <4>1. Goto(IF CopiesBack THEN "fencing-old" ELSE "old-ready")
        BY <1>7, <2>3, <3>3 DEF Stop
      <4>2. hand'.do = "rollback" /\ hand'.pc = (IF CopiesBack THEN "fencing-old" ELSE "old-ready")
        BY <3>3, <3>g, <4>1
      <4>3. CopiesBack' = CopiesBack
        BY <2>1 DEF CopiesBack
      <4> QED BY <2>1, <3>1, <3>3, <4>2, <4>3
          DEF StartedInv, CopyBack, BeforeOld, AfterOld, Finish
    <3> QED BY <3>1, <3>2, <3>3
  <2> QED BY <2>2, <2>3 DEF Sides
<1>8. CASE Unpend \/ EndStatus \/ ProcessKilled \/ PowerLoss
  BY <1>8, <1>i DEF Unpend, EndStatus, ProcessKilled, PowerLoss, Return
<1>9. CASE Decide
  <2>1. accepted \in {"old", "candidate"} /\ UNCHANGED <<accepted, pending>>
    <3>1. accepted # None
      BY <1>9, MovingIsPending DEF Moving
    <3> QED BY <1>0, <1>9, <3>1 DEF Decide, BaselineInv, Sides, records
  <2>2. \/ accepted = "candidate" /\ hand'.do = "settle" /\ hand'.pc = "accepted"
        \/ accepted = "old" /\ hand'.do = "rollback" /\ hand'.pc = "fencing-candidate"
    BY <1>9, <1>n, <2>1 DEF Decide, Run
  <2> QED BY <2>1, <2>2 DEF StartedInv, CopyBack, BeforeOld, AfterOld, Finish
<1>10. CASE StartCutover
  <2>1. /\ pending'.candidate_started = FALSE /\ pending'.old_started = FALSE
        /\ hand'.do = "cutover" /\ hand'.pc = "unlink"
    BY <1>10 DEF StartCutover, Run
  <2> QED BY <2>1 DEF StartedInv, BeforeCandidate
<1>11. CASE SaveProgress \/ Retire
  <2>1. hand.do = "cleanup"
    BY <1>0, <1>11, WhoIsThere DEF SaveProgress, Retire, CleanupPlaces
  <2>2. hand' = Idle \/ hand'.do = hand.do
    <3>1. hand' = Idle \/ \E pc : Goto(pc)
      BY <1>11 DEF SaveProgress, Retire, Return
    <3> QED BY <1>0, <3>1 DEF HandInv, Hands, Goto
  <2> QED BY <2>1, <2>2, <1>d, <1>i
<1>12. CASE \/ Recover \/ SupervisorRecovers \/ TakeStatus \/ StartCleanup \/ BootRecover
            \/ AdoptBaseline
  <2>1. hand = Idle
    BY <1>12
    DEF Recover, SupervisorRecovers, TakeStatus, StartCleanup, BootRecover, AdoptBaseline, LockFree
  <2>2. hand' = hand \/ hand'.do \in {"recover", "status", "cleanup"}
    BY <1>12, Begun DEF AdoptBaseline
  <2> QED BY <2>1, <2>2, <1>d, <1>i
<1>13. CASE Fail
  <2>1. CASE FailCutover \/ FailRecovery
    BY <2>1, <1>d DEF FailCutover, FailRecovery, Run
  <2>2. CASE FailCleanup
    BY <2>2, <1>i DEF FailCleanup, Return
  <2>3. CASE FailFence
    <3>1. hand' = Idle \/ hand'.do = hand.do
      BY <1>0, <2>3 DEF FailFence, Return, HandInv, Hands
    <3> QED BY <2>3, <3>1, <1>i, <1>d DEF FailFence
  <2> QED BY <1>13, <2>1, <2>2, <2>3 DEF Fail
<1>14. CASE \/ UNCHANGED vars \/ SupervisorLoses \/ Controller \/ Guests \/ HelperDies \/ GuestDies
            \/ OtherCommit \/ FenceAutostart \/ Xendomains
  <2>1. UNCHANGED <<hand, pending, accepted>> /\ helper' \in {helper, None}
    <3>1. CASE \/ UNCHANGED vars \/ SupervisorLoses \/ HelperDies \/ GuestDies
               \/ OtherCommit \/ FenceAutostart \/ Xendomains
      BY <3>1
      DEF vars, SupervisorLoses, HelperDies, GuestDies, OtherCommit, FenceAutostart, Xendomains,
          records, xen
    <3>2. CASE Controller
      BY <3>2
      DEF Controller, CheckEnrollment, PublishDevice, PublishEnrollment, CheckAcceptance,
          PublishAcceptance, SignalLost, records, xen
    <3>3. CASE Guests
      BY <3>3 DEF Guests, HelperCopies, FinalizerEnds, GuestEnds, records
    <3> QED BY <1>14, <3>1, <3>2, <3>3
  <2> QED BY <2>1, <1>u
<1> QED
  BY <1>1, <1>2, <1>3, <1>4, <1>5, <1>6, <1>7, <1>8, <1>9, <1>10, <1>11, <1>12, <1>13, <1>14
  DEF RouterNext, Worker, Commands, Guests, Failures, Boot

(* How a command comes to copy, to settle or to roll back, and how to the  *)
(* start of a router.                                                      *)
Arrival ==
  /\ hand'.do \in {"cutover", "settle", "rollback"} => hand'.do = hand.do \/ StartCutover \/ Decide
  /\ hand'.do = "cutover" /\ hand'.pc = "starting-candidate" =>
       hand' = hand \/ VerifyCopy("forward")
  /\ hand'.do = "rollback" /\ hand'.pc \in BeforeOld =>
       \/ VerifyCopy("reverse") \/ Stop("candidate")
       \/ hand.do = "rollback" /\ hand.pc \in BeforeOld

LEMMA Arrives ==
  ASSUME RouterInv, [RouterNext]_vars
  PROVE  Arrival
<1>0. HandInv
  BY DEF RouterInv
<1>d. ASSUME hand'.do \notin {"cutover", "settle", "rollback"} PROVE Arrival
  BY <1>d DEF Arrival
<1>i. ASSUME hand' = Idle PROVE Arrival
  BY <1>i, <1>d DEF Idle
<1>u. ASSUME hand' = hand PROVE Arrival
  BY <1>u DEF Arrival
<1>a. ASSUME Advance, hand.pc # "idle",
             hand.pc \notin Turns \cup {"verify forward", "verify reverse"}
      PROVE  Arrival
  <2>1. /\ hand'.do = hand.do /\ hand'.pc = After(hand.do, hand.pc)
        /\ InProgram(hand.do, hand.pc) /\ hand.pc \notin Turns
    BY <1>0, <1>a, Advanced
  <2>2. LET next == After(hand.do, hand.pc)
        IN  /\ hand.do = "cutover" /\ next = "starting-candidate" => hand.pc = "verify forward"
            /\ hand.do = "rollback" =>
                 (next \in BeforeOld \ {hand.pc} => hand.pc \in BeforeOld \cup {"verify reverse"})
    BY <2>1, Passage
  <2> QED BY <1>a, <2>1, <2>2 DEF Arrival
<1>1. CASE Checkpoint
  <2>1. Phases \cap (Turns \cup {"idle", "verify forward", "verify reverse"}) = {"recovery-failed"}
    BY DEF Phases, CutoverPhases, RecoveryPhases, Turns, CleanupPlaces
  <2>2. CASE hand.pc = "recovery-failed"
    BY <1>1, <2>2, <1>i DEF Checkpoint, Return
  <2>3. CASE hand.pc # "recovery-failed"
    BY <1>1, <2>1, <2>3, <1>a DEF Checkpoint
  <2> QED BY <2>2, <2>3
<1>2. CASE \/ Unlink \/ Persist \/ RecordAttempt \/ CheckLocal \/ AwaitEnrollment \/ Finalize
           \/ AwaitFinalizer \/ AwaitAcceptance \/ Commit \/ Select \/ Link \/ Complete \/ Start
           \/ FenceHelper
  <2>1. /\ Advance
        /\ hand.pc \in {"unlink", "persist off", "persist on", "attempt", "await enrollment",
                        "finalize", "await finalizer", "await acceptance", "commit", "select",
                        "link", "complete", "fence finalizer", "fence copy"} \cup Starts \cup Checks
    BY <1>2
    DEF Unlink, Persist, RecordAttempt, CheckLocal, AwaitEnrollment, Finalize, AwaitFinalizer,
        AwaitAcceptance, Commit, Select, Link, Complete, Start, FenceHelper
  <2> QED BY <2>1, <1>a DEF Turns, CleanupPlaces, Starts, Checks
<1>3. ASSUME NEW d \in Directions, StartCopy(d) \/ EndCopy(d)
      PROVE  Arrival
  <2>1. Advance /\ hand.pc \in {CopyOf[d], WaitOf[d]}
    BY <1>3 DEF StartCopy, EndCopy
  <2>2. hand.pc \in {"copy forward", "wait forward", "copy reverse", "wait reverse"}
    <3>1. CASE d = "forward"
      BY <2>1, <3>1 DEF CopyOf, WaitOf
    <3>2. CASE d = "reverse"
      BY <2>1, <3>2 DEF CopyOf, WaitOf
    <3> QED BY <3>1, <3>2 DEF Directions
  <2> QED BY <2>1, <2>2, <1>a DEF Turns, CleanupPlaces
<1>4. ASSUME NEW d \in Directions, VerifyCopy(d) PROVE Arrival
  <2>1. Advance /\ hand.pc = CheckOf[d]
    BY <1>4 DEF VerifyCopy
  <2>2. hand.pc \in {"verify forward", "verify reverse"}
    <3>1. CASE d = "forward"
      BY <2>1, <3>1 DEF CheckOf
    <3>2. CASE d = "reverse"
      BY <2>1, <3>2 DEF CheckOf
    <3> QED BY <3>1, <3>2 DEF Directions
  <2>3. /\ hand'.do = hand.do /\ hand'.pc = After(hand.do, hand.pc)
    BY <1>0, <2>1, <2>2, Advanced DEF Turns, CleanupPlaces
  <2>4. CASE d = "forward"
    <3>1. hand.pc = "verify forward" /\ hand'.pc = "starting-candidate"
      BY <2>1, <2>3, <2>4 DEF CheckOf, After
    <3>2. hand.do = "cutover"
      BY <1>0, <3>1, WhoMoves DEF BeforeCandidate
    <3> QED BY <1>4, <2>3, <2>4, <3>2 DEF Arrival
  <2>5. CASE d = "reverse"
    <3>1. hand.pc = "verify reverse"
      BY <2>1, <2>5 DEF CheckOf
    <3>2. hand.do = "rollback"
      BY <1>0, <3>1, WhoMoves
    <3> QED BY <1>4, <2>3, <2>5, <3>2 DEF Arrival
  <2> QED BY <2>4, <2>5 DEF Directions
<1>5. ASSUME NEW s \in Sides, AskShutdown(s) \/ GuestEnds(s) \/ Kill(s)
      PROVE  Arrival
  <2>1. CASE Kill(s)
    <3>1. Advance /\ hand.pc \in {"kill old", "kill candidate"}
      <4>1. CASE s = "old"
        BY <2>1, <4>1 DEF Kill, KillOf
      <4>2. CASE s = "candidate"
        BY <2>1, <4>2 DEF Kill, KillOf
      <4> QED BY <4>1, <4>2 DEF Sides
    <3> QED BY <3>1, <1>a DEF Turns, CleanupPlaces
  <2> QED BY <1>5, <2>1, <1>u DEF AskShutdown, GuestEnds
<1>6. ASSUME NEW s \in Sides, Stop(s) PROVE Arrival
  <2>1. CASE s = "old"
    <3>1. Advance /\ hand.pc = "stop old"
      BY <1>6, <2>1 DEF Stop, StopOf
    <3> QED BY <3>1, <1>a DEF Turns, CleanupPlaces
  <2>2. CASE s = "candidate"
    <3>1. hand.do \in {"cutover", "rollback"}
      BY <1>0, <1>6, <2>2, WhoIsThere DEF Stop, StopOf
    <3>2. \/ hand.do = "cutover" /\ Goto("finalizing-candidate")
          \/ hand.do = "rollback" /\ (Goto("fencing-old") \/ Goto("old-ready"))
      BY <1>6, <2>2, <3>1 DEF Stop
    <3>3. /\ hand'.do = hand.do
          /\ hand.do = "cutover" => hand'.pc = "finalizing-candidate"
      BY <1>0, <3>2 DEF HandInv, Hands, Goto
    <3> QED BY <1>6, <2>2, <3>1, <3>3 DEF Arrival
  <2> QED BY <2>1, <2>2 DEF Sides
<1>7. CASE Unpend \/ EndStatus \/ ProcessKilled \/ PowerLoss
  BY <1>7, <1>i DEF Unpend, EndStatus, ProcessKilled, PowerLoss, Return
<1>8. CASE Decide
  <2>1. hand'.pc \in {"accepted", "fencing-candidate"}
    BY <1>8 DEF Decide, Run
  <2> QED BY <1>8, <2>1 DEF Arrival, BeforeOld
<1>9. CASE StartCutover
  <2>1. hand'.do = "cutover" /\ hand'.pc = "unlink"
    BY <1>9 DEF StartCutover, Run
  <2> QED BY <1>9, <2>1 DEF Arrival
<1>10. CASE SaveProgress \/ Retire
  <2>1. hand.do = "cleanup"
    BY <1>0, <1>10, WhoIsThere DEF SaveProgress, Retire, CleanupPlaces
  <2>2. hand' = Idle \/ hand'.do = hand.do
    <3>1. hand' = Idle \/ \E pc : Goto(pc)
      BY <1>10 DEF SaveProgress, Retire, Return
    <3> QED BY <1>0, <3>1 DEF HandInv, Hands, Goto
  <2> QED BY <2>1, <2>2, <1>d, <1>i
<1>11. CASE \/ Recover \/ SupervisorRecovers \/ TakeStatus \/ StartCleanup \/ BootRecover
            \/ AdoptBaseline
  <2>1. hand' = hand \/ hand'.do \in {"recover", "status", "cleanup"}
    BY <1>11, Begun DEF AdoptBaseline
  <2> QED BY <2>1, <1>d, <1>u
<1>12. CASE Fail
  <2>1. CASE FailCutover \/ FailRecovery
    BY <2>1, <1>d DEF FailCutover, FailRecovery, Run
  <2>2. CASE FailCleanup
    BY <2>2, <1>i DEF FailCleanup, Return
  <2>3. CASE FailFence
    <3>1. hand' = Idle \/ hand'.do = hand.do
      BY <1>0, <2>3 DEF FailFence, Return, HandInv, Hands
    <3> QED BY <2>3, <3>1, <1>i, <1>d DEF FailFence
  <2> QED BY <1>12, <2>1, <2>2, <2>3 DEF Fail
<1>13. CASE \/ UNCHANGED vars \/ SupervisorLoses \/ Controller \/ Guests \/ HelperDies \/ GuestDies
            \/ OtherCommit \/ FenceAutostart \/ Xendomains
  <2>1. hand' = hand
    BY <1>13
    DEF vars, SupervisorLoses, Controller, CheckEnrollment, PublishDevice, PublishEnrollment,
        CheckAcceptance, PublishAcceptance, SignalLost, Guests, HelperCopies, FinalizerEnds,
        GuestEnds, HelperDies, GuestDies, OtherCommit, FenceAutostart, Xendomains
  <2> QED BY <2>1, <1>u
<1> QED
  BY <1>1, <1>2, <1>3, <1>4, <1>5, <1>6, <1>7, <1>8, <1>9, <1>10, <1>11, <1>12, <1>13
  DEF RouterNext, Worker, Commands, Guests, Failures, Boot

(* Only a copy, a start and the boot leave a disk behind the newest state, *)
(* and only the last two start a router.                                   *)
LEMMA Grows ==
  ASSUME [RouterNext]_vars, ~Start, ~Xendomains, \A d \in Directions : ~StartCopy(d)
  PROVE  fresh \subseteq fresh' /\ live' \subseteq live
<1>1. CASE \/ UNCHANGED vars \/ Checkpoint \/ Unlink \/ Persist \/ RecordAttempt \/ CheckLocal
           \/ AwaitEnrollment \/ Finalize \/ AwaitFinalizer \/ AwaitAcceptance \/ Commit \/ Select
           \/ Link \/ Complete \/ Unpend \/ FenceHelper \/ Decide \/ SaveProgress \/ Retire
           \/ EndStatus
  BY <1>1
  DEF vars, xen, Checkpoint, Unlink, Persist, RecordAttempt, CheckLocal, AwaitEnrollment, Finalize,
      AwaitFinalizer, AwaitAcceptance, Commit, Select, Link, Complete, Unpend, FenceHelper, Decide,
      SaveProgress, Retire, EndStatus
<1>2. ASSUME NEW s \in Sides, AskShutdown(s) \/ Stop(s) \/ Kill(s)
      PROVE  fresh' = fresh /\ live' \subseteq live
  BY <1>2 DEF AskShutdown, Stop, Kill
<1>3. ASSUME NEW d \in Directions, EndCopy(d) \/ VerifyCopy(d)
      PROVE  fresh' = fresh /\ live' = live
  BY <1>3 DEF EndCopy, VerifyCopy, xen
<1>4. CASE Commands \/ Controller \/ OtherCommit \/ BootRecover \/ FenceAutostart
  BY <1>4
  DEF Commands, xen, AdoptBaseline, StartCutover, Recover, SupervisorRecovers, SupervisorLoses,
      TakeStatus, StartCleanup, Controller, CheckEnrollment, PublishDevice, PublishEnrollment,
      CheckAcceptance, PublishAcceptance, SignalLost, OtherCommit, BootRecover, FenceAutostart
<1>5. CASE Guests \/ Failures
  BY <1>5
  DEF Guests, HelperCopies, FinalizerEnds, GuestEnds, Failures, Fail, HelperDies, GuestDies,
      ProcessKilled, PowerLoss, xen
<1> QED BY <1>1, <1>2, <1>3, <1>4, <1>5 DEF RouterNext, Worker, Boot

(* Receipts change with a copy, and a copy guest starts with one.          *)
LEMMA Copies ==
  ASSUME [RouterNext]_vars, \A d \in Directions : ~StartCopy(d) /\ ~HelperCopies(d)
  PROVE  receipt' = receipt /\ helper' \in {helper, "finalizer", None}
<1>1. CASE \/ UNCHANGED vars \/ Checkpoint \/ Unlink \/ Persist \/ RecordAttempt \/ CheckLocal
           \/ AwaitEnrollment \/ Finalize \/ AwaitFinalizer \/ AwaitAcceptance \/ Commit \/ Select
           \/ Link \/ Complete \/ Unpend \/ FenceHelper \/ Decide \/ SaveProgress \/ Retire
           \/ EndStatus \/ Start
  BY <1>1
  DEF vars, records, xen, Checkpoint, Unlink, Persist, RecordAttempt, CheckLocal, AwaitEnrollment,
      Finalize, AwaitFinalizer, AwaitAcceptance, Commit, Select, Link, Complete, Unpend,
      FenceHelper, Decide, SaveProgress, Retire, EndStatus, Start
<1>2. ASSUME NEW s \in Sides, AskShutdown(s) \/ Stop(s) \/ Kill(s)
      PROVE  receipt' = receipt /\ helper' = helper
  BY <1>2 DEF AskShutdown, Stop, Kill, records
<1>3. ASSUME NEW d \in Directions, EndCopy(d) \/ VerifyCopy(d)
      PROVE  receipt' = receipt /\ helper' \in {helper, None}
  BY <1>3 DEF EndCopy, VerifyCopy, records, xen
<1>4. CASE Commands \/ Controller \/ OtherCommit \/ Boot
  BY <1>4
  DEF Commands, records, xen, AdoptBaseline, StartCutover, Recover, SupervisorRecovers,
      SupervisorLoses, TakeStatus, StartCleanup, Controller, CheckEnrollment, PublishDevice,
      PublishEnrollment, CheckAcceptance, PublishAcceptance, SignalLost, OtherCommit, Boot,
      BootRecover, FenceAutostart, Xendomains
<1>5. CASE Guests \/ Failures
  BY <1>5
  DEF Guests, FinalizerEnds, GuestEnds, Failures, Fail, HelperDies, GuestDies,
      ProcessKilled, PowerLoss, records, xen
<1> QED BY <1>1, <1>2, <1>3, <1>4, <1>5 DEF RouterNext, Worker

(* What a copy guest needs and takes when it starts.                       *)
LEMMA CopyStarts ==
  ASSUME RouterInv, StartedInv, NEW d \in Directions, StartCopy(d)
  PROVE  /\ pending \in Pending /\ pending # None /\ live = {}
         /\ UNCHANGED <<accepted, pending, complete, live>>
         /\ receipt' = receipt \ {d} /\ helper' = d
         /\ hand'.do = hand.do
         /\ d = "forward" => /\ hand.do = "cutover" /\ ~pending.candidate_started
                             /\ ~pending.old_started /\ fresh' = fresh \ {"candidate"}
                             /\ hand'.pc = "wait forward"
         /\ d = "reverse" => /\ hand.do = "rollback" /\ accepted = "old"
                             /\ CopiesBack /\ fresh' = fresh \ {"old"}
                             /\ hand'.pc = "wait reverse"
<1>1. HandInv /\ None \notin Pending
  BY ConstantsAssumption DEF RouterInv
<1>2. pending \in Pending
  BY MovingIsPending DEF Moving
<1>3. /\ hand.pc = CopyOf[d] /\ Advance
      /\ UNCHANGED <<accepted, pending, complete, live>>
      /\ receipt' = receipt \ {d} /\ helper' = d /\ fresh' = fresh \ {Target[d]}
  BY DEF StartCopy
<1>4. CASE d = "forward"
  <2>1. hand.pc = "copy forward" /\ Target[d] = "candidate"
    BY <1>3, <1>4 DEF CopyOf, Target
  <2>2. hand.do = "cutover" /\ live = {}
    BY <1>1, <2>1, WhoMoves, WhenReady DEF StartCopy, BeforeCandidate
  <2>3. hand'.do = hand.do /\ hand'.pc = "wait forward"
    <3>1. hand'.do = hand.do /\ hand'.pc = After(hand.do, hand.pc)
      BY <1>1, <1>3, <2>1, Advanced DEF Turns, CleanupPlaces
    <3> QED BY <2>1, <3>1 DEF After
  <2>4. ~pending.candidate_started /\ ~pending.old_started
    BY <2>1, <2>2 DEF StartedInv, BeforeCandidate
  <2> QED BY <1>1, <1>2, <1>3, <1>4, <2>1, <2>2, <2>3, <2>4
<1>5. CASE d = "reverse"
  <2>1. hand.pc = "copy reverse" /\ Target[d] = "old"
    BY <1>3, <1>5 DEF CopyOf, Target
  <2>2. hand.do = "rollback" /\ live = {}
    BY <1>1, <2>1, WhoMoves, WhenReady DEF StartCopy, CopyBack
  <2>3. hand'.do = hand.do /\ hand'.pc = "wait reverse"
    <3>1. hand'.do = hand.do /\ hand'.pc = After(hand.do, hand.pc)
      BY <1>1, <1>3, <2>1, Advanced DEF Turns, CleanupPlaces
    <3> QED BY <2>1, <3>1 DEF After
  <2>4. CopiesBack /\ accepted = "old"
    BY <2>1, <2>2 DEF StartedInv, CopyBack
  <2> QED BY <1>1, <1>2, <1>3, <1>5, <2>1, <2>2, <2>3, <2>4
<1> QED BY <1>4, <1>5 DEF Directions

(* The router that a command starts is the one that may have served.       *)
LEMMA StartsServed ==
  ASSUME RouterInv, RecordInv, StartedInv, hand.pc \in Starts
  PROVE  /\ pending \in Pending /\ pending # None
         /\ \/ /\ hand.do \in {"cutover", "settle"} /\ Side = "candidate"
               /\ pending.candidate_started /\ ~pending.old_started
            \/ hand.do = "rollback" /\ Side = "old" /\ pending.old_started
<1>1. HandInv /\ None \notin Pending /\ FinishInv
  BY ConstantsAssumption DEF RouterInv
<1>2. \/ hand.do = "cutover" /\ hand.pc \in {"start candidate", "restart candidate"}
      \/ hand.do = "settle" /\ hand.pc = "start candidate"
      \/ hand.do = "rollback" /\ hand.pc = "start old"
  BY <1>1, WhoMoves DEF Starts
<1>3. pending \in Pending /\ pending # None
  <2>1. hand.do \in Movers
    BY <1>2 DEF Movers, Recovering
  <2> QED BY <1>1, <2>1 DEF RouterInv, PendingInv, TypeInv, RecordType
<1>4. CASE hand.do = "cutover"
  <2>1. hand.pc \notin BeforeCandidate
    BY <1>2, <1>4 DEF BeforeCandidate
  <2>2. pending.candidate_started \in BOOLEAN
    BY <1>3 DEF Pending
  <2> QED BY <1>3, <1>4, <2>1, <2>2 DEF StartedInv, Side
<1>5. CASE hand.do = "settle"
  <2>1. accepted = "candidate" /\ pending.phase = "accepted"
    BY <1>1, <1>2, <1>5 DEF StartedInv, FinishInv
  <2>2. pending.candidate_started /\ ~pending.old_started
    BY <1>3, <2>1 DEF RecordInv, Valid, OldPhases, RecoveryPhases
  <2> QED BY <1>3, <1>5, <2>2 DEF Side
<1>6. CASE hand.do = "rollback"
  BY <1>2, <1>3, <1>6 DEF StartedInv, AfterOld, Side
<1> QED BY <1>2, <1>4, <1>5, <1>6

(* The start of a router, and of the one the boot finds selected.          *)
LEMMA BootServes ==
  ASSUME RouterInv, NoWayBack, RecordInv, mode = "xendomains", conf.auto
  PROVE  pending = None /\ conf.gen = Selected
BY DEF RecordInv, NoWayBack, Selected

(* Receipts and copy guests stay with their operation.                     *)
LEMMA CopiesNext ==
  ASSUME RouterInv, NoWayBack, FreshInv, StartedInv', [RouterNext]_vars
  PROVE  CopiesInv'
<1>0. HandInv /\ PendingInv /\ BaselineInv /\ RecordInv /\ StartedInv /\ CopiesInv /\ ServedInv
  BY DEF RouterInv, FreshInv
<1>n. None \notin Pending /\ None \notin Directions /\ None # "reverse" /\ None # "old"
      /\ "finalizer" \notin Directions
  BY ConstantsAssumption DEF Directions, Routers, Sides
<1>r. Arrival
  BY Arrives
(* A cutover that has not started the candidate had not started it before. *)
<1>e. ASSUME pending' = pending \/ Checkpoint, ~StartCutover, ~Decide,
             hand'.do = "cutover", hand'.pc \in BeforeCandidate
      PROVE  hand.do = "cutover" /\ hand.pc \in BeforeCandidate
  <2>1. hand.do = "cutover"
    BY <1>e, <1>r DEF Arrival
  <2>2. ~pending'.candidate_started
    BY <1>e DEF StartedInv
  <2>3. ~pending.candidate_started
    <3>1. CASE pending' = pending
      BY <2>2, <3>1
    <3>2. CASE Checkpoint
      BY <1>0, <2>2, <3>2, Written
    <3> QED BY <1>e, <3>1, <3>2
  <2> QED BY <1>0, <2>1, <2>3 DEF StartedInv
(* Neither a receipt nor a guest is new, and no disk falls behind.         *)
<1>k. ASSUME receipt' = receipt, helper' \in {helper, "finalizer", None}, fresh \subseteq fresh',
             UNCHANGED <<accepted, pending>>, complete' = complete \/ complete' # None,
             ~StartCutover, ~Decide
      PROVE  CopiesInv'
  <2>1. hand'.do \in {"cutover", "settle"} => hand'.do = hand.do
    BY <1>k, <1>r DEF Arrival
  <2>2. hand'.do = "cutover" /\ hand'.pc \in BeforeCandidate => hand.pc \in BeforeCandidate
    BY <1>k, <1>e
  <2>3. CopiesBack' = CopiesBack
    BY <1>k DEF CopiesBack
  <2>4. helper' \in Directions => helper' = helper
    BY <1>k, <1>n
  <2>5. helper' = "reverse" => helper = "reverse"
    BY <1>k, <1>n
  <2> QED BY <1>0, <1>k, <2>1, <2>2, <2>3, <2>4, <2>5 DEF CopiesInv
<1>1. CASE Checkpoint
  <2>1. UNCHANGED <<accepted, complete, receipt, helper, fresh>>
    BY <1>1 DEF Checkpoint, xen
  <2>2. pending' # None /\ pending # None
    BY <1>0, <1>1, Written
  <2>3. hand'.do \in {"cutover", "settle"} => hand'.do = hand.do
    <3>1. ~Decide /\ ~StartCutover
      <4>1. hand.pc \in Phases
        BY <1>1 DEF Checkpoint
      <4>2. hand # Idle /\ hand.pc # "decide"
        BY <4>1, Held DEF Phases, CutoverPhases, RecoveryPhases
      <4> QED BY <4>2 DEF Decide, StartCutover, LockFree
    <3> QED BY <3>1, <1>r DEF Arrival
  <2>4. hand'.do = "cutover" /\ hand'.pc \in BeforeCandidate => hand.pc \in BeforeCandidate
    <3>1. ~Decide /\ ~StartCutover
      <4>1. hand.pc \in Phases
        BY <1>1 DEF Checkpoint
      <4>2. hand # Idle /\ hand.pc # "decide"
        BY <4>1, Held DEF Phases, CutoverPhases, RecoveryPhases
      <4> QED BY <4>2 DEF Decide, StartCutover, LockFree
    <3> QED BY <1>1, <3>1, <1>e
  <2>5. helper = "reverse" => CopiesBack'
    <3> SUFFICES ASSUME helper = "reverse" PROVE CopiesBack'
      OBVIOUS
    <3>1. CopiesBack
      BY <1>0 DEF CopiesInv
    <3>2. hand.pc # "starting-old"
      <4>1. hand.pc = "starting-old" => hand.do = "rollback" /\ hand.pc \in BeforeOld
        BY <1>0, WhoMoves DEF BeforeOld
      <4> QED BY <1>0, <1>n, <4>1 DEF StartedInv
    <3>3. /\ pending'.old_started = pending.old_started
          /\ pending.candidate_started => pending'.candidate_started
      BY <1>0, <1>1, <3>2, Written
    <3> QED BY <3>1, <3>3 DEF CopiesBack
  <2> QED BY <1>0, <2>1, <2>2, <2>3, <2>4, <2>5 DEF CopiesInv
<1>2. CASE Unpend
  <2>1. /\ hand' = Idle /\ pending' = None /\ hand.pc = "unpend"
        /\ UNCHANGED <<accepted, complete, receipt, helper, fresh>>
    BY <1>2 DEF Unpend, Return, xen
  <2>2. helper = None /\ complete # None
    <3>1. hand.pc \in Finish \ {"select"} /\ hand.do \in Movers
      BY <1>0, <2>1, WhoIsThere DEF Finish
    <3> QED BY <1>0, <2>1, <3>1 DEF RouterInv, HelperGone, FinishInv, PendingInv
  <2>3. hand'.do = "none"
    BY <2>1 DEF Idle
  <2> QED BY <1>0, <1>n, <2>1, <2>2, <2>3 DEF CopiesInv
<1>3. CASE Commit
  <2>1. /\ hand.do = "cutover" /\ hand.pc \notin BeforeCandidate /\ pending # None
        /\ UNCHANGED <<pending, receipt, helper, fresh>>
    <3>1. hand.pc = "commit" /\ UNCHANGED <<pending, receipt, helper, fresh>>
      BY <1>3 DEF Commit, xen
    <3>2. hand.do = "cutover"
      BY <1>0, <3>1, WhoMoves
    <3> QED BY <1>0, <3>1, <3>2 DEF PendingInv, Movers, BeforeCandidate
  <2>2. ~(hand'.do = "cutover" /\ hand'.pc \in BeforeCandidate)
    <3>1. ~Decide /\ ~StartCutover
      <4>1. hand # Idle /\ hand.pc = "commit"
        BY <1>3, Held DEF Commit
      <4> QED BY <4>1 DEF Decide, StartCutover, LockFree
    <3> QED BY <2>1, <3>1, <1>e
  <2>3. "reverse" \notin receipt /\ helper # "reverse"
    BY <1>0, <2>1 DEF CopiesInv
  <2> QED BY <2>1, <2>2, <2>3 DEF CopiesInv
<1>4. CASE StartCutover \/ AdoptBaseline
  <2>1. pending = None /\ complete = None /\ UNCHANGED <<receipt, helper>>
    <3>1. CASE StartCutover
      BY <3>1 DEF StartCutover, xen
    <3>2. CASE AdoptBaseline
      BY <1>0, <3>2 DEF AdoptBaseline, BaselineInv, xen
    <3> QED BY <1>4, <3>1, <3>2
  <2>2. receipt' = {} /\ helper' \notin Directions
    BY <1>0, <2>1 DEF CopiesInv
  <2> QED BY <2>2 DEF CopiesInv, Directions
<1>5. CASE Decide
  <2>1. UNCHANGED <<accepted, pending, complete, receipt, helper, fresh>>
    BY <1>5 DEF Decide, records, xen
  <2>2. \/ accepted = "candidate" /\ hand'.do = "settle"
        \/ hand'.do = "rollback"
    BY <1>5 DEF Decide, Run
  <2>3. CopiesBack' = CopiesBack
    BY <2>1 DEF CopiesBack
  <2> QED BY <1>0, <2>1, <2>2, <2>3 DEF CopiesInv
<1>6. ASSUME NEW d \in Directions, StartCopy(d) PROVE CopiesInv'
  <2>1. /\ pending # None
        /\ UNCHANGED <<accepted, pending, complete>>
        /\ receipt' = receipt \ {d} /\ helper' = d
        /\ hand'.do = hand.do
        /\ d = "forward" => hand.do = "cutover"
        /\ d = "reverse" => hand.do = "rollback" /\ accepted = "old" /\ CopiesBack
    BY <1>0, <1>6, CopyStarts
  <2>2. CopiesBack' = CopiesBack
    BY <2>1 DEF CopiesBack
  <2>3. CASE d = "forward"
    BY <1>0, <2>1, <2>3 DEF CopiesInv
  <2>4. CASE d = "reverse"
    BY <1>0, <2>1, <2>2, <2>4 DEF CopiesInv
  <2> QED BY <2>3, <2>4 DEF Directions
<1>7. ASSUME NEW d \in Directions, HelperCopies(d) PROVE CopiesInv'
  <2>1. /\ helper = d /\ receipt' = receipt \cup {d}
        /\ UNCHANGED <<accepted, pending, complete, helper, hand>>
        /\ fresh \subseteq fresh'
        /\ Source[d] \in fresh => Target[d] \in fresh'
    BY <1>7 DEF HelperCopies
  <2>2. CopiesBack' = CopiesBack
    BY <2>1 DEF CopiesBack
  <2>3. CASE d = "forward"
    <3>1. hand.do = "cutover" /\ hand.pc \in BeforeCandidate => "candidate" \in fresh'
      <4> SUFFICES ASSUME hand.do = "cutover", hand.pc \in BeforeCandidate
                   PROVE  "candidate" \in fresh'
        OBVIOUS
      <4>1. pending # None /\ ~pending.candidate_started
        BY <1>0 DEF PendingInv, Movers, StartedInv
      <4>2. "old" \in fresh
        BY <1>0, <4>1 DEF ServedInv
      <4> QED BY <2>1, <2>3, <4>2 DEF Source, Target
    <3> QED BY <1>0, <2>1, <2>2, <2>3, <3>1 DEF CopiesInv
  <2>4. CASE d = "reverse"
    <3>1. pending # None /\ CopiesBack /\ accepted = "old" /\ hand.do \notin {"cutover", "settle"}
      BY <1>0, <2>1, <2>4 DEF CopiesInv
    <3>2. "old" \in fresh'
      <4>1. "candidate" \in fresh
        BY <1>0, <3>1 DEF ServedInv, CopiesBack
      <4> QED BY <2>1, <2>4, <4>1 DEF Source, Target
    <3> QED BY <1>0, <2>1, <2>2, <2>4, <3>1, <3>2 DEF CopiesInv
  <2> QED BY <2>3, <2>4 DEF Directions
<1>8. CASE Start
  <2>1. /\ hand.pc \in Starts /\ fresh' = {Side}
        /\ UNCHANGED <<accepted, pending, complete, receipt, helper>>
    BY <1>8 DEF Start, records
  <2>2. ~Decide /\ ~StartCutover
    <3>1. hand # Idle /\ hand.pc # "decide"
      BY <2>1, Held DEF Starts
    <3> QED BY <3>1 DEF Decide, StartCutover, LockFree
  <2>3. hand'.do \in {"cutover", "settle"} => hand'.do = hand.do
    BY <2>2, <1>r DEF Arrival
  <2>4. ~(hand'.do = "cutover" /\ hand'.pc \in BeforeCandidate)
    <3>1. hand.pc \notin BeforeCandidate
      BY <2>1 DEF Starts, BeforeCandidate
    <3> QED BY <2>1, <2>2, <3>1, <1>e
  <2>5. "reverse" \in receipt => Side = "old"
    BY <1>0, <2>1, StartsServed DEF CopiesInv
  <2>6. CopiesBack' = CopiesBack
    BY <2>1 DEF CopiesBack
  <2> QED BY <1>0, <2>1, <2>3, <2>4, <2>5, <2>6 DEF CopiesInv
<1>9. CASE Xendomains
  <2>1. /\ UNCHANGED <<accepted, pending, complete, receipt, helper, hand>>
        /\ fresh' = fresh \/ (conf.auto /\ mode = "xendomains" /\ fresh' = {conf.gen})
    BY <1>9 DEF Xendomains, records
  <2>2. hand.do = "none"
    BY <1>9 DEF Xendomains, RouterInv, HelperGone, Idle
  <2>3. "reverse" \in receipt => "old" \in fresh'
    <3>1. "reverse" \in receipt => accepted = "old" /\ "old" \in fresh
      BY <1>0 DEF CopiesInv
    <3>2. accepted = "old" => Selected = "old"
      BY DEF Selected
    <3> QED BY <1>0, <2>1, <3>1, <3>2, BootServes
  <2>4. CopiesBack' = CopiesBack
    BY <2>1 DEF CopiesBack
  <2> QED BY <1>0, <2>1, <2>2, <2>3, <2>4 DEF CopiesInv
<1>10. CASE \/ UNCHANGED vars
            \/ /\ RouterNext /\ ~Checkpoint /\ ~Unpend /\ ~Commit /\ ~StartCutover /\ ~AdoptBaseline
               /\ ~Decide /\ ~Start /\ ~Xendomains
               /\ \A d \in Directions : ~StartCopy(d) /\ ~HelperCopies(d)
  <2>1. CASE UNCHANGED vars
    <3>1. UNCHANGED <<hand, accepted, pending, complete, receipt, helper, fresh>>
      BY <2>1 DEF vars, records, xen
    <3> QED BY <1>0, <3>1 DEF CopiesInv, CopiesBack
  <2>2. CASE ~UNCHANGED vars
    <3>1. receipt' = receipt /\ helper' \in {helper, "finalizer", None} /\ fresh \subseteq fresh'
      BY <1>10, <2>2, Copies, Grows
    <3>2. CASE Moving
      <4>1. /\ UNCHANGED <<accepted, pending>>
            /\ complete' = complete \/ (Complete /\ complete' = pending /\ pending # None)
        <5>1. UNCHANGED <<accepted, pending>> /\ (complete' = complete \/ Complete)
          BY <1>10, <2>2, <3>2, MovingKeeps
        <5>2. pending # None
          BY <1>n, <3>2, MovingIsPending
        <5>3. Complete => complete' = pending
          BY DEF Complete
        <5> QED BY <5>1, <5>2, <5>3
      <4> QED BY <1>10, <2>2, <3>1, <4>1, <1>k
    <3>3. CASE ~Moving
      <4>1. UNCHANGED <<accepted, pending, complete>>
        BY <1>10, <2>2, <3>3, OthersKeep
      <4> QED BY <1>10, <2>2, <3>1, <4>1, <1>k
    <3> QED BY <3>2, <3>3
  <2> QED BY <2>1, <2>2
<1> QED BY <1>1, <1>2, <1>3, <1>4, <1>5, <1>6, <1>7, <1>8, <1>9, <1>10

(* The newest state is where the selected, the started or the restored     *)
(* router finds it.                                                        *)
LEMMA ServedNext ==
  ASSUME RouterInv, NoWayBack, FreshInv, [RouterNext]_vars
  PROVE  ServedInv'
<1>0. HandInv /\ PendingInv /\ BaselineInv /\ RecordInv /\ StartedInv /\ CopiesInv /\ ServedInv
  BY DEF RouterInv, FreshInv
<1>n. None \notin Pending /\ None # "candidate"
  BY ConstantsAssumption DEF Routers, Sides
<1>r. Arrival
  BY Arrives
(* The places of a start are reached with the copy in place.               *)
<1>p. ASSUME fresh \subseteq fresh'
      PROVE  /\ hand'.do = "cutover" /\ hand'.pc = "starting-candidate" => "candidate" \in fresh'
             /\ hand'.do = "rollback" /\ hand'.pc \in BeforeOld => "old" \in fresh'
  <2>1. ASSUME hand'.do = "cutover", hand'.pc = "starting-candidate" PROVE "candidate" \in fresh
    <3>1. CASE hand' = hand
      BY <1>0, <2>1, <3>1 DEF ServedInv
    <3>2. CASE VerifyCopy("forward")
      <4>1. hand.pc = "verify forward" /\ Ready
        BY <3>2 DEF VerifyCopy, CheckOf
      <4>2. "forward" \in receipt
        <5>1. hand.pc \in {CheckOf[d] : d \in Directions}
          BY <3>2 DEF VerifyCopy, Directions
        <5>2. PICK d \in receipt : hand.pc = CheckOf[d]
          BY <4>1, <5>1 DEF Ready
        <5>3. d \in Directions
          BY DEF RouterInv, TypeInv, RecordType
        <5>4. d # "reverse"
          <6>1. CheckOf["reverse"] = "verify reverse"
            BY DEF CheckOf
          <6> QED BY <4>1, <5>2, <6>1
        <5> QED BY <5>2, <5>3, <5>4 DEF Directions
      <4>3. hand.do = "cutover" /\ hand.pc \in BeforeCandidate
        BY <1>0, <4>1, WhoMoves DEF BeforeCandidate
      <4> QED BY <1>0, <4>2, <4>3 DEF CopiesInv
    <3> QED BY <1>r, <2>1, <3>1, <3>2 DEF Arrival
  <2>2. ASSUME hand'.do = "rollback", hand'.pc \in BeforeOld PROVE "old" \in fresh
    <3>1. CASE VerifyCopy("reverse")
      <4>1. hand.pc = "verify reverse" /\ Ready
        BY <3>1 DEF VerifyCopy, CheckOf
      <4>2. "reverse" \in receipt
        <5>1. hand.pc \in {CheckOf[d] : d \in Directions}
          BY <3>1 DEF VerifyCopy, Directions
        <5>2. PICK d \in receipt : hand.pc = CheckOf[d]
          BY <4>1, <5>1 DEF Ready
        <5>3. d \in Directions
          BY DEF RouterInv, TypeInv, RecordType
        <5>4. d # "forward"
          <6>1. CheckOf["forward"] = "verify forward"
            BY DEF CheckOf
          <6> QED BY <4>1, <5>2, <6>1
        <5> QED BY <5>2, <5>3, <5>4 DEF Directions
      <4> QED BY <1>0, <4>2 DEF CopiesInv
    <3>2. CASE Stop("candidate")
      <4>1. hand.pc = "stop candidate"
        BY <3>2 DEF Stop, StopOf
      <4>2. hand.do \in {"cutover", "rollback"}
        BY <1>0, <4>1, WhoIsThere
      <4>3. hand.do = "rollback" /\ ~CopiesBack
        <5>1. \/ hand.do = "cutover" /\ Goto("finalizing-candidate")
              \/ hand.do = "rollback" /\ Goto(IF CopiesBack THEN "fencing-old" ELSE "old-ready")
          BY <3>2, <4>2 DEF Stop
        <5>2. hand'.pc # "finalizing-candidate" /\ hand'.pc # "fencing-old"
          BY <2>2 DEF BeforeOld
        <5> QED BY <1>0, <5>1, <5>2 DEF Goto, HandInv, Hands
      <4>4. pending # None
        BY <1>0, <4>3 DEF PendingInv, Movers, Recovering
      <4> QED BY <1>0, <4>3, <4>4 DEF ServedInv, CopiesBack
    <3>3. CASE hand.do = "rollback" /\ hand.pc \in BeforeOld
      BY <1>0, <3>3 DEF ServedInv
    <3> QED BY <1>r, <2>2, <3>1, <3>2, <3>3 DEF Arrival
  <2> QED BY <1>p, <2>1, <2>2
(* From a place that no start follows, none is reached.                    *)
<1>q. ASSUME hand' # hand,
             hand.pc \notin {"verify forward", "verify reverse", "stop candidate"} \cup BeforeOld
      PROVE  /\ ~(hand'.do = "cutover" /\ hand'.pc = "starting-candidate")
             /\ ~(hand'.do = "rollback" /\ hand'.pc \in BeforeOld)
  <2>1. ~VerifyCopy("forward") /\ ~VerifyCopy("reverse") /\ ~Stop("candidate")
    BY <1>q DEF VerifyCopy, Stop, CheckOf, StopOf
  <2> QED BY <1>q, <1>r, <2>1 DEF Arrival
<1>k. ASSUME UNCHANGED <<accepted, pending>>, fresh \subseteq fresh', live' \subseteq live
      PROVE  ServedInv'
  <2>1. Selected' = Selected
    BY <1>k DEF Selected
  <2>2. /\ pending' = None => Selected' \in fresh'
        /\ pending' # None =>
             /\ ~pending'.candidate_started => "old" \in fresh'
             /\ pending'.candidate_started /\ ~pending'.old_started => "candidate" \in fresh'
             /\ pending'.old_started => "old" \in fresh'
        /\ live' \subseteq fresh'
    BY <1>0, <1>k, <2>1 DEF ServedInv
  <2> QED BY <1>k, <1>p, <2>2 DEF ServedInv
<1>1. CASE Checkpoint
  <2>1. UNCHANGED <<accepted, live, fresh>>
    BY <1>1 DEF Checkpoint, xen
  <2>2. /\ pending \in Pending /\ pending' \in Pending /\ pending # None /\ pending' # None
        /\ hand.pc # "starting-candidate" =>
             pending'.candidate_started = pending.candidate_started
        /\ hand.pc = "starting-candidate" => pending'.candidate_started
        /\ hand.pc # "starting-old" => pending'.old_started = pending.old_started
        /\ hand.pc = "starting-old" => pending'.old_started
    BY <1>0, <1>1, Written
  <2>3. hand.pc = "starting-candidate" => "candidate" \in fresh /\ ~pending.old_started
    <3>1. hand.pc = "starting-candidate" => hand.do = "cutover"
      BY <1>0, WhoMoves DEF BeforeCandidate
    <3> QED BY <1>0, <3>1 DEF ServedInv, StartedInv
  <2>4. hand.pc = "starting-old" => "old" \in fresh
    <3>1. hand.pc = "starting-old" => hand.do = "rollback" /\ hand.pc \in BeforeOld
      BY <1>0, WhoMoves DEF BeforeOld
    <3> QED BY <1>0, <3>1 DEF ServedInv
  <2>5. /\ ~pending'.candidate_started => "old" \in fresh'
        /\ pending'.candidate_started /\ ~pending'.old_started => "candidate" \in fresh'
        /\ pending'.old_started => "old" \in fresh'
    <3>1. CASE hand.pc = "starting-candidate"
      BY <1>0, <2>1, <2>2, <2>3, <3>1 DEF ServedInv
    <3>2. CASE hand.pc = "starting-old"
      BY <1>0, <2>1, <2>2, <2>4, <3>2 DEF ServedInv
    <3>3. CASE hand.pc \notin {"starting-candidate", "starting-old"}
      BY <1>0, <2>1, <2>2, <3>3 DEF ServedInv
    <3> QED BY <3>1, <3>2, <3>3
  <2>6. live' \subseteq fresh'
    BY <1>0, <2>1 DEF ServedInv
  <2> QED BY <2>1, <2>2, <2>5, <2>6, <1>p DEF ServedInv
<1>2. CASE Unpend
  <2>1. /\ hand' = Idle /\ pending' = None /\ hand.pc = "unpend"
        /\ UNCHANGED <<accepted, live, fresh>>
    BY <1>2 DEF Unpend, Return, xen
  <2>2. /\ pending \in Pending /\ pending # None /\ accepted = Side
        /\ pending.phase = "accepted" <=> hand.do # "rollback"
    <3>1. hand.pc \in Finish \ {"select"}
      BY <2>1 DEF Finish
    <3> QED BY <1>n, <1>2, <3>1, MovingIsPending DEF RouterInv, FinishInv, Moving
  <2>3. Selected \in fresh
    <3>1. CASE hand.do = "rollback"
      <4>1. pending.old_started
        BY <1>0, <2>1, <3>1 DEF StartedInv, AfterOld, Finish
      <4>2. Selected = "old"
        BY <2>2, <3>1 DEF Side, Selected
      <4> QED BY <1>0, <2>2, <4>1, <4>2 DEF ServedInv
    <3>2. CASE hand.do # "rollback"
      <4>1. accepted = "candidate" /\ pending.phase = "accepted"
        BY <2>2, <3>2 DEF Side
      <4>2. pending.candidate_started /\ ~pending.old_started
        BY <1>0, <2>2, <4>1 DEF RecordInv, Valid, OldPhases, RecoveryPhases
      <4> QED BY <1>0, <2>2, <4>1, <4>2 DEF ServedInv, Selected
    <3> QED BY <3>1, <3>2
  <2>4. Selected' = Selected /\ hand'.do = "none"
    BY <2>1 DEF Selected, Idle
  <2> QED BY <1>0, <2>1, <2>3, <2>4 DEF ServedInv
<1>3. CASE Commit
  <2>1. hand.pc = "commit" /\ UNCHANGED <<pending, live, fresh>>
    BY <1>3 DEF Commit, xen
  <2>2. pending # None
    BY <1>n, <1>3, MovingIsPending DEF Moving
  <2> QED BY <1>0, <2>1, <2>2, <1>p DEF ServedInv
<1>4. CASE AdoptBaseline
  <2>1. accepted = None /\ accepted' = "old" /\ UNCHANGED <<pending, live, fresh, hand>>
    BY <1>4 DEF AdoptBaseline, xen
  <2>2. Selected' = Selected
    BY <1>n, <2>1 DEF Selected
  <2> QED BY <1>0, <2>1, <2>2 DEF ServedInv
<1>5. CASE StartCutover
  <2>1. /\ pending'.candidate_started = FALSE /\ pending'.old_started = FALSE
        /\ hand'.do = "cutover" /\ hand'.pc = "unlink"
        /\ pending = None /\ accepted = "old" /\ UNCHANGED <<accepted, live, fresh>>
    BY <1>5 DEF StartCutover, Run, xen
  <2>2. "old" \in fresh
    BY <1>0, <2>1 DEF ServedInv, Selected
  <2>3. pending' # None
    <3>1. pending' \in Pending
      BY <1>5 DEF StartCutover, Pending, Phases, CutoverPhases
    <3> QED BY <1>n, <3>1
  <2> QED BY <1>0, <2>1, <2>2, <2>3 DEF ServedInv
<1>6. ASSUME NEW d \in Directions, StartCopy(d) PROVE ServedInv'
  <2>1. /\ pending # None /\ live = {} /\ UNCHANGED <<accepted, pending, live>>
        /\ hand'.pc \in {"wait forward", "wait reverse"}
        /\ \/ /\ ~pending.candidate_started /\ ~pending.old_started
              /\ fresh' = fresh \ {"candidate"}
           \/ CopiesBack /\ fresh' = fresh \ {"old"}
    <3>1. CASE d = "forward"
      BY <1>0, <1>6, <3>1, CopyStarts
    <3>2. CASE d = "reverse"
      BY <1>0, <1>6, <3>2, CopyStarts
    <3> QED BY <3>1, <3>2 DEF Directions
  <2> QED BY <1>0, <2>1 DEF ServedInv, CopiesBack, BeforeOld
<1>7. CASE Start
  <2>1. /\ hand.pc \in Starts /\ live' = {Side} /\ fresh' = {Side}
        /\ UNCHANGED <<accepted, pending>>
    BY <1>7 DEF Start, records
  <2>2. /\ pending # None
        /\ \/ Side = "candidate" /\ pending.candidate_started /\ ~pending.old_started
           \/ Side = "old" /\ pending.old_started
    BY <1>0, <2>1, StartsServed
  <2>3. /\ ~(hand'.do = "cutover" /\ hand'.pc = "starting-candidate")
        /\ ~(hand'.do = "rollback" /\ hand'.pc \in BeforeOld)
    <3>1. hand' # hand
      <4>1. Advance /\ hand.pc \notin Turns \cup {"idle"}
        BY <1>7, <2>1 DEF Start, Starts, Turns, CleanupPlaces, Finish
      <4>2. hand'.pc = After(hand.do, hand.pc)
        BY <1>0, <4>1, Advanced
      <4> QED BY <2>1, <4>2 DEF Starts, After
    <3>2. hand.pc \notin {"verify forward", "verify reverse", "stop candidate"} \cup BeforeOld
      BY <2>1 DEF Starts, BeforeOld
    <3> QED BY <3>1, <3>2, <1>q
  <2> QED BY <2>1, <2>2, <2>3 DEF ServedInv
<1>8. CASE Xendomains
  <2>1. hand' = Idle /\ UNCHANGED <<accepted, pending>>
    BY <1>8 DEF Xendomains, RouterInv, HelperGone, records
  <2>2. CASE conf.auto /\ live = {}
    <3>1. live' = {conf.gen} /\ fresh' = {conf.gen} /\ mode = "xendomains"
      BY <1>8, <2>2 DEF Xendomains
    <3>2. pending = None /\ conf.gen = Selected
      BY <1>0, <2>2, <3>1, BootServes
    <3>3. Selected' = Selected /\ hand'.do = "none"
      BY <2>1 DEF Selected, Idle
    <3> QED BY <2>1, <3>1, <3>2, <3>3 DEF ServedInv
  <2>3. CASE ~(conf.auto /\ live = {})
    <3>1. UNCHANGED <<live, fresh>>
      BY <1>8, <2>3 DEF Xendomains
    <3> QED BY <2>1, <3>1, <1>k
  <2> QED BY <2>2, <2>3
<1>9. CASE UNCHANGED vars
  BY <1>9, <1>k DEF vars, records, xen
<1>10. CASE /\ RouterNext /\ ~Checkpoint /\ ~Unpend /\ ~Commit /\ ~StartCutover /\ ~AdoptBaseline
            /\ ~Start /\ ~Xendomains /\ \A d \in Directions : ~StartCopy(d)
  <2>1. fresh \subseteq fresh' /\ live' \subseteq live
    BY <1>10, Grows
  <2>2. UNCHANGED <<accepted, pending>>
    <3>1. CASE Moving
      BY <1>10, <3>1, MovingKeeps
    <3>2. CASE ~Moving
      BY <1>10, <3>2, OthersKeep
    <3> QED BY <3>1, <3>2
  <2> QED BY <2>1, <2>2, <1>k
<1> QED BY <1>1, <1>2, <1>3, <1>4, <1>5, <1>6, <1>7, <1>8, <1>9, <1>10

LEMMA FreshInit ==
  ASSUME Init
  PROVE  FreshInv
<1>1. hand.do = "none" /\ helper = None /\ accepted = None /\ pending = None
  BY DEF Init, Idle
<1>n. None # "candidate" /\ None # "reverse" /\ None \notin Directions
  BY ConstantsAssumption DEF Routers, Sides, Directions
<1> QED
  BY <1>1, <1>n
  DEF Init, FreshInv, RecordInv, StartedInv, CopiesInv, ServedInv, Selected

(* Where a router runs or is about to start, the newest state is.          *)
LEMMA StateStands ==
  ASSUME RouterInv, NoWayBack, FreshInv
  PROVE  StateIsKept
<1>0. RecordInv /\ StartedInv /\ ServedInv
  BY DEF FreshInv
<1>1. fresh # {}
  BY <1>0 DEF ServedInv
<1>2. live \cap Sides \subseteq fresh
  BY <1>0 DEF ServedInv
<1>3. hand.pc \in Starts => Side \in fresh
  BY <1>0, StartsServed DEF ServedInv
<1>4. mode = "xendomains" /\ conf.auto => conf.gen \in fresh
  BY <1>0, BootServes DEF ServedInv
<1> QED BY <1>1, <1>2, <1>3, <1>4 DEF StateIsKept

(* The leases and the identity survive, whatever fails and however often:  *)
(* recovery reads which routers may have served, and the copies and the    *)
(* starts follow that.                                                     *)
THEOREM StateKept == Spec => []StateIsKept
<1>1. Init => NoWayBack /\ LinkGone /\ FreshInv
  <2> SUFFICES ASSUME Init PROVE NoWayBack /\ LinkGone /\ FreshInv
    OBVIOUS
  <2>1. hand.do = "none" /\ accepted # "candidate"
    BY ConstantsAssumption DEF Init, Idle, Routers, Sides
  <2> QED BY <2>1, FreshInit DEF NoWayBack, LinkGone
<1>2. RouterInv /\ NoWayBack /\ LinkGone /\ FreshInv /\ [RouterNext]_vars
        => NoWayBack' /\ LinkGone' /\ FreshInv'
  <2> SUFFICES ASSUME RouterInv, NoWayBack, LinkGone, FreshInv, [RouterNext]_vars
               PROVE  NoWayBack' /\ LinkGone' /\ FreshInv'
    OBVIOUS
  <2>1. RecordInv /\ StartedInv /\ CopiesInv
    BY DEF FreshInv
  <2>2. RecordInv' /\ StartedInv'
    BY <2>1, RecordNext, StartedNext
  <2>3. CopiesInv' /\ ServedInv'
    BY <2>2, CopiesNext, ServedNext
  <2> QED BY <2>2, <2>3, NoWayBackNext, LinkGoneNext DEF FreshInv
<1>3. RouterInv /\ NoWayBack /\ FreshInv => StateIsKept
  BY StateStands
<1> QED BY <1>1, <1>2, <1>3, RouterInvariant, PTL DEF Spec

-----------------------------------------------------------------------------
(* The fence of a failed recovery.                                         *)

(* The fence does what it goes past, unless it says that it failed.        *)
LEMMA FenceNext ==
  ASSUME RouterInv, FenceInv, [RouterNext]_vars
  PROVE  FenceInv'
<1>0. HandInv /\ PendingInv /\ HelperGone /\ XenType /\ RecordType
  BY DEF RouterInv, TypeInv
<1>n. None \notin Pending /\ None # "finalizer" /\ None \notin Directions
  BY ConstantsAssumption DEF Directions
<1>m. Movers = {"cutover", "fence", "recover", "settle", "rollback"}
  BY DEF Movers, Recovering
<1>F. ASSUME hand.do \in Movers PROVE ~Failed
  BY <1>F DEF FenceInv, Failed
(* A command in front of an operation that has not failed.                 *)
<1>o. ASSUME hand'.do # "fence", pending'.phase # "recovery-failed" PROVE FenceInv'
  BY <1>o DEF FenceInv, FailedIsFenced, Failed
<1>f. ASSUME hand'.do # "fence", pending' = pending, hand.do \in Movers PROVE FenceInv'
  BY <1>f, <1>o DEF FenceInv
(* Routers, guests and links only go.                                      *)
<1>g. ASSUME pending' = pending, live' \subseteq live, helper' \in {helper, None} \/ ~Failed,
             saved'.auto => saved.auto \/ conf.auto,
             conf'.auto => saved.auto \/ conf.auto
      PROVE  FailedIsFenced'
  BY <1>n, <1>g DEF FenceInv, FailedIsFenced, Failed
<1>i. ASSUME hand'.do \notin Movers, FailedIsFenced' PROVE FenceInv'
  BY <1>i, <1>m DEF FenceInv
<1>I. Idle.do \notin Movers
  BY <1>m DEF Idle
<1>u. ASSUME hand' = hand, pending' = pending, live' \subseteq live, helper' \in {helper, None},
             conf' = conf, saved' \in {saved, conf}
      PROVE  FenceInv'
  <2>1. FailedIsFenced'
    BY <1>u, <1>g
  <2>2. hand.do \in Movers => pending'.phase # "recovery-failed"
    BY <1>u DEF FenceInv
  <2>3. hand.do = "fence" /\ ~hand.failed =>
          /\ hand.pc # "unlink" => ~conf'.auto
          /\ hand.pc \notin {"unlink", "persist off"} => ~saved'.auto
          /\ hand.pc \in {"fence copy", "kill candidate", "kill old", "recovery-failed"}
               => helper' # "finalizer"
          /\ hand.pc \in {"kill candidate", "kill old", "recovery-failed"} => helper' = None
          /\ hand.pc \in {"kill old", "recovery-failed"} => "candidate" \notin live'
          /\ hand.pc = "recovery-failed" => "old" \notin live'
    BY <1>n, <1>u DEF FenceInv
  <2> QED BY <1>u, <2>1, <2>2, <2>3 DEF FenceInv
(* The end of a command that wrote nothing.                                *)
<1>e. ASSUME hand' = Idle, pending' = pending, live' \subseteq live, helper' \in {helper, None},
             {conf', saved'} \subseteq {conf, saved}
      PROVE  FenceInv'
  <2>1. FailedIsFenced'
    BY <1>e, <1>g
  <2> QED BY <1>e, <1>I, <1>i, <2>1
<1>a. ASSUME Advance, hand.pc # "idle", hand.pc \notin Turns
      PROVE  hand'.do = hand.do /\ hand'.pc = After(hand.do, hand.pc) /\ hand'.failed = hand.failed
  <2>1. hand'.do = hand.do /\ hand'.pc = After(hand.do, hand.pc)
    BY <1>0, <1>a, Advanced
  <2>2. hand'.failed = hand.failed
    BY <1>0, <1>a DEF Advance, Goto, HandInv, Hands
  <2> QED BY <2>1, <2>2
<1>w. hand.do = "fence" => hand.pc \in FencePlaces
  BY <1>0, WhoIsThere
<1>1. CASE Checkpoint
  <2>1. /\ hand.pc \in Phases /\ hand.do \in Movers /\ pending' = Recorded
        /\ UNCHANGED <<live, helper, conf, saved>>
    BY <1>1, MovingIsPending DEF Checkpoint, Moving, xen
  <2>2. CASE hand.pc = "recovery-failed"
    <3>1. hand' = Idle /\ pending'.fenced = ~hand.failed
      BY <1>1, <2>1, <2>2 DEF Checkpoint, Return, Recorded
    <3>2. hand.do = "fence"
      BY <1>0, <2>2 DEF HandInv, Idle, InProgram, CutoverPlaces, CutoverPhases, RecoverPlaces,
         SettlePlaces, RollbackPlaces, CleanupPlaces, Finish
    <3>3. pending'.fenced => live = {} /\ helper = None /\ ~conf.auto /\ ~saved.auto
      BY <1>0, <2>2, <3>1, <3>2 DEF FenceInv, XenType, Sides
    <3>4. FailedIsFenced'
      BY <2>1, <3>3 DEF FailedIsFenced
    <3> QED BY <1>I, <1>i, <3>1, <3>4
  <2>3. CASE hand.pc # "recovery-failed"
    <3>1. Phases \cap (Turns \cup {"idle"}) = {"recovery-failed"}
      BY DEF Phases, CutoverPhases, RecoveryPhases, Turns, CleanupPlaces
    <3>2. hand'.do = hand.do
      BY <1>1, <2>1, <2>3, <3>1, <1>a DEF Checkpoint
    <3>3. hand.do # "fence"
      BY <1>w, <2>1, <2>3 DEF FencePlaces, Phases, CutoverPhases, RecoveryPhases
    <3>4. pending'.phase # "recovery-failed"
      BY <2>1, <2>3 DEF Recorded
    <3> QED BY <3>2, <3>3, <3>4, <1>o
  <2> QED BY <2>2, <2>3
<1>2. CASE Unlink
  <2>1. /\ hand.pc = "unlink" /\ hand.do \in Movers /\ pending' = pending
        /\ conf'.auto = FALSE /\ UNCHANGED <<saved, live, helper>>
    BY <1>0, <1>2, MovingIsPending DEF Unlink, Moving, XenType, records, xen
  <2>2. hand'.do = hand.do /\ hand'.pc = "persist off" /\ hand'.failed = hand.failed
    <3>1. Advance /\ hand.pc \notin Turns \cup {"idle"}
      BY <1>2 DEF Unlink, Turns, CleanupPlaces
    <3> QED BY <2>1, <3>1, <1>a DEF After
  <2>3. FailedIsFenced'
    BY <1>F, <2>1 DEF FailedIsFenced, Failed
  <2> QED BY <2>1, <2>2, <2>3 DEF FenceInv
<1>3. CASE Persist
  <2>1. /\ hand.pc \in {"persist off", "persist on"} /\ hand.do \in Movers /\ pending' = pending
        /\ saved' = conf /\ UNCHANGED <<conf, live, helper>>
    BY <1>3, MovingIsPending DEF Persist, Moving, records, xen
  <2>2. hand'.do = hand.do /\ hand'.pc = After(hand.do, hand.pc) /\ hand'.failed = hand.failed
    <3>1. Advance /\ hand.pc \notin Turns \cup {"idle"}
      BY <1>3 DEF Persist, Turns, CleanupPlaces
    <3> QED BY <3>1, <1>a
  <2>3. CASE hand.do = "fence"
    <3>1. hand.pc = "persist off"
      BY <1>w, <2>1, <2>3 DEF FencePlaces
    <3>2. hand'.pc = "fence finalizer"
      BY <2>2, <2>3, <3>1 DEF After
    <3>3. FailedIsFenced'
      BY <1>F, <2>1 DEF FailedIsFenced, Failed
    <3>4. ~hand.failed => ~conf.auto
      BY <2>3, <3>1 DEF FenceInv
    <3> QED BY <2>1, <2>2, <2>3, <3>2, <3>3, <3>4 DEF FenceInv
  <2>4. CASE hand.do # "fence"
    BY <2>1, <2>2, <2>4, <1>f
  <2> QED BY <2>3, <2>4
<1>4. CASE FenceHelper
  <2>1. /\ hand.pc \in {"fence finalizer", "fence copy"} /\ hand.do \in Movers
        /\ pending' = pending /\ UNCHANGED <<conf, saved, live>>
        /\ hand.pc = "fence finalizer" => helper' # "finalizer"
        /\ hand.pc = "fence copy" /\ helper # "finalizer" => helper' = None
    <3>1. hand.do \in Movers
      BY <1>4, MovingIsPending DEF Moving
    <3>2. helper \in Directions \cup {"finalizer", None}
      BY <1>0 DEF XenType
    <3> QED BY <1>4, <1>n, <3>1, <3>2 DEF FenceHelper, records
  <2>2. hand'.do = hand.do /\ hand'.pc = After(hand.do, hand.pc) /\ hand'.failed = hand.failed
    <3>1. Advance /\ hand.pc \notin Turns \cup {"idle"}
      BY <1>4 DEF FenceHelper, Turns, CleanupPlaces
    <3> QED BY <3>1, <1>a
  <2>3. CASE hand.do = "fence"
    <3>1. /\ hand.pc = "fence finalizer" => hand'.pc = "fence copy"
          /\ hand.pc = "fence copy" => hand'.pc = "kill candidate"
      BY <2>2, <2>3 DEF After
    <3>2. FailedIsFenced'
      BY <1>F, <2>1 DEF FailedIsFenced, Failed
    <3>3. ~hand.failed => ~conf.auto /\ ~saved.auto
      BY <2>1, <2>3 DEF FenceInv
    <3>4. CASE hand.pc = "fence finalizer"
      BY <2>1, <2>2, <2>3, <3>1, <3>2, <3>3, <3>4 DEF FenceInv
    <3>5. CASE hand.pc = "fence copy"
      BY <1>n, <2>1, <2>2, <2>3, <3>1, <3>2, <3>3, <3>5 DEF FenceInv
    <3> QED BY ZenonT(60), <2>1, <3>4, <3>5
  <2>4. CASE hand.do # "fence"
    BY <2>1, <2>2, <2>4, <1>f
  <2> QED BY <2>3, <2>4
<1>5. ASSUME NEW s \in Sides, Kill(s) PROVE FenceInv'
  <2>1. /\ hand.pc = KillOf[s] /\ hand.do \in Movers /\ pending' = pending
        /\ live' = live \ {s} /\ UNCHANGED <<conf, saved, helper>> /\ Advance
    BY <1>5, MovingIsPending DEF Kill, Moving, records
  <2>2. /\ s = "candidate" => hand.pc = "kill candidate"
        /\ s = "old" => hand.pc = "kill old"
        /\ s \in {"old", "candidate"}
    <3>1. KillOf["candidate"] = "kill candidate" /\ KillOf["old"] = "kill old"
      BY DEF KillOf
    <3> QED BY <2>1, <3>1 DEF Sides
  <2>3. hand'.do = hand.do /\ hand'.pc = After(hand.do, hand.pc) /\ hand'.failed = hand.failed
    BY ZenonT(60), <2>1, <2>2, <1>a DEF Turns, CleanupPlaces
  <2>4. /\ hand.pc = "kill candidate" => hand'.pc = "kill old"
        /\ hand.pc = "kill old" => hand'.pc = "recovery-failed"
    BY <2>3 DEF After
  <2>5. FailedIsFenced'
    BY <1>F, <2>1 DEF FailedIsFenced, Failed
  <2>6. CASE s = "candidate"
    BY <2>1, <2>2, <2>3, <2>4, <2>5, <2>6 DEF FenceInv
  <2>7. CASE s = "old"
    BY <2>1, <2>2, <2>3, <2>4, <2>5, <2>7 DEF FenceInv
  <2> QED BY <2>2, <2>6, <2>7
<1>6. ASSUME NEW s \in Sides, AskShutdown(s) \/ GuestEnds(s) PROVE FenceInv'
  BY <1>6, <1>u DEF AskShutdown, GuestEnds, records
<1>7. ASSUME NEW s \in Sides, Stop(s) PROVE FenceInv'
  <2>1. /\ hand.pc \in {"stop old", "stop candidate"} /\ hand.do \in Movers /\ pending' = pending
    <3>1. hand.pc = StopOf[s] /\ pending' = pending
      BY <1>7 DEF Stop, records
    <3>2. hand.pc \in {"stop old", "stop candidate"}
      <4>1. CASE s = "old"
        BY <3>1, <4>1 DEF StopOf
      <4>2. CASE s = "candidate"
        BY <3>1, <4>2 DEF StopOf
      <4> QED BY <4>1, <4>2 DEF Sides
    <3>3. hand.do \in Movers
      BY <1>7, MovingIsPending DEF Moving
    <3> QED BY <3>1, <3>2, <3>3
  <2>2. hand'.do = hand.do
    <3>1. \E pc : Goto(pc)
      BY <1>7 DEF Stop, Advance
    <3> QED BY <1>0, <3>1 DEF Goto, HandInv, Hands
  <2>3. hand.do # "fence"
    BY <1>w, <2>1 DEF FencePlaces
  <2> QED BY <2>1, <2>2, <2>3, <1>f
<1>8. CASE \/ RecordAttempt \/ CheckLocal \/ AwaitEnrollment \/ Finalize \/ AwaitFinalizer
           \/ AwaitAcceptance \/ Commit \/ Select \/ Link \/ Complete \/ Start
  <2>1. /\ hand.do \in Movers /\ pending' = pending /\ Advance
        /\ hand.pc \in {"attempt", "await enrollment", "finalize", "await finalizer",
                        "await acceptance", "commit", "select", "link", "complete"}
                       \cup Starts \cup Checks
    <3>1. hand.do \in Movers
      BY <1>8, MovingIsPending DEF Moving
    <3> QED BY <1>8, <3>1
        DEF RecordAttempt, CheckLocal, AwaitEnrollment, Finalize, AwaitFinalizer, AwaitAcceptance,
            Commit, Select, Link, Complete, Start, records
  <2>2. hand'.do = hand.do
    BY <2>1, <1>a DEF Turns, CleanupPlaces, Starts, Checks
  <2>3. hand.do # "fence"
    BY <1>w, <2>1 DEF FencePlaces, Starts, Checks
  <2> QED BY <2>1, <2>2, <2>3, <1>f
<1>9. ASSUME NEW d \in Directions, StartCopy(d) \/ EndCopy(d) \/ VerifyCopy(d)
      PROVE  FenceInv'
  <2>1. /\ hand.do \in Movers /\ pending' = pending /\ Advance
        /\ hand.pc \in {CopyOf[d], WaitOf[d], CheckOf[d]}
    <3>1. hand.do \in Movers
      BY <1>9, MovingIsPending DEF Moving
    <3> QED BY <1>9, <3>1 DEF StartCopy, EndCopy, VerifyCopy, records
  <2>2. hand.pc \in {"copy forward", "wait forward", "verify forward",
                     "copy reverse", "wait reverse", "verify reverse"}
    <3>1. CASE d = "forward"
      BY <2>1, <3>1 DEF CopyOf, WaitOf, CheckOf
    <3>2. CASE d = "reverse"
      BY <2>1, <3>2 DEF CopyOf, WaitOf, CheckOf
    <3> QED BY <3>1, <3>2 DEF Directions
  <2>3. hand'.do = hand.do /\ hand.do # "fence"
    BY <2>1, <2>2, <1>a, <1>w DEF Turns, CleanupPlaces, FencePlaces
  <2> QED BY <2>1, <2>3, <1>f
<1>10. CASE Decide
  <2>1. hand.do \in Movers /\ pending' = pending
    BY <1>10, MovingIsPending DEF Decide, Moving, records
  <2>2. hand'.do \in {"settle", "rollback"}
    BY <1>10 DEF Decide, Run
  <2> QED BY <2>1, <2>2, <1>f
<1>11. CASE Unpend
  <2>1. hand' = Idle /\ pending' = None
    BY <1>11 DEF Unpend, Return
  <2> QED BY <1>I, <1>i, <2>1 DEF FailedIsFenced, Failed
<1>12. CASE EndStatus \/ ProcessKilled \/ PowerLoss
  BY <1>12, <1>e DEF EndStatus, ProcessKilled, PowerLoss, Return, records, xen
<1>13. CASE SaveProgress \/ Retire
  <2>1. hand.do = "cleanup" /\ UNCHANGED <<pending, live, helper, conf, saved>>
    BY <1>0, <1>13, WhoIsThere DEF SaveProgress, Retire, CleanupPlaces, records, xen
  <2>2. hand'.do \notin Movers
    <3>1. hand' = Idle \/ \E pc : Goto(pc)
      BY <1>13 DEF SaveProgress, Retire, Return
    <3>2. hand' = Idle \/ hand'.do = hand.do
      BY <1>0, <3>1 DEF HandInv, Hands, Goto
    <3> QED BY <1>I, <1>m, <2>1, <3>2
  <2>3. FailedIsFenced'
    BY <2>1, <1>g
  <2> QED BY <2>2, <2>3, <1>i
<1>14. CASE \/ Recover \/ SupervisorRecovers \/ TakeStatus \/ StartCleanup \/ BootRecover
            \/ AdoptBaseline
  <2>1. /\ UNCHANGED <<pending, live, helper, conf, saved>>
        /\ hand = Idle
        /\ hand'.do = "recover" /\ hand' # hand => pending.phase # "recovery-failed"
    BY <1>14, Begun
    DEF Recover, SupervisorRecovers, TakeStatus, StartCleanup, BootRecover, AdoptBaseline,
        LockFree, Run, records, xen
  <2>2. hand' = hand \/ hand'.do \in {"recover", "status", "cleanup"}
    BY <1>14, Begun DEF AdoptBaseline
  <2>3. CASE hand' = hand
    BY <2>1, <2>3, <1>u
  <2>4. CASE hand'.do = "recover" /\ hand' # hand
    BY <2>1, <2>4, <1>o
  <2>5. CASE hand'.do \in {"status", "cleanup"}
    <3>1. FailedIsFenced'
      BY <2>1, <1>g
    <3> QED BY <1>m, <2>5, <3>1, <1>i
  <2> QED BY <2>2, <2>3, <2>4, <2>5
<1>15. CASE StartCutover
  <2>1. pending'.phase = "armed" /\ hand'.do = "cutover"
    BY <1>15 DEF StartCutover, Run
  <2> QED BY <2>1, <1>o
<1>16. CASE Fail
  <2>0. /\ UNCHANGED <<pending, live, conf, saved>> /\ helper' \in {helper, None}
    BY <1>16 DEF Fail, records
  <2>1. CASE FailCutover
    BY <1>m, <2>0, <2>1, <1>f DEF FailCutover, Run
  <2>2. CASE FailRecovery
    <3>1. /\ hand'.do = "fence" /\ hand'.pc = "unlink" /\ hand.do \in Movers
      BY <1>m, <2>2 DEF FailRecovery, Run, Recovering
    <3>2. FailedIsFenced'
      BY <2>0, <1>g
    <3> QED BY <2>0, <3>1, <3>2 DEF FenceInv
  <2>3. CASE FailFence
    <3>1. CASE hand.pc = "recovery-failed"
      BY <2>0, <2>3, <3>1, <1>e DEF FailFence, Return
    <3>2. CASE hand.pc # "recovery-failed"
      <4>1. hand.do = "fence" /\ hand'.failed = TRUE /\ hand'.do = "fence"
        BY <1>0, <2>3, <3>2 DEF FailFence, HandInv, Hands
      <4>2. FailedIsFenced'
        BY <2>0, <1>g
      <4> QED BY <1>m, <2>0, <4>1, <4>2 DEF FenceInv
    <3> QED BY <3>1, <3>2
  <2>4. CASE FailCleanup
    BY <2>0, <2>4, <1>e DEF FailCleanup, Return
  <2> QED BY <1>16, <2>1, <2>2, <2>3, <2>4 DEF Fail
<1>17. CASE \/ UNCHANGED vars \/ SupervisorLoses \/ Controller \/ FinalizerEnds \/ HelperDies
            \/ GuestDies \/ OtherCommit
  <2>1. /\ hand' = hand /\ pending' = pending /\ live' \subseteq live /\ helper' \in {helper, None}
        /\ conf' = conf /\ saved' \in {saved, conf}
    <3>1. CASE Controller
      BY <3>1
      DEF Controller, CheckEnrollment, PublishDevice, PublishEnrollment, CheckAcceptance,
          PublishAcceptance, SignalLost, records, xen
    <3>2. CASE \/ UNCHANGED vars \/ SupervisorLoses \/ FinalizerEnds \/ HelperDies \/ GuestDies
               \/ OtherCommit
      BY <3>2
      DEF vars, SupervisorLoses, FinalizerEnds, HelperDies, GuestDies, OtherCommit, records, xen
    <3> QED BY <1>17, <3>1, <3>2
  <2> QED BY <2>1, <1>u
<1>18. ASSUME NEW d \in Directions, HelperCopies(d) PROVE FenceInv'
  BY <1>18, <1>u DEF HelperCopies
<1>19. CASE FenceAutostart
  <2>1. /\ hand' = Idle /\ UNCHANGED <<pending, live, helper>> /\ ~conf'.auto
        /\ saved' \in {saved, conf'}
    BY <1>0, <1>19 DEF FenceAutostart, XenType, HelperGone, records, xen
  <2>2. FailedIsFenced'
    BY <2>1, <1>g
  <2> QED BY <1>I, <2>1, <2>2, <1>i
<1>20. CASE Xendomains
  <2>1. /\ hand' = Idle /\ UNCHANGED <<pending, helper, conf, saved>>
        /\ live' = live \/ conf.auto
    BY <1>0, <1>20 DEF Xendomains, HelperGone, records
  <2>2. FailedIsFenced'
    BY <2>1 DEF FenceInv, FailedIsFenced, Failed
  <2> QED BY <1>I, <2>1, <2>2, <1>i
<1> QED
  BY <1>1, <1>2, <1>3, <1>4, <1>5, <1>6, <1>7, <1>8, <1>9, <1>10, <1>11, <1>12, <1>13, <1>14,
     <1>15, <1>16, <1>17, <1>18, <1>19, <1>20
  DEF RouterNext, Worker, Commands, Guests, Failures, Boot

(* When the recovery has given up behind a confirmed fence, no router and  *)
(* no helper runs, and neither this boot nor the next one starts a router. *)
THEOREM FenceHolds == Spec => []FailedIsFenced
<1>1. Init => FenceInv
  <2> SUFFICES ASSUME Init PROVE FenceInv
    OBVIOUS
  <2>1. hand.do = "none" /\ pending = None
    BY DEF Init, Idle
  <2> QED BY <2>1 DEF FenceInv, FailedIsFenced, Failed, Movers, Recovering
<1>2. RouterInv /\ FenceInv /\ [RouterNext]_vars => FenceInv'
  BY FenceNext
<1>3. FenceInv => FailedIsFenced
  BY DEF FenceInv
<1> QED BY <1>1, <1>2, <1>3, RouterInvariant, PTL DEF Spec

-----------------------------------------------------------------------------
(* The cold test of a first installation.                                  *)

(* The places of each locked hold of the cold worker, by the place it came *)
(* from.                                                                   *)
AtPlace ==
  \/ cycle = "hold" /\ hand.pc \in {"holding", "rename-away", "held"}
  \/ cycle = "open" /\ hand.pc \in {"opening", "unlink-link", "unlink-definition",
                                  "unlink-accepted", "persist-bare", "open"}
  \/ cycle = "remove" /\ hand.pc \in {"removal", "unlink-link", "unlink-definition",
                          "unlink-accepted", "unlink-installation", "persist-bare"}
  \/ cycle = "retire" /\ hand.pc \in {"disk-retiring", "remove-disk", "disk-retired"}
  \/ cycle = "put-back" /\ hand.pc \in {"restoring", "repair", "rename-back"}
  \/ cycle = "restore" /\ hand.pc \in {"put-definition", "put-accepted", "put-link"}

(* The places of an acceptance of the first installation, and of all of    *)
(* its commands.                                                           *)
Accepting     == {"accept", "define", "link-first", "persist-first"}
InstallPlaces ==
  {"plan", "plan-disk", "lvcreate", "record-disk", "allocated", "clone", "prepared",
   "xl-create", "await-first-finalizer", "verified"} \cup Accepting

(* What the records of a test may say.                                     *)
DiskStates == {"none", "planned", "allocated", "cloned", "retiring", "retired", "aborted"}

Windows == [expired: BOOLEAN, held: BOOLEAN, backup: BOOLEAN,
            ready: {"no", "ready", "return"}, returning: BOOLEAN,
            archive: DiskStates \cup {"no-disk"}, removing: BOOLEAN,
            raised: BOOLEAN, result: BOOLEAN]
Tests   == [stage: Stages, disk: DiskStates, lv: BOOLEAN, booted: BOOLEAN,
            final: {"none", "stopped", "running", "ran", "finalized", "booted"}]

Working == hand.do = "cold"

(* Once a test was armed its records keep their types; the worker is at a  *)
(* place or has ended.                                                     *)
TestType ==
  /\ cycle \in Opening \cup Returning \cup {"dead", "over"}
  /\ marker \in MarkerPhases \cup {"none"}
  /\ window \in Windows
  /\ test \in Tests
  /\ mode \in {"up", "recovery", "fence", "xendomains"}

(* No cutover is pending or recorded as complete: one router runs at most, *)
(* the original or the first of the window, beside the first finalizer     *)
(* alone.                                                                  *)
Quiet ==
  /\ pending = None /\ complete = None
  /\ accepted \in {None, "old", "first"}
  /\ conf \in [gen: {None, "old", "first"}, auto: BOOLEAN]
  /\ saved \in [gen: {None, "old", "first"}, auto: BOOLEAN]
  /\ live \in {{}, {"old"}, {"first"}}
  /\ helper \in {None, "first-finalizer"}

(* The lock is free, or held by a reader, the installation or the worker   *)
(* at one of its places.  A box that starts has no helper and no worker.   *)
HoldsLock ==
  /\ hand = [do |-> hand.do, pc |-> hand.pc, failed |-> FALSE]
  /\ \/ hand = Idle
     \/ hand.do = "status" /\ hand.pc = "read"
     \/ hand.do = "install" /\ hand.pc \in InstallPlaces
     \/ hand.do = "cold" /\ AtPlace
  /\ mode # "up" => hand = Idle /\ helper = None /\ cycle \in {"dead", "over"}

(* The phase of the marker at each place of the worker.  An installation   *)
(* works only while the window is open, and a boot that starts a router by *)
(* itself met no marker.                                                   *)
MarkerInv ==
  /\ cycle \in {"stop", "backup"} => marker = "armed"
  /\ cycle = "hold" =>
       marker = IF Working /\ hand.pc # "holding" THEN "holding" ELSE "armed"
  /\ cycle = "open" =>
       marker = IF Working /\ hand.pc # "opening" THEN "opening" ELSE "held"
  /\ cycle = "wait" => marker = "open"
  /\ cycle \in {"stop-test", "archive", "remove", "retire"} =>
       marker = "open" /\ window.returning
  /\ cycle \in {"return", "put-back"} /\ marker = "open" => window.returning
  /\ cycle \in {"restore", "commit", "start", "verify"} => marker \in {"restoring", "none"}
  /\ cycle = "put-back" /\ Working /\ hand.pc # "restoring" => marker = "restoring"
  /\ hand.do = "install" => marker = "open"
  /\ mode = "xendomains" /\ conf.auto => marker = "none"

(* The original set aside.  Under its hold name it does not run and the    *)
(* backup keeps its state; under its own name its disk has the newest      *)
(* state. The worker removes and puts back selectors with every router     *)
(* stopped, and a definition without the marker is the original's.         *)
AsideInv ==
  /\ window.held => /\ marker \in {"holding", "held", "opening", "open", "restoring"}
                    /\ "backup" \in fresh
                    /\ live # {"old"}
  /\ ~window.held => "old" \in fresh
  /\ cycle = "hold" => "backup" \in fresh
  /\ cycle \in {"restore", "commit", "start", "verify"} => ~window.held
  /\ Working /\ cycle \in {"hold", "open", "remove", "retire", "restore"} =>
       live = {} /\ helper = None
  /\ Working /\ hand.pc = "repair" => window.held
  /\ Working /\ hand.pc = "rename-back" => "old" \in fresh
  /\ marker = "none" => conf.gen = "old" /\ saved.gen = "old"

(* Nothing of the test is left but its retired record.                     *)
NoTest ==
  /\ test.stage = "none" /\ ~test.lv /\ live # {"first"}
  /\ "first" \notin {accepted, conf.gen, saved.gen}

(* The router of the window exists only while the window is open: its disk *)
(* goes after its selectors, its selectors after their archive, and the    *)
(* marker leaves open only after the disk.                                 *)
FirstInv ==
  /\ marker # "open" \/ cycle = "put-back" => NoTest
  /\ cycle \in {"retire", "put-back"} => hand.do # "install"
  /\ cycle = "archive" => window.archive = "none"
  /\ cycle \in {"remove", "retire"} => window.archive # "none"
  /\ window.archive = "none" /\ test.stage = "none" =>
       "first" \notin {accepted, conf.gen, saved.gen}
  /\ hand.do = "install" /\ hand.pc \in Accepting => test.stage # "none"
  /\ Working /\ cycle = "remove" =>
       /\ hand.pc \in {"unlink-accepted", "unlink-installation", "persist-bare"} =>
            conf.gen = None
       /\ hand.pc \in {"unlink-installation", "persist-bare"} => accepted = None
       /\ hand.pc = "persist-bare" => test.stage = "none"
  /\ cycle = "retire" =>
       /\ accepted = None /\ conf.gen = None /\ saved.gen = None
       /\ test.stage = "none" /\ live = {}
       /\ Working /\ hand.pc = "disk-retired" => ~test.lv

(* The first finalizer runs alone, with the enrolled disk, and no command  *)
(* of the installation but the one that awaits it works beside it.         *)
HelperInv ==
  /\ helper # None => live = {} /\ test.stage = "enrolled" /\ test.final = "running"
  /\ hand.do = "install" /\ hand.pc # "await-first-finalizer" => helper = None

(* What holds from the arming of a test to the end of the box.             *)
TestInv == TestType /\ Quiet /\ HoldsLock /\ MarkerInv /\ AsideInv /\ FirstInv /\ HelperInv

(* The fields of the records of a test.                                    *)
LEMMA Fields ==
  ASSUME window \in Windows, test \in Tests
  PROVE  \A b \in BOOLEAN :
           /\ [window EXCEPT !.held = b] \in Windows
           /\ [window EXCEPT !.backup = b] \in Windows
           /\ [window EXCEPT !.expired = b] \in Windows
           /\ [window EXCEPT !.returning = b] \in Windows
           /\ [window EXCEPT !.removing = b] \in Windows
           /\ [window EXCEPT !.raised = b] \in Windows
           /\ [window EXCEPT !.result = b] \in Windows
           /\ [window EXCEPT !.expired = FALSE, !.raised = FALSE] \in Windows
           /\ [test EXCEPT !.lv = b] \in Tests
           /\ [test EXCEPT !.booted = b] \in Tests
           /\ window.held \in BOOLEAN /\ window.returning \in BOOLEAN
           /\ window.raised \in BOOLEAN /\ window.result \in BOOLEAN
  BY DEF Windows, Tests

(* The fields of the definition.                                           *)
LEMMA Definition ==
  ASSUME NEW c \in [gen: {None, "old", "first"}, auto: BOOLEAN], NEW b \in BOOLEAN,
         NEW g \in {None, "old", "first"}
  PROVE  /\ [c EXCEPT !.auto = b] \in [gen: {None, "old", "first"}, auto: BOOLEAN]
         /\ [c EXCEPT !.auto = b].gen = c.gen
         /\ [c EXCEPT !.auto = b].auto = b
         /\ [c EXCEPT !.gen = g] \in [gen: {None, "old", "first"}, auto: BOOLEAN]
         /\ [c EXCEPT !.gen = g].gen = g
         /\ [c EXCEPT !.gen = g].auto = c.auto
  OBVIOUS

(* The steps of the worker that take the lock or need none.                *)
Walk ==
  \/ AskOriginal \/ StopOriginal \/ CopyOriginal \/ Hold \/ OpenTarget
  \/ PublishReady \/ EndWait
  \/ FenceNewWork \/ BeginReturn \/ StopTest \/ Archive \/ RemoveSelectors
  \/ RetireDisk \/ RestoreDisk \/ RestoreMetadata \/ CommitOriginal
  \/ StartOriginal \/ VerifyRestored \/ ColdRefuses

(* They keep what holds of a test.                                         *)
LEMMA WalkKeeps ==
  ASSUME TestInv, cycle # "idle", Walk
  PROVE  TestInv'
<1>n. None # "first" /\ None # "old"
  BY ConstantsAssumption DEF Routers, Sides
<1>w. window \in Windows /\ test \in Tests /\ TRUE \in BOOLEAN /\ FALSE \in BOOLEAN
  BY DEF TestInv, TestType
<1> USE DEF TestInv, TestType, Quiet, HoldsLock, MarkerInv, AsideInv, FirstInv, NoTest,
            HelperInv, Working, AtPlace, InstallPlaces, Accepting, Stages, Opening,
            Returning, MarkerPhases, Idle, records, retired, xen, actors, vars, cold
<1>1. CASE AskOriginal
  BY <1>1, <1>n DEF AskOriginal, At, ColdReady, Locking, Located, Bare, DiskRecord,
                    Consistent, Windows, Tests, DiskStates
<1>2. CASE StopOriginal
  BY <1>2, <1>n DEF StopOriginal, At, ColdReady, Locking, Located, Bare, DiskRecord,
                    Consistent, Windows, Tests, DiskStates
<1>3. CASE CopyOriginal
  <2> USE DEF CopyOriginal, At, ColdReady, Locking, Located, Bare, DiskRecord, Consistent
  <2>1. TestType'
    BY <1>3, Fields
  <2>2. Quiet' /\ HoldsLock'
    BY <1>3, <1>n DEF Windows, Tests, DiskStates
  <2>3. MarkerInv'
    BY <1>3, <1>n DEF Windows, Tests, DiskStates
  <2>4. AsideInv'
    BY <1>3, <1>n DEF Windows, Tests, DiskStates
  <2>5. FirstInv' /\ HelperInv'
    BY <1>3, <1>n DEF Windows, Tests, DiskStates
  <2> QED BY <2>1, <2>2, <2>3, <2>4, <2>5
<1>4. CASE Hold
  BY <1>4, <1>n DEF Hold, At, Cold, ColdReady, Locking, Located, Bare, DiskRecord,
                    Consistent, Windows, Tests, DiskStates
<1>5. CASE OpenTarget
  BY <1>5, <1>n DEF OpenTarget, At, Cold, ColdReady, Locking, Located, Bare, DiskRecord,
                    Consistent, Windows, Tests, DiskStates
<1>6. CASE PublishReady
  BY <1>6, <1>n DEF PublishReady, At, ColdReady, Locking, Located, Bare, DiskRecord,
                    Consistent, Windows, Tests, DiskStates
<1>7. CASE EndWait
  BY <1>7, <1>n DEF EndWait, At, ColdReady, Locking, Located, Bare, DiskRecord, Consistent,
                    Windows, Tests, DiskStates
<1>8. CASE FenceNewWork
  <2> USE DEF FenceNewWork, At, ColdReady, Locking, Located, Bare, DiskRecord, Consistent
  <2>r. window'.returning = (window.returning \/ marker = "open")
    BY <1>8, <1>w DEF Windows
  <2>h. window'.held = window.held /\ window'.archive = window.archive
    BY <1>8, <1>w DEF Windows
  <2>1. TestType'
    <3>1. (window.returning \/ marker = "open") \in BOOLEAN
      BY Fields
    <3> QED BY <1>8, Fields, <3>1
  <2>2. Quiet' /\ HoldsLock'
    BY <1>8, <1>n DEF Windows, Tests, DiskStates
  <2>3. MarkerInv'
    BY <1>8, <2>r, Fields
  <2>4. AsideInv'
    BY <1>8, <2>h, Fields
  <2>5. FirstInv' /\ HelperInv'
    BY <1>8, <1>n DEF Windows, Tests, DiskStates
  <2> QED BY <2>1, <2>2, <2>3, <2>4, <2>5
<1>9. CASE BeginReturn
  BY <1>9, <1>n DEF BeginReturn, At, ColdReady, Locking, Located, Bare, DiskRecord,
                    Consistent, Windows, Tests, DiskStates
<1>10. CASE StopTest
  BY <1>10, <1>n DEF StopTest, At, ColdReady, Locking, Located, Bare, DiskRecord,
                     Consistent, Windows, Tests, DiskStates
<1>11. CASE Archive
  <2> USE DEF Archive, At, DiskRecord, ColdReady, Locking, Located, Bare, Consistent
  <2>d. DiskRecord \in (DiskStates \cup {"no-disk"}) \ {"none"}
    BY <1>w DEF Tests
  <2>a. /\ window'.archive = window.archive \/ window'.archive = DiskRecord
        /\ window'.held = window.held /\ window'.returning = window.returning
    BY <1>11, <1>w DEF Windows
  <2> HIDE DEF DiskRecord
  <2>1. TestType'
    <3>1. window' \in Windows
      BY <1>11, <2>d, <1>w DEF Windows
    <3> QED BY <1>11, <3>1
  <2>2. Quiet' /\ HoldsLock'
    BY <1>11, <1>n DEF Windows, Tests, DiskStates
  <2>3. MarkerInv'
    BY <1>11, <1>n DEF Windows, Tests, DiskStates
  <2>4. AsideInv'
    BY <1>11, <1>n DEF Windows, Tests, DiskStates
  <2>5. FirstInv' /\ HelperInv'
    <3>1. CASE test.stage = "none"
      BY <1>11, <3>1, <1>n DEF Windows, Tests, DiskStates
    <3>2. CASE test.stage # "none"
      <4>1. window'.archive # "none" /\ cycle' = "remove"
        BY <1>11, <3>2, <2>d, <1>w DEF Windows
      <4> QED BY <1>11, <3>2, <4>1, <1>n DEF Windows, Tests, DiskStates
    <3> QED BY <3>1, <3>2
  <2> QED BY <2>1, <2>2, <2>3, <2>4, <2>5
<1>12. CASE RemoveSelectors
  BY <1>12, <1>n DEF RemoveSelectors, At, Cold, ColdReady, Locking, Located, Bare,
                     DiskRecord, Consistent, Windows, Tests, DiskStates
<1>13. CASE RetireDisk
  BY <1>13, <1>n DEF RetireDisk, At, Cold, ColdReady, Locking, Located, Bare, DiskRecord,
                     Consistent, Windows, Tests, DiskStates
<1>14. CASE RestoreDisk
  BY <1>14, <1>n DEF RestoreDisk, At, Cold, ColdReady, Locking, Located, Bare, DiskRecord,
                     Consistent, Windows, Tests, DiskStates
<1>15. CASE RestoreMetadata
  BY <1>15, <1>n DEF RestoreMetadata, At, Cold, ColdReady, Locking, Located, Bare,
                     DiskRecord, Consistent, Windows, Tests, DiskStates
<1>16. CASE CommitOriginal
  BY <1>16, <1>n DEF CommitOriginal, At, ColdReady, Locking, Located, Bare, DiskRecord,
                     Consistent, Windows, Tests, DiskStates
<1>17. CASE StartOriginal
  BY <1>17, <1>n DEF StartOriginal, At, ColdReady, Locking, Located, Bare, DiskRecord,
                     Consistent, Windows, Tests, DiskStates
<1>18. CASE VerifyRestored
  <2> USE DEF VerifyRestored, At, ColdReady, Locking, Located, Bare, DiskRecord, Consistent
  <2>1. TestType'
    BY <1>18, Fields
  <2>2. Quiet' /\ HoldsLock'
    BY <1>18, <1>n DEF Windows, Tests, DiskStates
  <2>3. MarkerInv'
    BY <1>18, <1>n DEF Windows, Tests, DiskStates
  <2>4. AsideInv'
    BY <1>18, <1>n DEF Windows, Tests, DiskStates
  <2>5. FirstInv' /\ HelperInv'
    BY <1>18, <1>n DEF Windows, Tests, DiskStates
  <2> QED BY <2>1, <2>2, <2>3, <2>4, <2>5
<1>19. CASE ColdRefuses
  <2> USE DEF ColdRefuses, ColdReady, Locking, Raise, Located, Bare, DiskRecord, Consistent
  <2>1. TestType'
    BY <1>19, Fields
  <2>2. Quiet' /\ HoldsLock'
    BY <1>19, <1>n DEF Windows, Tests, DiskStates
  <2>3. MarkerInv'
    BY <1>19, <1>n DEF Windows, Tests, DiskStates
  <2>4. AsideInv'
    BY <1>19, <1>n DEF Windows, Tests, DiskStates
  <2>5. FirstInv' /\ HelperInv'
    BY <1>19, <1>n DEF Windows, Tests, DiskStates
  <2> QED BY <2>1, <2>2, <2>3, <2>4, <2>5
<1> HIDE DEF TestInv
<1> QED BY <1>1, <1>2, <1>3, <1>4, <1>5, <1>6, <1>7, <1>8, <1>9, <1>10, <1>11, <1>12,
           <1>13, <1>14, <1>15, <1>16, <1>17, <1>18, <1>19 DEF Walk

(* The steps of the worker while it holds the lock.                        *)
Locked ==
  \/ MarkPhase \/ Rename \/ Repair \/ RecordRemoval \/ UnlinkBoot
  \/ UnlinkAccepted \/ UnlinkInstallation \/ PersistBare \/ RetireTestDisk \/ PutBack

(* They keep it too, each between two places of one hold of the lock.      *)
LEMMA LockedKeeps ==
  ASSUME TestInv, cycle # "idle", Locked
  PROVE  TestInv'
<1>n. None # "first" /\ None # "old"
  BY ConstantsAssumption DEF Routers, Sides
<1>w. window \in Windows /\ test \in Tests /\ TRUE \in BOOLEAN /\ FALSE \in BOOLEAN
  BY DEF TestInv, TestType
<1> USE DEF TestInv, TestType, Quiet, HoldsLock, MarkerInv, AsideInv, FirstInv, NoTest,
            HelperInv, Working, AtPlace, InstallPlaces, Accepting, Stages, Opening,
            Returning, MarkerPhases, Idle, records, retired, xen, actors, vars, cold
<1>c. conf \in [gen: {None, "old", "first"}, auto: BOOLEAN] /\ TRUE \in BOOLEAN
  OBVIOUS
<1>1. CASE MarkPhase
  <2> USE DEF MarkPhase, Step, Proceed, Cold, Release
  <2>1. CASE hand.pc = "holding"
    BY <1>1, <2>1, <1>n DEF Windows, Tests, DiskStates
  <2>2. CASE hand.pc = "held"
    BY <1>1, <2>2, <1>n DEF Windows, Tests, DiskStates
  <2>3. CASE hand.pc = "opening"
    BY <1>1, <2>3, <1>n DEF Windows, Tests, DiskStates
  <2>4. CASE hand.pc = "open"
    BY <1>1, <2>4, <1>n DEF Windows, Tests, DiskStates
  <2>5. CASE hand.pc = "restoring"
    BY <1>1, <2>5, <1>n DEF Windows, Tests, DiskStates
  <2> QED BY <1>1, <2>1, <2>2, <2>3, <2>4, <2>5
<1>2. CASE Rename
  <2> USE DEF Rename, Step, Proceed, Cold, Release
  <2>1. CASE hand.pc = "rename-away"
    <3>1. TestType'
      BY <1>2, <2>1, Fields, <1>w
    <3>2. Quiet' /\ HoldsLock' /\ MarkerInv'
      BY <1>2, <2>1, <1>n DEF Windows, Tests, DiskStates
    <3>3. AsideInv' /\ FirstInv' /\ HelperInv'
      BY <1>2, <2>1, <1>n DEF Windows, Tests, DiskStates
    <3> QED BY <3>1, <3>2, <3>3
  <2>2. CASE hand.pc = "rename-back"
    <3>1. TestType'
      BY <1>2, <2>2, Fields, <1>w
    <3>2. Quiet' /\ HoldsLock' /\ MarkerInv'
      BY <1>2, <2>2, <1>n DEF Windows, Tests, DiskStates
    <3>3. AsideInv' /\ FirstInv' /\ HelperInv'
      BY <1>2, <2>2, <1>n DEF Windows, Tests, DiskStates
    <3> QED BY <3>1, <3>2, <3>3
  <2> QED BY <1>2, <2>1, <2>2
<1>3. CASE Repair
  BY <1>3, <1>n DEF Repair, Step, Proceed, Cold, Release, Windows, Tests, DiskStates
<1>4. CASE RecordRemoval
  <2> USE DEF RecordRemoval, Step, Proceed, Cold, Release
  <2>1. TestType'
    BY <1>4, Fields
  <2>2. Quiet' /\ HoldsLock'
    BY <1>4, <1>n DEF Windows, Tests, DiskStates
  <2>3. MarkerInv'
    BY <1>4, <1>n DEF Windows, Tests, DiskStates
  <2>4. AsideInv'
    BY <1>4, <1>n DEF Windows, Tests, DiskStates
  <2>5. FirstInv' /\ HelperInv'
    BY <1>4, <1>n DEF Windows, Tests, DiskStates
  <2> QED BY <2>1, <2>2, <2>3, <2>4, <2>5
<1>5. CASE UnlinkBoot
  <2> USE DEF UnlinkBoot, Step, Proceed, Cold, Release
  <2>1. CASE hand.pc = "unlink-link"
    <3>1. conf' \in [gen: {None, "old", "first"}, auto: BOOLEAN] /\ conf'.gen = conf.gen
      BY <1>5, <2>1, <1>c, Definition
    <3>2. TestType' /\ Quiet' /\ HoldsLock'
      BY <1>5, <2>1, <3>1, <1>n DEF Windows, Tests, DiskStates
    <3>3. MarkerInv' /\ AsideInv' /\ FirstInv' /\ HelperInv'
      BY <1>5, <2>1, <1>n DEF Windows, Tests, DiskStates
    <3> QED BY <3>2, <3>3
  <2>2. CASE hand.pc = "unlink-definition"
    BY <1>5, <2>2, <1>n DEF Windows, Tests, DiskStates
  <2> QED BY <1>5, <2>1, <2>2
<1>6. CASE UnlinkAccepted
  BY <1>6, <1>n DEF UnlinkAccepted, Step, Proceed, Cold, Release, Windows, Tests,
                    DiskStates
<1>7. CASE UnlinkInstallation
  BY <1>7, <1>n DEF UnlinkInstallation, Step, Proceed, Cold, Release, Windows, Tests,
                    DiskStates
<1>8. CASE PersistBare
  BY <1>8, <1>n DEF PersistBare, Step, Proceed, Cold, Release, Windows, Tests, DiskStates
<1>9. CASE RetireTestDisk
  <2> USE DEF RetireTestDisk, Step, Proceed, Cold, Release
  <2>1. CASE hand.pc = "disk-retiring"
    <3>1. /\ test' \in Tests /\ test'.stage = test.stage
          /\ test'.lv = test.lv /\ test'.final = test.final
      BY <1>9, <2>1, <1>w DEF Tests, DiskStates
    <3>2. TestType' /\ Quiet' /\ HoldsLock'
      BY <1>9, <2>1, <3>1
    <3>3. MarkerInv' /\ AsideInv' /\ FirstInv' /\ HelperInv'
      BY <1>9, <2>1, <3>1, <1>n DEF Windows
    <3> QED BY <3>2, <3>3
  <2>2. CASE hand.pc = "remove-disk"
    <3>1. TestType'
      BY <1>9, <2>2, Fields, <1>w
    <3>2. Quiet' /\ HoldsLock' /\ MarkerInv'
      BY <1>9, <2>2, <1>n DEF Windows, Tests, DiskStates
    <3>3. AsideInv' /\ FirstInv' /\ HelperInv'
      BY <1>9, <2>2, <1>n DEF Windows, Tests, DiskStates
    <3> QED BY <3>1, <3>2, <3>3
  <2>3. CASE hand.pc = "disk-retired"
    <3>1. /\ test' \in Tests /\ test'.stage = test.stage
          /\ test'.lv = test.lv /\ test'.final = test.final
      BY <1>9, <2>3, <1>w DEF Tests, DiskStates
    <3>2. TestType' /\ Quiet' /\ HoldsLock'
      BY <1>9, <2>3, <3>1
    <3>3. MarkerInv' /\ AsideInv' /\ FirstInv' /\ HelperInv'
      BY <1>9, <2>3, <3>1, <1>n DEF Windows
    <3> QED BY <3>2, <3>3
  <2> QED BY <1>9, <2>1, <2>2, <2>3
<1>10. CASE PutBack
  <2> USE DEF PutBack, Step, Proceed, Cold, Release
  <2>1. CASE hand.pc = "put-definition"
    BY <1>10, <2>1, <1>n DEF Windows, Tests, DiskStates
  <2>2. CASE hand.pc = "put-accepted"
    BY <1>10, <2>2, <1>n DEF Windows, Tests, DiskStates
  <2>3. CASE hand.pc = "put-link"
    <3>1. conf' \in [gen: {None, "old", "first"}, auto: BOOLEAN] /\ conf'.gen = conf.gen
      BY <1>10, <2>3, <1>c, Definition
    <3>2. TestType' /\ Quiet' /\ HoldsLock'
      BY <1>10, <2>3, <3>1, <1>n DEF Windows, Tests, DiskStates
    <3>3. MarkerInv' /\ AsideInv' /\ FirstInv' /\ HelperInv'
      BY <1>10, <2>3, <1>n DEF Windows, Tests, DiskStates
    <3> QED BY <3>2, <3>3
  <2> QED BY <1>10, <2>1, <2>2, <2>3
<1> HIDE DEF TestInv
<1> QED BY <1>1, <1>2, <1>3, <1>4, <1>5, <1>6, <1>7, <1>8, <1>9, <1>10 DEF Locked

(* Commands beside the worker, once a test has begun.                      *)
LEMMA CommandKeeps ==
  ASSUME TestInv, cycle # "idle", ColdCommands
  PROVE  TestInv'
<1>n. None # "first" /\ None # "old"
  BY ConstantsAssumption DEF Routers, Sides
<1>w. window \in Windows /\ test \in Tests /\ TRUE \in BOOLEAN /\ FALSE \in BOOLEAN
  BY DEF TestInv, TestType
<1> USE DEF TestInv, TestType, Quiet, HoldsLock, MarkerInv, AsideInv, FirstInv, NoTest,
            HelperInv, Working, AtPlace, InstallPlaces, Accepting, Stages, Opening,
            Returning, MarkerPhases, Idle, records, retired, xen, actors, vars, cold
<1>1. CASE Arm
  <2> USE DEF Arm, LockFree
  <2>1. TestType'
    BY <1>1, Fields
  <2>2. Quiet' /\ HoldsLock'
    BY <1>1, <1>n DEF Windows, Tests, DiskStates
  <2>3. MarkerInv'
    BY <1>1, <1>n DEF Windows, Tests, DiskStates
  <2>4. AsideInv'
    BY <1>1, <1>n DEF Windows, Tests, DiskStates
  <2>5. FirstInv' /\ HelperInv'
    BY <1>1, <1>n DEF Windows, Tests, DiskStates
  <2> QED BY <2>1, <2>2, <2>3, <2>4, <2>5
<1>2. CASE Expire
  <2> USE DEF Expire
  <2>1. TestType'
    BY <1>2, Fields
  <2>2. Quiet' /\ HoldsLock'
    BY <1>2, <1>n DEF Windows, Tests, DiskStates
  <2>3. MarkerInv'
    BY <1>2, <1>n DEF Windows, Tests, DiskStates
  <2>4. AsideInv'
    BY <1>2, <1>n DEF Windows, Tests, DiskStates
  <2>5. FirstInv' /\ HelperInv'
    BY <1>2, <1>n DEF Windows, Tests, DiskStates
  <2> QED BY <2>1, <2>2, <2>3, <2>4, <2>5
<1>3. CASE SignalReturn
  BY <1>3, <1>n DEF SignalReturn, LockFree, Windows, Tests, DiskStates
<1>4. CASE Restart
  <2> USE DEF Restart
  <2>1. TestType'
    BY <1>4, Fields
  <2>2. Quiet' /\ HoldsLock'
    BY <1>4, <1>n DEF Windows, Tests, DiskStates
  <2>3. MarkerInv'
    BY <1>4, <1>n DEF Windows, Tests, DiskStates
  <2>4. AsideInv'
    BY <1>4, <1>n DEF Windows, Tests, DiskStates
  <2>5. FirstInv' /\ HelperInv'
    BY <1>4, <1>n DEF Windows, Tests, DiskStates
  <2> QED BY <2>1, <2>2, <2>3, <2>4, <2>5
<1>5. CASE ClearFence
  BY <1>5, <1>n DEF ClearFence, LockFree, Windows, Tests, DiskStates
<1> HIDE DEF TestInv
<1> QED BY <1>1, <1>2, <1>3, <1>4, <1>5 DEF ColdCommands

(* The first installation.                                                 *)
LEMMA InstallKeeps ==
  ASSUME TestInv, cycle # "idle", InstallStep \/ InstallCommands
  PROVE  TestInv'
<1>n. None # "first" /\ None # "old"
  BY ConstantsAssumption DEF Routers, Sides
<1>w. window \in Windows /\ test \in Tests /\ TRUE \in BOOLEAN /\ FALSE \in BOOLEAN
  BY DEF TestInv, TestType
<1> USE DEF TestInv, TestType, Quiet, HoldsLock, MarkerInv, AsideInv, FirstInv, NoTest,
            HelperInv, Working, AtPlace, InstallPlaces, Accepting, Stages, Opening,
            Returning, MarkerPhases, Idle, records, retired, xen, actors, vars, cold
<1>c. conf \in [gen: {None, "old", "first"}, auto: BOOLEAN] /\ TRUE \in BOOLEAN
  OBVIOUS
<1>1. CASE Allocate
  <2> USE DEF Allocate, Install
  <2>1. CASE hand.pc = "plan-disk"
    BY <1>1, <2>1, <1>n DEF Windows, Tests, DiskStates
  <2>2. CASE hand.pc = "lvcreate"
    <3>1. TestType'
      BY <1>1, <2>2, Fields, <1>w
    <3>2. Quiet' /\ HoldsLock' /\ MarkerInv'
      BY <1>1, <2>2, <1>n DEF Windows, Tests, DiskStates
    <3>3. AsideInv' /\ FirstInv' /\ HelperInv'
      BY <1>1, <2>2, <1>n DEF Windows, Tests, DiskStates
    <3> QED BY <3>1, <3>2, <3>3
  <2>3. CASE hand.pc = "record-disk"
    BY <1>1, <2>3, <1>n DEF Windows, Tests, DiskStates
  <2>4. CASE hand.pc = "clone"
    BY <1>1, <2>4, <1>n DEF Windows, Tests, DiskStates
  <2> QED BY <1>1, <2>1, <2>2, <2>3, <2>4
<1>2. CASE RecordInstallation
  <2> USE DEF RecordInstallation, Install, InWindow
  <2>1. CASE hand.pc = "plan"
    BY <1>2, <2>1, <1>n DEF Windows, Tests, DiskStates
  <2>2. CASE hand.pc = "allocated"
    BY <1>2, <2>2, <1>n DEF Windows, Tests, DiskStates
  <2>3. CASE hand.pc = "prepared"
    BY <1>2, <2>3, <1>n DEF Windows, Tests, DiskStates
  <2>4. CASE hand.pc = "verified"
    BY <1>2, <2>4, <1>n DEF Windows, Tests, DiskStates
  <2> QED BY <1>2, <2>1, <2>2, <2>3, <2>4
<1>3. CASE BootFirst
  BY <1>3, <1>n DEF BootFirst, Doing, Windows, Tests, DiskStates
<1>4. CASE AcceptFirst
  BY <1>4, <1>n DEF AcceptFirst, Install, Doing, InWindow, Windows, Tests, DiskStates
<1>5. CASE InstallAutostart
  <2> USE DEF InstallAutostart, Install
  <2>1. CASE hand.pc = "define"
    BY <1>5, <2>1, <1>n DEF Windows, Tests, DiskStates
  <2>2. CASE hand.pc = "link-first"
    <3>0. conf' = [conf EXCEPT !.auto = TRUE]
      BY <1>5, <2>2
    <3>1. conf' \in [gen: {None, "old", "first"}, auto: BOOLEAN] /\ conf'.gen = conf.gen
      BY <3>0, <1>c, Definition
    <3>2. TestType' /\ Quiet' /\ HoldsLock'
      BY <1>5, <2>2, <3>1, <1>n DEF Windows, Tests, DiskStates
    <3>3. MarkerInv' /\ AsideInv' /\ FirstInv' /\ HelperInv'
      BY <1>5, <2>2, <1>n DEF Windows, Tests, DiskStates
    <3> QED BY <3>2, <3>3
  <2>3. CASE hand.pc = "persist-first"
    BY <1>5, <2>3, <1>n DEF Windows, Tests, DiskStates
  <2> QED BY <1>5, <2>1, <2>2, <2>3
<1>6. CASE RecordFinal
  BY <1>6, <1>n DEF RecordFinal, Doing, Windows, Tests, DiskStates
<1>7. CASE FirstFinalizerEnds
  BY <1>7, <1>n DEF FirstFinalizerEnds, Windows, Tests, DiskStates
<1>8. CASE InstallFails
  BY <1>8, <1>n DEF InstallFails, Spend, Windows, Tests, DiskStates
<1>9. CASE StartPreparation
  BY <1>9, <1>n DEF StartPreparation, Bare, Install, InWindow, LockFree, ResumesAt,
                    Windows, Tests, DiskStates
<1>10. CASE StartFirst
  <2> USE DEF StartFirst, Bare, Install, InWindow, LockFree
  <2>1. TestType'
    BY <1>10, Fields
  <2>2. Quiet' /\ HoldsLock'
    BY <1>10, <1>n DEF Windows, Tests, DiskStates
  <2>3. MarkerInv'
    BY <1>10, <1>n DEF Windows, Tests, DiskStates
  <2>4. AsideInv'
    BY <1>10, <1>n DEF Windows, Tests, DiskStates
  <2>5. FirstInv' /\ HelperInv'
    BY <1>10, <1>n DEF Windows, Tests, DiskStates
  <2> QED BY <2>1, <2>2, <2>3, <2>4, <2>5
<1>11. CASE EnrollFirst
  BY <1>11, <1>n DEF EnrollFirst, InWindow, LockFree, Windows, Tests, DiskStates
<1>12. CASE StopFirst
  BY <1>12, <1>n DEF StopFirst, InWindow, LockFree, Windows, Tests, DiskStates
<1>13. CASE FinalizeFirst
  BY <1>13, <1>n DEF FinalizeFirst, Located, Install, InWindow, LockFree, Windows, Tests,
                     DiskStates
<1>14. CASE StartFinal
  BY <1>14, <1>n DEF StartFinal, Located, Bare, InWindow, LockFree, Windows, Tests,
                     DiskStates
<1>15. CASE StartAcceptance
  BY <1>15, <1>n DEF StartAcceptance, Install, InWindow, LockFree, Windows, Tests,
                     DiskStates
<1> HIDE DEF TestInv
<1> QED BY <1>1, <1>2, <1>3, <1>4, <1>5, <1>6, <1>7, <1>8, <1>9, <1>10, <1>11, <1>12,
           <1>13, <1>14, <1>15 DEF InstallStep, InstallCommands

(* Failures of the worker and of dom0.                                     *)
LEMMA FailureKeeps ==
  ASSUME TestInv, cycle # "idle", ColdFailures
  PROVE  TestInv'
<1>n. None # "first" /\ None # "old"
  BY ConstantsAssumption DEF Routers, Sides
<1>w. window \in Windows /\ test \in Tests /\ TRUE \in BOOLEAN /\ FALSE \in BOOLEAN
  BY DEF TestInv, TestType
<1> USE DEF TestInv, TestType, Quiet, HoldsLock, MarkerInv, AsideInv, FirstInv, NoTest,
            HelperInv, Working, AtPlace, InstallPlaces, Accepting, Stages, Opening,
            Returning, MarkerPhases, Idle, records, retired, xen, actors, vars, cold
<1>1. CASE ColdFails
  <2> USE DEF ColdFails, Spend, Raise
  <2>1. TestType'
    BY <1>1, Fields
  <2>2. Quiet' /\ HoldsLock'
    <3>1. CASE hand.do = "cold"
      BY <1>1, <3>1, <1>n DEF Windows, Tests, DiskStates
    <3>2. CASE hand.do # "cold"
      BY <1>1, <3>2, <1>n DEF Windows, Tests, DiskStates
    <3> QED BY <3>1, <3>2
  <2>3. MarkerInv'
    BY <1>1, <1>n DEF Windows, Tests, DiskStates
  <2>4. AsideInv'
    BY <1>1, <1>n DEF Windows, Tests, DiskStates
  <2>5. FirstInv' /\ HelperInv'
    BY <1>1, <1>n DEF Windows, Tests, DiskStates
  <2> QED BY <2>1, <2>2, <2>3, <2>4, <2>5
<1>2. CASE LockBusy
  <2> USE DEF LockBusy, Spend, Locking, Raise
  <2>1. TestType'
    BY <1>2, Fields
  <2>2. Quiet' /\ HoldsLock'
    BY <1>2, <1>n DEF Windows, Tests, DiskStates
  <2>3. MarkerInv'
    BY <1>2, <1>n DEF Windows, Tests, DiskStates
  <2>4. AsideInv'
    BY <1>2, <1>n DEF Windows, Tests, DiskStates
  <2>5. FirstInv' /\ HelperInv'
    BY <1>2, <1>n DEF Windows, Tests, DiskStates
  <2> QED BY <2>1, <2>2, <2>3, <2>4, <2>5
<1>3. CASE ColdKilled
  <2> USE DEF ColdKilled, Spend
  <2>1. TestType'
    BY <1>3, Fields
  <2>2. Quiet' /\ HoldsLock'
    <3>1. CASE hand.do = "cold"
      BY <1>3, <3>1, <1>n DEF Windows, Tests, DiskStates
    <3>2. CASE hand.do # "cold"
      BY <1>3, <3>2, <1>n DEF Windows, Tests, DiskStates
    <3> QED BY <3>1, <3>2
  <2>3. MarkerInv'
    BY <1>3, <1>n DEF Windows, Tests, DiskStates
  <2>4. AsideInv'
    BY <1>3, <1>n DEF Windows, Tests, DiskStates
  <2>5. FirstInv' /\ HelperInv'
    BY <1>3, <1>n DEF Windows, Tests, DiskStates
  <2> QED BY <2>1, <2>2, <2>3, <2>4, <2>5
<1>4. CASE Damage
  BY <1>4, <1>n DEF Damage, Spend, Windows, Tests, DiskStates
<1>5. CASE ColdPowerLoss
  BY <1>5, <1>n DEF ColdPowerLoss, PowerLoss, Spend, Windows, Tests, DiskStates
<1> HIDE DEF TestInv
<1> QED BY <1>1, <1>2, <1>3, <1>4, <1>5 DEF ColdFailures

(* The places at which a command may hold the lock during a test.          *)
TestPlaces ==
  {"idle", "read"} \cup InstallPlaces \cup
  {"holding", "rename-away", "held", "opening", "unlink-link", "unlink-definition",
   "unlink-accepted", "persist-bare", "open", "removal", "unlink-installation",
   "disk-retiring", "remove-disk", "disk-retired", "restoring", "repair", "rename-back",
   "put-definition", "put-accepted", "put-link"}

(* During a test the lock is held by a reader, the installation or the     *)
(* cold worker.                                                            *)
LEMMA InATest ==
  ASSUME HoldsLock
  PROVE  hand.pc \in TestPlaces /\ hand.do \in {"none", "status", "install", "cold"}
  BY DEF HoldsLock, Idle, TestPlaces, InstallPlaces, Accepting, AtPlace

(* Nothing of a cutover is at work during a test, but a command that       *)
(* reads.                                                                  *)
LEMMA OnlyStatus ==
  ASSUME HoldsLock
  PROVE  Worker => EndStatus
<1>1. hand.pc \in TestPlaces
  BY InATest
<1> USE DEF TestPlaces, InstallPlaces, Accepting
<1>2. ~Checkpoint
  BY <1>1 DEF Checkpoint, Phases, CutoverPhases, RecoveryPhases
<1>3. ~Unlink /\ ~Persist /\ ~RecordAttempt
  BY <1>1 DEF Unlink, Persist, RecordAttempt
<1>4. ASSUME NEW s \in Sides PROVE ~AskShutdown(s) /\ ~Stop(s) /\ ~Kill(s)
  <2>1. /\ StopOf[s] \in {"stop old", "stop candidate"}
        /\ KillOf[s] \in {"kill old", "kill candidate"}
    <3>1. StopOf["old"] = "stop old" /\ StopOf["candidate"] = "stop candidate"
      BY DEF StopOf
    <3>2. KillOf["old"] = "kill old" /\ KillOf["candidate"] = "kill candidate"
      BY DEF KillOf
    <3> QED BY <3>1, <3>2 DEF Sides
  <2>2. hand.pc # StopOf[s] /\ hand.pc # KillOf[s]
    BY <1>1, <2>1
  <2> QED BY <2>2 DEF AskShutdown, Stop, Kill
<1>5. ASSUME NEW d \in Directions PROVE ~StartCopy(d) /\ ~EndCopy(d) /\ ~VerifyCopy(d)
  <2>1. /\ CopyOf[d] \in {"copy forward", "copy reverse"}
        /\ WaitOf[d] \in {"wait forward", "wait reverse"}
        /\ CheckOf[d] \in {"verify forward", "verify reverse"}
    <3>1. CopyOf["forward"] = "copy forward" /\ CopyOf["reverse"] = "copy reverse"
      BY DEF CopyOf
    <3>2. WaitOf["forward"] = "wait forward" /\ WaitOf["reverse"] = "wait reverse"
      BY DEF WaitOf
    <3>3. CheckOf["forward"] = "verify forward" /\ CheckOf["reverse"] = "verify reverse"
      BY DEF CheckOf
    <3> QED BY <3>1, <3>2, <3>3 DEF Directions
  <2>2. hand.pc # CopyOf[d] /\ hand.pc # WaitOf[d] /\ hand.pc # CheckOf[d]
    BY <1>1, <2>1
  <2> QED BY <2>2 DEF StartCopy, EndCopy, VerifyCopy
<1>6. ~Start /\ ~CheckLocal
  BY <1>1 DEF Start, CheckLocal, Starts, Checks
<1>7. ~AwaitEnrollment /\ ~Finalize /\ ~AwaitFinalizer /\ ~AwaitAcceptance
  BY <1>1 DEF AwaitEnrollment, Finalize, AwaitFinalizer, AwaitAcceptance
<1>8. ~Commit /\ ~Select /\ ~Link /\ ~Complete /\ ~Unpend
  BY <1>1 DEF Commit, Select, Link, Complete, Unpend
<1>9. ~FenceHelper /\ ~Decide
  BY <1>1 DEF FenceHelper, Decide
<1>10. ~SaveProgress /\ ~Retire
  BY <1>1 DEF SaveProgress, Retire
<1> QED BY <1>2, <1>3, <1>4, <1>5, <1>6, <1>7, <1>8, <1>9, <1>10 DEF Worker

(* The commands, guests and boots of the transaction during a test: no     *)
(* cutover begins, since it refuses the marker, and none was pending.      *)
LEMMA TransactionKeeps ==
  ASSUME TestInv, cycle # "idle", Transaction, OneOperation
  PROVE  TestInv'
<1>n. None # "first" /\ None # "old" /\ None \notin Directions /\ None # "finalizer"
  BY ConstantsAssumption DEF Routers, Sides
<1>d. hand.do \in {"none", "status", "install", "cold"}
  BY InATest DEF TestInv
<1>q. pending = None /\ complete = None /\ helper \in {None, "first-finalizer"}
  BY DEF TestInv, Quiet
<1>w. UNCHANGED cold
  BY DEF Transaction
<1>1. ~StartCutover /\ ~Recover /\ ~StartCleanup /\ ~Fail
  <2>1. ~StartCutover
    <3>1. [phase |-> "armed", candidate_started |-> FALSE, old_started |-> FALSE,
           fenced |-> FALSE] \in Pending
      BY DEF Pending, Phases, CutoverPhases
    <3>2. StartCutover => pending' # None /\ marker = "none"
      BY <3>1, ConstantsAssumption DEF StartCutover
    <3> QED BY <1>q, <3>2 DEF OneOperation
  <2>2. ~Recover /\ ~StartCleanup
    BY <1>q DEF Recover, StartCleanup, Planned
  <2>3. ~Fail
    BY <1>d DEF Fail, FailCutover, FailRecovery, FailFence, FailCleanup, Recovering
  <2> QED BY <2>1, <2>2, <2>3
<1>2. ~CheckEnrollment /\ ~CheckAcceptance
  BY <1>q DEF CheckEnrollment, CheckAcceptance
<1>3. ~FinalizerEnds /\ \A d \in Directions : ~HelperCopies(d)
  BY <1>q, <1>n DEF FinalizerEnds, HelperCopies, Directions
<1> USE DEF TestInv, TestType, Quiet, HoldsLock, MarkerInv, AsideInv, FirstInv, NoTest,
            HelperInv, Working, AtPlace, InstallPlaces, Accepting, Opening, Returning,
            MarkerPhases, LockFree, Idle, records, retired, xen, actors, vars, cold, Spend
<1>4. CASE EndStatus
  BY <1>n, <1>w, <1>4, <1>q DEF EndStatus, Run
<1>5. CASE AdoptBaseline
  BY <1>n, <1>w, <1>5, <1>q DEF AdoptBaseline, Run
<1>6. CASE SupervisorRecovers
  BY <1>n, <1>w, <1>6, <1>q DEF SupervisorRecovers, Run
<1>7. CASE SupervisorLoses
  BY <1>n, <1>w, <1>7, <1>q DEF SupervisorLoses, Run
<1>8. CASE TakeStatus
  BY <1>n, <1>w, <1>8, <1>q DEF TakeStatus, Run
<1>9. CASE PublishDevice
  BY <1>n, <1>w, <1>9, <1>q DEF PublishDevice, Run
<1>10. CASE PublishEnrollment
  BY <1>n, <1>w, <1>10, <1>q DEF PublishEnrollment, Run
<1>11. CASE PublishAcceptance
  BY <1>n, <1>w, <1>11, <1>q DEF PublishAcceptance, Run
<1>12. CASE SignalLost
  BY <1>n, <1>w, <1>12, <1>q DEF SignalLost, Run
<1>13. CASE BootRecover
  BY <1>n, <1>w, <1>13, <1>q DEF BootRecover, Run
<1>14. CASE FenceAutostart
  <2>1. /\ conf \in [gen: {None, "old", "first"}, auto: BOOLEAN]
        /\ conf' = [conf EXCEPT !.auto = FALSE]
    BY <1>14 DEF FenceAutostart
  <2>2. /\ conf' \in [gen: {None, "old", "first"}, auto: BOOLEAN]
        /\ conf'.gen = conf.gen /\ conf'.auto = FALSE
    BY <2>1, Definition
  <2>3. /\ UNCHANGED <<records, marker, xen, hand>> /\ saved' \in {saved, conf'}
        /\ mode = "fence" /\ mode' = "xendomains"
    BY <1>14 DEF FenceAutostart
  <2> QED BY <1>n, <1>w, <2>2, <2>3
<1>15. CASE Xendomains
  BY <1>n, <1>w, <1>15, <1>q DEF Xendomains, Run
<1>16. CASE OtherCommit
  BY <1>n, <1>w, <1>16, <1>q DEF OtherCommit, Run
<1>17. CASE HelperDies
  BY <1>n, <1>w, <1>17, <1>q DEF HelperDies, Run
<1>18. CASE GuestDies
  BY <1>n, <1>w, <1>18, <1>q DEF GuestDies, Run
<1>19. ASSUME NEW s \in Sides, GuestEnds(s) PROVE TestInv'
  BY <1>n, <1>w, <1>19, <1>q DEF GuestEnds, Sides
<1>20. CASE hand.do # "cold" /\ ProcessKilled
  BY <1>n, <1>w, <1>20, <1>q DEF ProcessKilled, Return
<1>21. CASE Worker
  BY <1>21, <1>4, OnlyStatus
<1> HIDE DEF TestInv
<1> QED
  BY <1>1, <1>2, <1>3, <1>4, <1>5, <1>6, <1>7, <1>8, <1>9, <1>10, <1>11, <1>12, <1>13,
     <1>14, <1>15, <1>16, <1>17, <1>18, <1>19, <1>20, <1>21
  DEF Transaction, Commands, Controller, Guests, Boot

-----------------------------------------------------------------------------
(* A box with the cold test: the transaction, then perhaps a test.         *)

(* What holds of the transaction while no test was armed.                  *)
TransactionInv == RouterInv /\ NoWayBack /\ LinkGone /\ FreshInv /\ FenceInv

(* No test has begun.                                                      *)
Untouched ==
  /\ window = [expired |-> FALSE, held |-> FALSE, backup |-> FALSE, ready |-> "no",
               returning |-> FALSE, archive |-> "none", removing |-> FALSE,
               raised |-> FALSE, result |-> FALSE]
  /\ test = [stage |-> "none", disk |-> "none", lv |-> FALSE, booted |-> FALSE,
             final |-> "none"]

(* Before the first arming the transaction's own invariant holds; from it  *)
(* on, the invariant of the test.                                          *)
ColdInv ==
  /\ cycle = "idle" => TransactionInv /\ Untouched
  /\ cycle # "idle" => TestInv

(* The initial states.                                                     *)
LEMMA TransactionInit ==
  ASSUME Init
  PROVE  TransactionInv
<1>1. hand.do = "none" /\ pending = None /\ accepted # "candidate"
  BY ConstantsAssumption DEF Init, Idle, Routers, Sides
<1>2. NoWayBack /\ LinkGone
  BY <1>1 DEF NoWayBack, LinkGone
<1>3. FenceInv
  BY <1>1 DEF FenceInv, FailedIsFenced, Failed, Movers, Recovering
<1> QED BY <1>2, <1>3, RouterInit, FreshInit DEF TransactionInv

(* A step of the transaction, as the theorems above have it.               *)
LEMMA TransactionStep ==
  ASSUME TransactionInv, [RouterNext]_vars
  PROVE  TransactionInv'
<1>1. RouterInv /\ NoWayBack /\ LinkGone /\ FreshInv /\ FenceInv
  BY DEF TransactionInv
<1>2. RecordInv /\ StartedInv /\ CopiesInv
  BY <1>1 DEF FreshInv
<1>3. RecordInv' /\ StartedInv'
  BY <1>1, <1>2, RecordNext, StartedNext
<1>4. CopiesInv' /\ ServedInv'
  BY <1>1, <1>3, CopiesNext, ServedNext
<1>5. RouterInv' /\ NoWayBack' /\ LinkGone' /\ FenceInv'
  BY <1>1, RouterStep, NoWayBackNext, LinkGoneNext, FenceNext
<1> QED BY <1>3, <1>4, <1>5 DEF TransactionInv, FreshInv

(* Until a test is armed, a step is one of the transaction.                *)
LEMMA BeforeATest ==
  ASSUME cycle = "idle", TransactionInv, Untouched, [ColdNext]_cvars
  PROVE  \/ Arm /\ OneOperation
         \/ [RouterNext]_vars /\ UNCHANGED cold
<1>1. marker = "none" /\ helper # "first-finalizer"
  BY ColdAssumption DEF TransactionInv, RouterInv, BaselineInv, TypeInv, XenType, Directions
<1>2. hand.do # "cold" /\ hand.do # "install"
  BY DEF TransactionInv, RouterInv, HandInv, Idle, InProgram
<1>3. /\ cycle \notin Opening \cup Returning /\ cycle \notin Locking
      /\ cycle \notin {"dead", "over"}
  BY DEF Opening, Returning, Locking
<1>4. ~InWindow
  BY <1>1 DEF InWindow
<1>5. ~ColdStep
  <2>1. \A pc : ~Step(pc)
    BY <1>2 DEF Step
  <2>2. /\ ~AskOriginal /\ ~StopOriginal /\ ~CopyOriginal /\ ~Hold /\ ~OpenTarget
        /\ ~PublishReady /\ ~EndWait /\ ~FenceNewWork /\ ~BeginReturn /\ ~StopTest
        /\ ~Archive /\ ~RemoveSelectors /\ ~RetireDisk /\ ~RestoreDisk /\ ~RestoreMetadata
    BY <1>3
    DEF At, Opening, Returning, AskOriginal, StopOriginal, CopyOriginal, Hold, OpenTarget,
        PublishReady, EndWait, FenceNewWork, BeginReturn, StopTest, Archive, RemoveSelectors,
        RetireDisk, RestoreDisk, RestoreMetadata
  <2>3. ~CommitOriginal /\ ~StartOriginal /\ ~VerifyRestored /\ ~ColdRefuses
    BY <1>3
    DEF At, Opening, Returning, CommitOriginal, StartOriginal, VerifyRestored, ColdRefuses
  <2>4. /\ ~MarkPhase /\ ~Rename /\ ~Repair /\ ~RecordRemoval /\ ~UnlinkBoot /\ ~UnlinkAccepted
        /\ ~UnlinkInstallation /\ ~PersistBare /\ ~RetireTestDisk /\ ~PutBack
    BY <2>1
    DEF MarkPhase, Rename, Repair, RecordRemoval, UnlinkBoot, UnlinkAccepted,
        UnlinkInstallation, PersistBare, RetireTestDisk, PutBack
  <2> QED BY <2>2, <2>3, <2>4 DEF ColdStep
<1>6. ~Expire /\ ~SignalReturn /\ ~Restart /\ ~ClearFence
  BY <1>1 DEF Expire, SignalReturn, Restart, ClearFence
<1>7. ~InstallStep /\ ~InstallCommands
  <2>1. /\ ~Allocate /\ ~RecordInstallation /\ ~BootFirst /\ ~AcceptFirst /\ ~InstallAutostart
        /\ ~RecordFinal /\ ~FirstFinalizerEnds /\ ~InstallFails
    BY <1>1, <1>2
    DEF Doing, Allocate, RecordInstallation, BootFirst, AcceptFirst, InstallAutostart,
        RecordFinal, FirstFinalizerEnds, InstallFails
  <2>2. /\ ~StartPreparation /\ ~StartFirst /\ ~EnrollFirst /\ ~StopFirst /\ ~FinalizeFirst
        /\ ~StartFinal /\ ~StartAcceptance
    BY <1>4
    DEF StartPreparation, StartFirst, EnrollFirst, StopFirst, FinalizeFirst, StartFinal,
        StartAcceptance
  <2> QED BY <2>1, <2>2 DEF InstallStep, InstallCommands
<1>8. ~ColdFails /\ ~LockBusy /\ ~ColdKilled /\ ~Damage
  BY <1>1, <1>3 DEF ColdFails, LockBusy, ColdKilled, Damage
<1>9. ColdPowerLoss => RouterNext /\ UNCHANGED cold
  BY DEF ColdPowerLoss, RouterNext, Failures, cold
<1>10. Transaction => RouterNext /\ UNCHANGED cold
  BY DEF Transaction, RouterNext, Failures
<1>11. CASE UNCHANGED cvars
  BY <1>11 DEF cvars
<1>12. CASE ColdNext
  BY <1>5, <1>6, <1>7, <1>8, <1>9, <1>10, <1>12 DEF ColdNext, ColdCommands, ColdFailures
<1> QED BY <1>11, <1>12

(* Arming begins a test from a settled baseline.                           *)
LEMMA ArmBegins ==
  ASSUME cycle = "idle", TransactionInv, Untouched, Arm, OneOperation
  PROVE  TestInv' /\ cycle' # "idle"
<1>n. None # "first" /\ None # "old" /\ None # "candidate"
  BY ConstantsAssumption DEF Routers, Sides
<1>1. /\ hand = Idle /\ mode = "up" /\ marker = "none" /\ pending = None
      /\ accepted = "old" /\ live = {"old"}
      /\ marker' = "armed" /\ cycle' = "stop"
      /\ window' = [window EXCEPT !.expired = FALSE, !.raised = FALSE]
      /\ UNCHANGED <<records, conf, saved, xen, hand, mode, test>>
  BY DEF Arm, LockFree
<1>2. complete = None
  BY <1>1 DEF OneOperation
<1>3. helper = None /\ "old" \in fresh
  BY <1>1 DEF TransactionInv, RouterInv, Apart, FreshInv, ServedInv
<1>4. /\ conf \in [gen: Sides, auto: BOOLEAN] /\ conf.gen = "old"
      /\ saved \in [gen: Sides, auto: BOOLEAN] /\ saved.gen = "old"
  BY <1>1 DEF TransactionInv, RouterInv, TypeInv, XenType, FreshInv, RecordInv
<1>5. /\ conf \in [gen: {None, "old", "first"}, auto: BOOLEAN]
      /\ saved \in [gen: {None, "old", "first"}, auto: BOOLEAN]
  BY <1>4
<1>6. window' \in Windows /\ ~window'.held /\ window'.archive = "none"
  BY <1>1 DEF Untouched, Windows, DiskStates
<1>7. test' \in Tests /\ test'.stage = "none" /\ ~test'.lv
  BY <1>1 DEF Untouched, Tests, Stages, DiskStates
<1>8. TestType' /\ Quiet'
  BY <1>1, <1>2, <1>3, <1>5, <1>6, <1>7
  DEF TestType, Quiet, Opening, MarkerPhases, records, xen
<1>9. HoldsLock' /\ MarkerInv' /\ hand'.do = "none"
  BY <1>1 DEF HoldsLock, MarkerInv, Idle, Working
<1>10. AsideInv'
  BY <1>1, <1>3, <1>4, <1>6, <1>9 DEF AsideInv, Working, xen
<1>11. FirstInv'
  BY <1>1, <1>4, <1>6, <1>7, <1>9, <1>n DEF FirstInv, NoTest, Working, xen, records
<1>12. HelperInv'
  BY <1>1, <1>3, <1>9 DEF HelperInv, xen
<1> QED BY <1>1, <1>8, <1>9, <1>10, <1>11, <1>12 DEF TestInv

(* Every step during a test keeps its invariant, and no test is unmade.    *)
LEMMA TestStep ==
  ASSUME cycle # "idle", TestInv, [ColdNext]_cvars
  PROVE  TestInv' /\ cycle' # "idle"
<1>1. TestInv'
  <2>1. CASE UNCHANGED cvars
    BY <2>1
    DEF cvars, vars, cold, records, xen, TestInv, TestType, Quiet, HoldsLock, MarkerInv,
        AsideInv, FirstInv, NoTest, HelperInv, Working, AtPlace
  <2>2. CASE Transaction /\ OneOperation
    BY <2>2, TransactionKeeps
  <2>3. CASE ColdStep
    BY <2>3, WalkKeeps, LockedKeeps DEF ColdStep, Walk, Locked
  <2>4. CASE ColdCommands
    BY <2>4, CommandKeeps
  <2>5. CASE InstallStep \/ InstallCommands
    BY <2>5, InstallKeeps
  <2>6. CASE ColdFailures
    BY <2>6, FailureKeeps
  <2> QED BY <2>1, <2>2, <2>3, <2>4, <2>5, <2>6 DEF ColdNext
<1>2. cycle' # "idle"
  BY <1>1 DEF TestInv, TestType, Opening, Returning
<1> QED BY <1>1, <1>2

(* Both regimes together are inductive.                                    *)
LEMMA ColdInvariant == ColdSpec => []ColdInv
<1>1. ColdInit => ColdInv
  BY TransactionInit DEF ColdInit, ColdInv, Untouched
<1>2. ColdInv /\ [ColdNext]_cvars => ColdInv'
  <2> SUFFICES ASSUME ColdInv, [ColdNext]_cvars PROVE ColdInv'
    OBVIOUS
  <2>1. CASE cycle # "idle"
    BY <2>1, TestStep DEF ColdInv
  <2>2. CASE cycle = "idle"
    <3>1. TransactionInv /\ Untouched
      BY <2>2 DEF ColdInv
    <3>2. CASE Arm /\ OneOperation
      BY <2>2, <3>1, <3>2, ArmBegins DEF ColdInv
    <3>3. CASE [RouterNext]_vars /\ UNCHANGED cold
      <4>1. TransactionInv'
        BY <3>1, <3>3, TransactionStep
      <4>2. Untouched' /\ cycle' = cycle
        BY <3>1, <3>3 DEF cold, Untouched
      <4> QED BY <2>2, <4>1, <4>2 DEF ColdInv
    <3> QED BY <2>2, <3>1, <3>2, <3>3, BeforeATest
  <2> QED BY <2>1, <2>2
<1> QED BY <1>1, <1>2, PTL DEF ColdSpec

(* The boot fence of a test goes only when nothing of the test is left:    *)
(* clear() asks for the accepted original alone, and the return removes    *)
(* the selectors, the disk and the hold name of the test before the marker *)
(* can say restoring, whatever stopped it on the way.                      *)
THEOREM ClearedCorrect == ColdSpec => []ClearedIsOriginal
<1>1. ColdInv => ClearedIsOriginal
  <2> SUFFICES ASSUME ColdInv, marker = "none" PROVE ClearedIsOriginal
    BY DEF ClearedIsOriginal
  <2>1. CASE cycle = "idle"
    <3>1. /\ accepted \in Sides \cup {None} /\ live \subseteq Sides
          /\ conf.gen \in Sides /\ saved.gen \in Sides
      BY <2>1 DEF ColdInv, TransactionInv, RouterInv, TypeInv, XenType, BaselineInv
    <3>2. "first" \notin Sides /\ None # "first"
      BY ConstantsAssumption DEF Sides, Routers
    <3>3. ~window.held /\ test.stage = "none" /\ ~test.lv
      BY <2>1 DEF ColdInv, Untouched
    <3> QED BY <3>1, <3>2, <3>3 DEF ClearedIsOriginal
  <2>2. CASE cycle # "idle"
    <3>1. TestType /\ Quiet /\ AsideInv /\ FirstInv
      BY <2>2 DEF ColdInv, TestInv
    <3>2. ~window.held
      BY <3>1 DEF AsideInv
    <3>3. NoTest
      BY <3>1 DEF FirstInv
    <3>4. "first" \notin live
      BY <3>1, <3>3 DEF NoTest, Quiet
    <3> QED BY <3>2, <3>3, <3>4 DEF NoTest, ClearedIsOriginal
  <2> QED BY <2>1, <2>2
<1> QED BY <1>1, ColdInvariant, PTL

(* While the marker stands, the original's disk or its verified backup has *)
(* the newest state, and an original that runs runs on it: the repair      *)
(* writes only a disk that never ran under its hold name.                  *)
THEOREM OriginalKept == ColdSpec => []OriginalIsKept
<1>1. ColdInv => OriginalIsKept
  <2> SUFFICES ASSUME ColdInv, marker # "none" PROVE OriginalIsKept
    BY DEF OriginalIsKept
  <2>1. cycle # "idle"
    BY DEF ColdInv, TransactionInv, RouterInv, BaselineInv
  <2>2. AsideInv /\ Quiet
    BY <2>1 DEF ColdInv, TestInv
  <2>3. CASE window.held
    BY <2>2, <2>3 DEF AsideInv, Quiet, OriginalIsKept
  <2>4. CASE ~window.held
    BY <2>2, <2>4 DEF AsideInv, OriginalIsKept
  <2> QED BY <2>3, <2>4
<1> QED BY <1>1, ColdInvariant, PTL

-----------------------------------------------------------------------------
(* What the transaction promises, in a box with the cold test.             *)

(* No disk of a router is served twice during a test: the original stops   *)
(* before it is set aside, and a first router stops before the original    *)
(* returns.                                                                *)
LEMMA TestPromises ==
  ASSUME TestInv
  PROVE  OneRouter /\ StateIsKept /\ FailedIsFenced
<1>1. OneRouter
  <2>1. Cardinality(live) <= 1
    <3>1. Cardinality({}) = 0 /\ Cardinality({"old"}) = 1 /\ Cardinality({"first"}) = 1
      BY FS_EmptySet, FS_Singleton
    <3>2. live = {} \/ live = {"old"} \/ live = {"first"}
      BY DEF TestInv, Quiet
    <3> QED BY <3>1, <3>2
  <2>2. helper # None => live = {}
    BY DEF TestInv, HelperInv
  <2> QED BY <2>1, <2>2 DEF OneRouter
<1>2. StateIsKept
  <2>1. fresh # {}
    BY DEF TestInv, AsideInv
  <2>2. live \cap Sides \subseteq fresh
    BY DEF TestInv, AsideInv, Quiet, Sides
  <2>3. hand.pc \notin Starts
    <3>1. hand.pc \in TestPlaces
      BY InATest DEF TestInv
    <3> QED BY <3>1 DEF TestPlaces, InstallPlaces, Accepting, Starts
  <2>4. mode = "xendomains" /\ conf.auto => conf.gen \in fresh
    BY DEF TestInv, MarkerInv, AsideInv
  <2> QED BY <2>1, <2>2, <2>3, <2>4 DEF StateIsKept
<1>3. FailedIsFenced
  BY DEF TestInv, Quiet, FailedIsFenced, Failed
<1> QED BY <1>1, <1>2, <1>3

(* Both regimes keep the promises.                                         *)
LEMMA ColdPromises ==
  ASSUME ColdInv
  PROVE  OneRouter /\ StateIsKept /\ FailedIsFenced
<1>1. CASE cycle = "idle"
  BY <1>1, OneAtATime, StateStands DEF ColdInv, TransactionInv, FenceInv
<1>2. CASE cycle # "idle"
  BY <1>2, TestPromises DEF ColdInv
<1> QED BY <1>1, <1>2

(* Also with a cold test, which runs a router of its own and guests that   *)
(* inspect or finalize disks, one guest at a time has a router's disk.     *)
THEOREM ColdOneRouter == ColdSpec => []OneRouter
<1>1. ColdInv => OneRouter
  BY ColdPromises
<1> QED BY <1>1, ColdInvariant, PTL

(* Also with a cold test the newest state is never lost, nor a router      *)
(* started, by a command, the worker or a boot, without it.                *)
THEOREM ColdStateKept == ColdSpec => []StateIsKept
<1>1. ColdInv => StateIsKept
  BY ColdPromises
<1> QED BY <1>1, ColdInvariant, PTL

(* A test neither begins over a failed recovery nor undoes its fence.      *)
THEOREM ColdFenceHolds == ColdSpec => []FailedIsFenced
<1>1. ColdInv => FailedIsFenced
  BY ColdPromises
<1> QED BY <1>1, ColdInvariant, PTL

(* During a test the selection stands, and what starts or ends of it is    *)
(* the original: the first router is no generation of the promise.         *)
LEMMA TestPromise ==
  ASSUME accepted # "candidate", accepted' # "candidate",
         live  \in {{}, {"old"}, {"first"}}, live' \in {{}, {"old"}, {"first"}}
  PROVE  [Selection!Next]_(Selection!vars)
<1>n. None \notin Sides /\ "old" \in Sides /\ "first" \notin Sides
  BY ConstantsAssumption DEF Routers, Sides
<1>1. Running \in {None, "old"} /\ Running' \in {None, "old"}
  <2>1. live \cap Sides \subseteq {"old"} /\ live' \cap Sides \subseteq {"old"}
    BY <1>n
  <2>2. /\ live \cap Sides # {} => (CHOOSE s \in live \cap Sides : TRUE) \in live \cap Sides
        /\ live' \cap Sides # {} => (CHOOSE s \in live' \cap Sides : TRUE) \in live' \cap Sides
    OBVIOUS
  <2> QED BY <2>1, <2>2 DEF Running
<1>2. CASE Running' = Running
  BY <1>2 DEF Selection!vars, Running
<1>3. CASE Running' # Running
  <2>1. Selection!Run
    BY <1>1, <1>3, <1>n DEF Selection!Run, Selection!New, Running
  <2> QED BY <2>1 DEF Selection!Next
<1> QED BY <1>2, <1>3

(* The cold test keeps the promise: no step of the window, the return or   *)
(* the first installation selects another generation for the box, and a    *)
(* cutover beside it changes the selection once, or not at all.            *)
THEOREM ColdImplements == ColdSpec => ImplementsSelection
<1>1. ColdInit => Selection!Init
  BY PromiseInit DEF ColdInit
<1>2. ColdInv /\ ColdInv' /\ [ColdNext]_cvars => [Selection!Next]_(Selection!vars)
  <2> SUFFICES ASSUME ColdInv, ColdInv', [ColdNext]_cvars
               PROVE  [Selection!Next]_(Selection!vars)
    OBVIOUS
  <2>n. None # "candidate" /\ None # "first"
    BY ConstantsAssumption DEF Routers, Sides
  <2>1. CASE cycle # "idle"
    <3>1. TestInv /\ TestInv'
      BY <2>1, TestStep DEF ColdInv
    <3>2. /\ accepted # "candidate" /\ accepted' # "candidate"
          /\ live \in {{}, {"old"}, {"first"}} /\ live' \in {{}, {"old"}, {"first"}}
      BY <2>n, <3>1 DEF TestInv, Quiet
    <3> QED BY <3>2, TestPromise
  <2>2. CASE cycle = "idle"
    <3>1. TransactionInv /\ Untouched
      BY <2>2 DEF ColdInv
    <3>2. CASE Arm
      <4>1. live' = live /\ accepted' = accepted
        BY <3>2 DEF Arm, records, xen
      <4> QED BY <4>1 DEF Selection!vars
    <3>3. CASE [RouterNext]_vars /\ UNCHANGED cold
      <4>1. TransactionInv'
        BY <3>1, <3>3, TransactionStep
      <4> QED BY <3>1, <3>3, <4>1, PromiseStep DEF TransactionInv
    <3> QED BY <2>2, <3>1, <3>2, <3>3, BeforeATest
  <2> QED BY <2>1, <2>2
<1> QED BY <1>1, <1>2, ColdInvariant, PTL DEF ColdSpec, ImplementsSelection, Selection!Spec

=============================================================================
