-------------------------- MODULE VmTransactionProofs --------------------------
(***************************************************************************)
(* Theorems about the VM transaction, for any number of roles, operations  *)
(* and failures: its records and its write boundary, then the live guests  *)
(* and the promise of GenerationSelection.  Last, about service updates:   *)
(* sessions and the dispatcher do only what the transaction allows, so     *)
(* that all theorems about it hold for them, and what they accept has been *)
(* verified.                                                               *)
(***************************************************************************)
EXTENDS VmService, TLAPS

(* Whoever has a journal has a frozen source.                              *)
SourceKnown == \A o \in Ops : stage[o] # "none" => source[o].gen \in Generations

(* What the command holding the lock has recorded by the place it is at.   *)
Publishing == hand.pc \in {"config", "link", "persist"}

HandFollows ==
  LET s == stage[hand.op]
  IN  \/ hand.do = "arm" /\ hand.pc \in {"publish", "watch", "bind"} /\ s = "armed"
      \/ hand.do = "adopt" /\ (Publishing \/ hand.pc = "publish") /\ s = "adopted"
      \/ hand.do = "stop" /\ hand.pc \in {"shutdown", "gone"} /\ s = "stopping"
      \/ hand.do = "finalize" /\ hand.pc = "copy"
      \/ /\ hand.do = "start" /\ s \in {"starting", "booted"}
         /\ hand.pc \in {"create", "verify"} \/ (Publishing /\ hand.op \in Services)
      \/ hand.do = "accept" /\ Publishing /\ s = "accepted"
      \/ hand.do = "complete" /\ (Publishing \/ hand.pc = "finish") /\ s = "accepted"
      \/ hand.do = "recover" /\ Publishing
         /\ (Crossed(hand.op) \/ s \in {"adopted", "recovered", "recovering"})
      \/ /\ hand.do = "recover" /\ s = "recovering"
         /\ hand.pc \in {"destroy", "drain", "drained", "restart", "confirm"}
      \/ /\ hand.do = "reconcile" /\ s \in Settled
         /\ Publishing \/ hand.pc \in {"runtime", "reached"}

(* The lock is free, or its holder is where its journal says.              *)
HandInv == hand # Idle => hand.op \in Ops /\ HandFollows

CommandInv == TypeOK /\ SourceKnown /\ HandInv

-----------------------------------------------------------------------------

(* A box starts with no journal and nobody holding the lock.               *)
LEMMA CommandInit == Init => CommandInv
  BY ConstantsAssumption
  DEF Init, CommandInv, TypeOK, SourceKnown, HandInv, HandFollows, Idle,
      Stages, Definition, Commands, Places, Hands, Generations

(* Adding or removing an autostart link leaves a boot definition.          *)
LEMMA Relinked ==
  ASSUME NEW d \in Definition, NEW v \in BOOLEAN
  PROVE  [d EXCEPT !.auto = v] \in Definition
  BY DEF Definition

(* A command that goes on to another place is still a command.             *)
LEMMA Moved ==
  ASSUME NEW h \in Hands, NEW place \in Places
  PROVE  [h EXCEPT !.pc = place] \in Hands
  BY SMTT(30) DEF Hands

(* Every action stores values of the declared types.                       *)
LEMMA TypeNext ==
  ASSUME CommandInv, [Next]_vars
  PROVE  TypeOK'
<1> USE ConstantsAssumption DEF CommandInv, TypeOK, SourceKnown, HandInv,
      HandFollows, Publishing, Idle
<1> USE DEF Stages, Definition, Commands, Places, Generations, Services,
      Settled, PostBoot, PreAccept, Crossed, Hands
<1> USE DEF vars, durable, xen, boot, Record, Take, Goto, At, Return, LockFree
<1>1. CASE UNCHANGED vars
  BY <1>1
<1>2. ASSUME NEW o \in Ops, Stage(o) PROVE TypeOK'
  BY <1>2 DEF Stage
<1>3. ASSUME NEW o \in Ops, Arm(o) PROVE TypeOK'
  BY <1>3 DEF Arm
<1>4. ASSUME NEW o \in Ops, AdoptOld(o) PROVE TypeOK'
  BY <1>4 DEF AdoptOld
<1>5. ASSUME NEW o \in Ops, Stop(o) PROVE TypeOK'
  BY <1>5 DEF Stop
<1>6. ASSUME NEW o \in Ops, Finalize(o) PROVE TypeOK'
  BY <1>6 DEF Finalize
<1>7. ASSUME NEW o \in Ops, Rejoin(o) PROVE TypeOK'
  BY <1>7 DEF Rejoin
<1>8. ASSUME NEW o \in Ops, ResumeFinalizer(o) PROVE TypeOK'
  BY <1>8 DEF ResumeFinalizer
<1>9. ASSUME NEW o \in Ops, Start(o) PROVE TypeOK'
  BY <1>9 DEF Start
<1>10. ASSUME NEW o \in Ops, StartAgain(o) PROVE TypeOK'
  BY <1>10 DEF StartAgain
<1>11. ASSUME NEW o \in Ops, Tested(o) PROVE TypeOK'
  BY <1>11 DEF Tested
<1>12. ASSUME NEW o \in Ops, Accept(o) PROVE TypeOK'
  BY <1>12 DEF Accept
<1>13. ASSUME NEW o \in Ops, Complete(o) PROVE TypeOK'
  BY <1>13 DEF Complete
<1>14. ASSUME NEW o \in Ops, Recover(o) PROVE TypeOK'
  <2>1. CASE Keep(o)
    BY <1>14, <2>1 DEF Recover, RecoverCall, Keep
  <2>2. CASE Restore(o)
    BY <1>14, <2>2 DEF Recover, RecoverCall, Restore
  <2> QED BY <1>14, <2>1, <2>2 DEF Recover, RecoverCall
<1>15. ASSUME NEW o \in Ops, WatchEnds(o) PROVE TypeOK'
  BY <1>15 DEF WatchEnds
<1>16. ASSUME NEW o \in Ops, WatchRecovers(o) PROVE TypeOK'
  <2>1. CASE Keep(o)
    BY <1>16, <2>1 DEF WatchRecovers, RecoverCall, Keep
  <2>2. CASE Restore(o)
    BY <1>16, <2>2 DEF WatchRecovers, RecoverCall, Restore
  <2> QED BY <1>16, <2>1, <2>2 DEF WatchRecovers, RecoverCall
<1>17. ASSUME NEW o \in Ops, Expire(o) PROVE TypeOK'
  BY <1>17 DEF Expire
<1>18. ASSUME NEW o \in Ops, FinalizerExits(o) PROVE TypeOK'
  BY <1>18 DEF FinalizerExits
<1>19. ASSUME NEW o \in Ops, WatchGivesUp(o) PROVE TypeOK'
  BY <1>19 DEF WatchGivesUp
<1>20. ASSUME NEW r \in Roles, NEW want \in Wants, Reconcile(r, want) PROVE TypeOK'
  BY <1>20 DEF Reconcile
<1>21. ASSUME NEW r \in Roles, GuestExits(r) PROVE TypeOK'
  BY <1>21 DEF GuestExits
<1>22. CASE WriteConfig
  <2>1. hand.op \in Ops /\ Side(hand.do, hand.op) \in Generations
    BY <1>22 DEF WriteConfig, Side
  <2>2. RoleOf[hand.op] \in Roles
    BY <2>1
  <2>3. cfg' \in [Roles -> Definition]
    BY <1>22, <2>1, <2>2 DEF WriteConfig
  <2> QED BY <1>22, <2>3 DEF WriteConfig
<1>23. CASE WriteLink
  <2> DEFINE d == cfg[RoleOf[hand.op]]
            v == intent[hand.op] = "running"
  <2>1. RoleOf[hand.op] \in Roles /\ d \in Definition
    BY <1>23 DEF WriteLink
  <2>2. [d EXCEPT !.auto = v] \in Definition
    BY <2>1, Relinked
  <2>3. cfg' = [cfg EXCEPT ![RoleOf[hand.op]] = [d EXCEPT !.auto = v]]
    BY <1>23, Zenon DEF WriteLink
  <2>4. cfg' \in [Roles -> Definition]
    <3> HIDE DEF d, v
    <3> QED BY <2>1, <2>2, <2>3
  <2> QED BY <1>23, <2>4 DEF WriteLink
<1>24. CASE Persist
  <2>1. \/ hand' = Idle
        \/ hand' = [hand EXCEPT !.pc = "create"]
        \/ hand' = [hand EXCEPT !.pc = "finish"]
        \/ hand' = [hand EXCEPT !.pc = "runtime"]
        \/ hand' = [hand EXCEPT !.pc = "restart"]
    <3>1. CASE hand.do = "start"
      BY <1>24, <3>1 DEF Persist
    <3>2. CASE hand.do = "complete"
      BY <1>24, <3>2 DEF Persist
    <3>3. CASE hand.do = "reconcile"
      BY <1>24, <3>3 DEF Persist
    <3>4. CASE hand.do = "recover" /\ stage[hand.op] = "recovering"
      BY <1>24, <3>4 DEF Persist
    <3>5. CASE /\ hand.do \notin {"start", "complete", "reconcile"}
               /\ ~(hand.do = "recover" /\ stage[hand.op] = "recovering")
      BY <1>24, <3>5 DEF Persist
    <3> QED BY <3>1, <3>2, <3>3, <3>4, <3>5
  <2>2. hand' \in Hands
    <3>1. Idle \in Hands
      OBVIOUS
    <3>2. hand \in Hands /\ {"create", "finish", "runtime", "restart"} \subseteq Places
      OBVIOUS
    <3> HIDE DEF Hands, Places, Idle
    <3> QED BY <2>1, <3>1, <3>2, Moved
  <2>3. bootq' \subseteq Roles
    BY <1>24 DEF Persist
  <2> QED BY <1>24, <2>2, <2>3 DEF Persist
<1>25. CASE Publish
  BY <1>25 DEF Publish
<1>26. CASE StartWatch
  <2>1. hand.op \in Ops
    BY <1>26 DEF StartWatch
  <2>2. hand' \in Hands
    BY <1>26 DEF StartWatch
  <2> QED BY <1>26, <2>1, <2>2 DEF StartWatch
<1>27. CASE BindWatch
  BY <1>27 DEF BindWatch
<1>28. CASE Shutdown
  BY <1>28 DEF Shutdown
<1>29. CASE Stopped
  BY <1>29 DEF Stopped
<1>30. CASE Finalized
  BY <1>30 DEF Finalized
<1>31. CASE FinalizeFails
  BY <1>31 DEF FinalizeFails
<1>32. CASE Create
  BY <1>32 DEF Create
<1>33. CASE Booted
  BY <1>33 DEF Booted
<1>34. CASE Completed
  BY <1>34 DEF Completed
<1>35. CASE Destroy
  BY <1>35 DEF Destroy
<1>36. CASE Drain
  BY <1>36 DEF Drain
<1>37. CASE Drained
  BY <1>37 DEF Drained
<1>38. CASE Restart
  BY ZenonT(60), <1>38 DEF Restart
<1>39. CASE Confirm
  BY <1>39 DEF Confirm
<1>40. CASE RecoveryFails
  BY <1>40 DEF RecoveryFails, Restoring
<1>41. CASE Runtime
  <2>1. RoleOf[hand.op] \in Roles
    BY <1>41 DEF Runtime
  <2>2. guest' \in [Roles -> Generations \cup {None}]
    BY <1>41, <2>1 DEF Runtime
  <2>3. dying' \in [Roles -> {"none", "update", "runtime"}]
    BY <1>41, <2>1 DEF Runtime
  <2> QED BY <1>41, <2>2, <2>3 DEF Runtime
<1>42. CASE Reached
  BY <1>42 DEF Reached
<1>43. CASE Refuse
  BY <1>43 DEF Refuse
<1>44. CASE Commit
  BY <1>44 DEF Commit
<1>45. CASE Killed
  BY <1>45 DEF Killed
<1>46. CASE PowerLoss
  BY <1>46 DEF PowerLoss
<1>47. CASE BootRecovered
  BY <1>47 DEF BootRecovered
<1>48. CASE BootRecoveryFails
  BY <1>48 DEF BootRecoveryFails
<1>49. CASE Fence
  <2>1. ASSUME NEW r \in Roles PROVE cfg'[r] \in Definition
    <3>1. cfg'[r] = [cfg[r] EXCEPT !.auto = cfg[r].auto /\ ~Fenced(r)]
      BY <1>49 DEF Fence
    <3> QED BY <3>1, Relinked
  <2>2. cfg' \in [Roles -> Definition]
    BY <1>49, <2>1 DEF Fence
  <2> QED BY ZenonT(60), <1>49, <2>2 DEF Fence
<1>50. CASE XenDomains
  BY <1>50 DEF XenDomains
<1> QED
  BY <1>1, <1>2, <1>3, <1>4, <1>5, <1>6, <1>7, <1>8, <1>9, <1>10, <1>11,
         <1>12, <1>13, <1>14, <1>15, <1>16, <1>17, <1>18, <1>19,
         <1>20, <1>21, <1>22, <1>23, <1>24, <1>25, <1>26, <1>27,
         <1>28, <1>29, <1>30, <1>31, <1>32, <1>33, <1>34, <1>35,
         <1>36, <1>37, <1>38, <1>39, <1>40, <1>41, <1>42, <1>43,
         <1>44, <1>45, <1>46, <1>47, <1>48, <1>49, <1>50
      DEF Next, Call, Watch, Step, Environment, Boot, Assignment, Arming,
         Stopping, Starting, Recovering, Reconciling

(* Every action leaves the command holding the lock at a place that fits   *)
(* the stage its operation has recorded.                                   *)
LEMMA HandNext ==
  ASSUME CommandInv, [Next]_vars
  PROVE  HandInv'
<1> USE ConstantsAssumption DEF CommandInv, TypeOK, SourceKnown, HandInv,
      HandFollows, Publishing, Idle
<1> USE DEF Stages, Definition, Commands, Places, Generations, Services,
      Settled, PostBoot, PreAccept, Crossed, Hands
<1> USE DEF vars, durable, xen, boot, Record, Take, Goto, At, Return, LockFree
<1>1. CASE UNCHANGED vars
  BY <1>1
<1>2. ASSUME NEW o \in Ops, Stage(o) PROVE HandInv'
  BY <1>2 DEF Stage
<1>3. ASSUME NEW o \in Ops, Arm(o) PROVE HandInv'
  BY <1>3 DEF Arm
<1>4. ASSUME NEW o \in Ops, AdoptOld(o) PROVE HandInv'
  BY <1>4 DEF AdoptOld
<1>5. ASSUME NEW o \in Ops, Stop(o) PROVE HandInv'
  BY <1>5 DEF Stop
<1>6. ASSUME NEW o \in Ops, Finalize(o) PROVE HandInv'
  BY <1>6 DEF Finalize
<1>7. ASSUME NEW o \in Ops, Rejoin(o) PROVE HandInv'
  BY <1>7 DEF Rejoin
<1>8. ASSUME NEW o \in Ops, ResumeFinalizer(o) PROVE HandInv'
  BY <1>8 DEF ResumeFinalizer
<1>9. ASSUME NEW o \in Ops, Start(o) PROVE HandInv'
  BY <1>9 DEF Start
<1>10. ASSUME NEW o \in Ops, StartAgain(o) PROVE HandInv'
  BY <1>10 DEF StartAgain
<1>11. ASSUME NEW o \in Ops, Tested(o) PROVE HandInv'
  BY <1>11 DEF Tested
<1>12. ASSUME NEW o \in Ops, Accept(o) PROVE HandInv'
  BY <1>12 DEF Accept
<1>13. ASSUME NEW o \in Ops, Complete(o) PROVE HandInv'
  BY <1>13 DEF Complete
<1>14. ASSUME NEW o \in Ops, Recover(o) PROVE HandInv'
  BY <1>14 DEF Recover, RecoverCall, Keep, Restore
<1>15. ASSUME NEW o \in Ops, WatchEnds(o) PROVE HandInv'
  BY <1>15 DEF WatchEnds
<1>16. ASSUME NEW o \in Ops, WatchRecovers(o) PROVE HandInv'
  BY <1>16 DEF WatchRecovers, RecoverCall, Keep, Restore
<1>17. ASSUME NEW o \in Ops, Expire(o) PROVE HandInv'
  BY <1>17 DEF Expire
<1>18. ASSUME NEW o \in Ops, FinalizerExits(o) PROVE HandInv'
  BY <1>18 DEF FinalizerExits
<1>19. ASSUME NEW o \in Ops, WatchGivesUp(o) PROVE HandInv'
  BY <1>19 DEF WatchGivesUp
<1>20. ASSUME NEW r \in Roles, NEW want \in Wants, Reconcile(r, want) PROVE HandInv'
  BY <1>20 DEF Reconcile
<1>21. ASSUME NEW r \in Roles, GuestExits(r) PROVE HandInv'
  BY <1>21 DEF GuestExits
<1>22. CASE WriteConfig
  BY <1>22 DEF WriteConfig
<1>23. CASE WriteLink
  BY <1>23 DEF WriteLink
<1>24. CASE Persist
  BY <1>24 DEF Persist
<1>25. CASE Publish
  BY <1>25 DEF Publish
<1>26. CASE StartWatch
  BY <1>26 DEF StartWatch
<1>27. CASE BindWatch
  BY <1>27 DEF BindWatch
<1>28. CASE Shutdown
  BY <1>28 DEF Shutdown
<1>29. CASE Stopped
  BY <1>29 DEF Stopped
<1>30. CASE Finalized
  BY <1>30 DEF Finalized
<1>31. CASE FinalizeFails
  BY <1>31 DEF FinalizeFails
<1>32. CASE Create
  BY <1>32 DEF Create
<1>33. CASE Booted
  BY <1>33 DEF Booted
<1>34. CASE Completed
  BY <1>34 DEF Completed
<1>35. CASE Destroy
  BY <1>35 DEF Destroy
<1>36. CASE Drain
  BY <1>36 DEF Drain
<1>37. CASE Drained
  BY <1>37 DEF Drained
<1>38. CASE Restart
  BY <1>38 DEF Restart
<1>39. CASE Confirm
  BY <1>39 DEF Confirm
<1>40. CASE RecoveryFails
  BY <1>40 DEF RecoveryFails, Restoring
<1>41. CASE Runtime
  BY <1>41 DEF Runtime
<1>42. CASE Reached
  BY <1>42 DEF Reached
<1>43. CASE Refuse
  BY <1>43 DEF Refuse
<1>44. CASE Commit
  BY <1>44 DEF Commit
<1>45. CASE Killed
  BY <1>45 DEF Killed
<1>46. CASE PowerLoss
  BY <1>46 DEF PowerLoss
<1>47. CASE BootRecovered
  BY <1>47 DEF BootRecovered
<1>48. CASE BootRecoveryFails
  BY <1>48 DEF BootRecoveryFails
<1>49. CASE Fence
  BY <1>49 DEF Fence
<1>50. CASE XenDomains
  BY SMTT(30), <1>50 DEF XenDomains
<1> QED
  BY <1>1, <1>2, <1>3, <1>4, <1>5, <1>6, <1>7, <1>8, <1>9, <1>10, <1>11,
         <1>12, <1>13, <1>14, <1>15, <1>16, <1>17, <1>18, <1>19,
         <1>20, <1>21, <1>22, <1>23, <1>24, <1>25, <1>26, <1>27,
         <1>28, <1>29, <1>30, <1>31, <1>32, <1>33, <1>34, <1>35,
         <1>36, <1>37, <1>38, <1>39, <1>40, <1>41, <1>42, <1>43,
         <1>44, <1>45, <1>46, <1>47, <1>48, <1>49, <1>50
      DEF Next, Call, Watch, Step, Environment, Boot, Assignment, Arming,
         Stopping, Starting, Recovering, Reconciling

-----------------------------------------------------------------------------
(* What one step may change.                                               *)

(* The moves of a journal.                                                 *)
Moves(o, s) ==
  \/ /\ stage[o] = "none" /\ s \in {"armed", "adopted"}
     /\ OthersSettled
     /\ source[o].gen # None
  \/ stage[o] \in PreAccept /\ ~Crossed(o) /\ s = "recovering"
  \/ <<stage[o], s>> \in
       {<<"armed", "stopping">>, <<"stopping", "stopped">>,
        <<"stopped", "starting">>, <<"starting", "booted">>,
        <<"booted", "booted">>, <<"booted", "tested">>,
        <<"tested", "accepted">>, <<"accepted", "complete">>,
        <<"recovering", "recovered">>, <<"recovering", "recovery-failed">>}

(* A journal that exists is written by its role's assignment, or by the    *)
(* command that holds the lock for it.                                     *)
JournalStep ==
  \/ stage' = stage
  \/ \E o \in Ops, s \in Stages :
       /\ Record(o, s) /\ Moves(o, s)
       /\ stage[o] = "none" \/ Current(o) \/ hand.op = o

(* A source is frozen once, from the definition that is installed.         *)
SourceStep ==
  \/ source' = source
  \/ /\ stage' = stage
     /\ \E o \in Ops :
          /\ source[o].gen = None
          /\ source' = [source EXCEPT ![o] = [gen |-> cfg[RoleOf[o]].gen,
                                              by  |-> cfg[RoleOf[o]].by]]

(* Definitions come from a command, from the last commit or to it.         *)
DefinitionStep ==
  /\ saved' \in {saved, cfg}
  /\ \/ \A r \in Roles : cfg'[r].gen \in {cfg[r].gen, saved[r].gen}
     \/ WriteConfig

PointerStep ==
  \/ pointer' = pointer
  \/ /\ hand.pc = "publish" /\ hand'.pc # "publish" /\ stage' = stage
     /\ pointer' = [pointer EXCEPT ![RoleOf[hand.op]] = hand.op]

(* Between arm's record and its pointer nothing else is recorded.          *)
PublishStep ==
  hand'.pc = "publish" =>
    /\ pointer' = pointer
    /\ \/ hand.pc = "publish" /\ stage' = stage
       \/ /\ OthersSettled
          /\ \E o \in Ops : stage[o] = "none" /\ \E s \in Stages : Record(o, s)

(* Every action moves at most one journal, along the table of Moves.       *)
LEMMA JournalNext ==
  ASSUME CommandInv, [Next]_vars
  PROVE  JournalStep
<1> USE ConstantsAssumption DEF CommandInv, TypeOK, SourceKnown, HandInv,
      HandFollows, Publishing, Idle,
      JournalStep, Moves
<1> USE DEF Stages, Definition, Commands, Places, Generations, Services,
      Settled, PostBoot, PreAccept, Crossed, Hands
<1> USE DEF vars, durable, xen, boot, Record, Take, Goto, At, Return, LockFree
<1>1. CASE UNCHANGED vars
  BY <1>1
<1>2. ASSUME NEW o \in Ops, Stage(o) PROVE JournalStep
  BY <1>2 DEF Stage
<1>3. ASSUME NEW o \in Ops, Arm(o) PROVE JournalStep
  BY <1>3 DEF Arm
<1>4. ASSUME NEW o \in Ops, AdoptOld(o) PROVE JournalStep
  BY <1>4 DEF AdoptOld
<1>5. ASSUME NEW o \in Ops, Stop(o) PROVE JournalStep
  BY <1>5 DEF Stop
<1>6. ASSUME NEW o \in Ops, Finalize(o) PROVE JournalStep
  BY <1>6 DEF Finalize
<1>7. ASSUME NEW o \in Ops, Rejoin(o) PROVE JournalStep
  BY <1>7 DEF Rejoin
<1>8. ASSUME NEW o \in Ops, ResumeFinalizer(o) PROVE JournalStep
  BY <1>8 DEF ResumeFinalizer
<1>9. ASSUME NEW o \in Ops, Start(o) PROVE JournalStep
  BY <1>9 DEF Start
<1>10. ASSUME NEW o \in Ops, StartAgain(o) PROVE JournalStep
  BY <1>10 DEF StartAgain
<1>11. ASSUME NEW o \in Ops, Tested(o) PROVE JournalStep
  BY <1>11 DEF Tested
<1>12. ASSUME NEW o \in Ops, Accept(o) PROVE JournalStep
  BY <1>12 DEF Accept
<1>13. ASSUME NEW o \in Ops, Complete(o) PROVE JournalStep
  BY <1>13 DEF Complete
<1>14. ASSUME NEW o \in Ops, Recover(o) PROVE JournalStep
  BY <1>14 DEF Recover, RecoverCall, Keep, Restore
<1>15. ASSUME NEW o \in Ops, WatchEnds(o) PROVE JournalStep
  BY <1>15 DEF WatchEnds
<1>16. ASSUME NEW o \in Ops, WatchRecovers(o) PROVE JournalStep
  BY <1>16 DEF WatchRecovers, RecoverCall, Keep, Restore
<1>17. ASSUME NEW o \in Ops, Expire(o) PROVE JournalStep
  BY <1>17 DEF Expire
<1>18. ASSUME NEW o \in Ops, FinalizerExits(o) PROVE JournalStep
  BY <1>18 DEF FinalizerExits
<1>19. ASSUME NEW o \in Ops, WatchGivesUp(o) PROVE JournalStep
  BY <1>19 DEF WatchGivesUp
<1>20. ASSUME NEW r \in Roles, NEW want \in Wants, Reconcile(r, want) PROVE JournalStep
  BY <1>20 DEF Reconcile
<1>21. ASSUME NEW r \in Roles, GuestExits(r) PROVE JournalStep
  BY <1>21 DEF GuestExits
<1>22. CASE WriteConfig
  BY <1>22 DEF WriteConfig
<1>23. CASE WriteLink
  BY <1>23 DEF WriteLink
<1>24. CASE Persist
  BY <1>24 DEF Persist
<1>25. CASE Publish
  BY <1>25 DEF Publish
<1>26. CASE StartWatch
  BY <1>26 DEF StartWatch
<1>27. CASE BindWatch
  BY <1>27 DEF BindWatch
<1>28. CASE Shutdown
  BY <1>28 DEF Shutdown
<1>29. CASE Stopped
  <2>1. hand.op \in Ops /\ Record(hand.op, "stopped")
    BY <1>29 DEF Stopped
  <2>2. stage[hand.op] = "stopping"
    BY <1>29 DEF Stopped
  <2>3. Moves(hand.op, "stopped")
    BY <2>2
  <2> QED BY <2>1, <2>3
<1>30. CASE Finalized
  BY <1>30 DEF Finalized
<1>31. CASE FinalizeFails
  BY <1>31 DEF FinalizeFails
<1>32. CASE Create
  BY <1>32 DEF Create
<1>33. CASE Booted
  <2>1. hand.op \in Ops /\ Record(hand.op, "booted")
    BY <1>33 DEF Booted
  <2>2. stage[hand.op] \in {"starting", "booted"}
    BY <1>33 DEF Booted
  <2>3. Moves(hand.op, "booted")
    BY <2>2
  <2> QED BY <2>1, <2>3
<1>34. CASE Completed
  <2>1. hand.op \in Ops /\ Record(hand.op, "complete")
    BY <1>34 DEF Completed
  <2>2. stage[hand.op] = "accepted"
    BY <1>34 DEF Completed
  <2>3. Moves(hand.op, "complete")
    BY <2>2
  <2> QED BY <2>1, <2>3
<1>35. CASE Destroy
  BY <1>35 DEF Destroy
<1>36. CASE Drain
  BY <1>36 DEF Drain
<1>37. CASE Drained
  BY <1>37 DEF Drained
<1>38. CASE Restart
  BY <1>38 DEF Restart
<1>39. CASE Confirm
  <2>1. hand.op \in Ops /\ Record(hand.op, "recovered")
    BY <1>39 DEF Confirm
  <2>2. stage[hand.op] = "recovering"
    BY <1>39 DEF Confirm
  <2>3. Moves(hand.op, "recovered")
    BY <2>2
  <2> QED BY <2>1, <2>3
<1>40. CASE RecoveryFails
  <2>1. hand.op \in Ops /\ Record(hand.op, "recovery-failed")
    BY <1>40 DEF RecoveryFails, Restoring
  <2>2. stage[hand.op] = "recovering"
    BY <1>40 DEF RecoveryFails, Restoring
  <2>3. Moves(hand.op, "recovery-failed")
    BY <2>2
  <2> QED BY <2>1, <2>3
<1>41. CASE Runtime
  BY <1>41 DEF Runtime
<1>42. CASE Reached
  BY <1>42 DEF Reached
<1>43. CASE Refuse
  BY <1>43 DEF Refuse
<1>44. CASE Commit
  BY <1>44 DEF Commit
<1>45. CASE Killed
  BY <1>45 DEF Killed
<1>46. CASE PowerLoss
  BY <1>46 DEF PowerLoss
<1>47. CASE BootRecovered
  BY <1>47 DEF BootRecovered
<1>48. CASE BootRecoveryFails
  BY <1>48 DEF BootRecoveryFails
<1>49. CASE Fence
  BY <1>49 DEF Fence
<1>50. CASE XenDomains
  BY <1>50 DEF XenDomains
<1> QED
  BY <1>1, <1>2, <1>3, <1>4, <1>5, <1>6, <1>7, <1>8, <1>9, <1>10, <1>11,
         <1>12, <1>13, <1>14, <1>15, <1>16, <1>17, <1>18, <1>19,
         <1>20, <1>21, <1>22, <1>23, <1>24, <1>25, <1>26, <1>27,
         <1>28, <1>29, <1>30, <1>31, <1>32, <1>33, <1>34, <1>35,
         <1>36, <1>37, <1>38, <1>39, <1>40, <1>41, <1>42, <1>43,
         <1>44, <1>45, <1>46, <1>47, <1>48, <1>49, <1>50
      DEF Next, Call, Watch, Step, Environment, Boot, Assignment, Arming,
         Stopping, Starting, Recovering, Reconciling

(* Only staging freezes a source, and only once.                           *)
LEMMA SourceNext ==
  ASSUME CommandInv, [Next]_vars
  PROVE  SourceStep
<1> USE DEF vars, durable, xen, boot, Record, Take, Goto, At, Return, LockFree
<1> USE DEF SourceStep
<1>1. CASE UNCHANGED vars
  BY <1>1
<1>2. ASSUME NEW o \in Ops, Stage(o) PROVE SourceStep
  BY <1>2 DEF Stage
<1>3. ASSUME NEW o \in Ops, Arm(o) PROVE SourceStep
  BY <1>3 DEF Arm
<1>4. ASSUME NEW o \in Ops, AdoptOld(o) PROVE SourceStep
  BY <1>4 DEF AdoptOld
<1>5. ASSUME NEW o \in Ops, Stop(o) PROVE SourceStep
  BY <1>5 DEF Stop
<1>6. ASSUME NEW o \in Ops, Finalize(o) PROVE SourceStep
  BY <1>6 DEF Finalize
<1>7. ASSUME NEW o \in Ops, Rejoin(o) PROVE SourceStep
  BY <1>7 DEF Rejoin
<1>8. ASSUME NEW o \in Ops, ResumeFinalizer(o) PROVE SourceStep
  BY <1>8 DEF ResumeFinalizer
<1>9. ASSUME NEW o \in Ops, Start(o) PROVE SourceStep
  BY <1>9 DEF Start
<1>10. ASSUME NEW o \in Ops, StartAgain(o) PROVE SourceStep
  BY <1>10 DEF StartAgain
<1>11. ASSUME NEW o \in Ops, Tested(o) PROVE SourceStep
  BY <1>11 DEF Tested
<1>12. ASSUME NEW o \in Ops, Accept(o) PROVE SourceStep
  BY <1>12 DEF Accept
<1>13. ASSUME NEW o \in Ops, Complete(o) PROVE SourceStep
  BY <1>13 DEF Complete
<1>14. ASSUME NEW o \in Ops, Recover(o) PROVE SourceStep
  BY <1>14 DEF Recover, RecoverCall, Keep, Restore
<1>15. ASSUME NEW o \in Ops, WatchEnds(o) PROVE SourceStep
  BY <1>15 DEF WatchEnds
<1>16. ASSUME NEW o \in Ops, WatchRecovers(o) PROVE SourceStep
  BY <1>16 DEF WatchRecovers, RecoverCall, Keep, Restore
<1>17. ASSUME NEW o \in Ops, Expire(o) PROVE SourceStep
  BY <1>17 DEF Expire
<1>18. ASSUME NEW o \in Ops, FinalizerExits(o) PROVE SourceStep
  BY <1>18 DEF FinalizerExits
<1>19. ASSUME NEW o \in Ops, WatchGivesUp(o) PROVE SourceStep
  BY <1>19 DEF WatchGivesUp
<1>20. ASSUME NEW r \in Roles, NEW want \in Wants, Reconcile(r, want) PROVE SourceStep
  BY <1>20 DEF Reconcile
<1>21. ASSUME NEW r \in Roles, GuestExits(r) PROVE SourceStep
  BY <1>21 DEF GuestExits
<1>22. CASE WriteConfig
  BY <1>22 DEF WriteConfig
<1>23. CASE WriteLink
  BY <1>23 DEF WriteLink
<1>24. CASE Persist
  BY <1>24 DEF Persist
<1>25. CASE Publish
  BY <1>25 DEF Publish
<1>26. CASE StartWatch
  BY <1>26 DEF StartWatch
<1>27. CASE BindWatch
  BY <1>27 DEF BindWatch
<1>28. CASE Shutdown
  BY <1>28 DEF Shutdown
<1>29. CASE Stopped
  BY <1>29 DEF Stopped
<1>30. CASE Finalized
  BY <1>30 DEF Finalized
<1>31. CASE FinalizeFails
  BY <1>31 DEF FinalizeFails
<1>32. CASE Create
  BY <1>32 DEF Create
<1>33. CASE Booted
  BY <1>33 DEF Booted
<1>34. CASE Completed
  BY <1>34 DEF Completed
<1>35. CASE Destroy
  BY <1>35 DEF Destroy
<1>36. CASE Drain
  BY <1>36 DEF Drain
<1>37. CASE Drained
  BY <1>37 DEF Drained
<1>38. CASE Restart
  BY <1>38 DEF Restart
<1>39. CASE Confirm
  BY <1>39 DEF Confirm
<1>40. CASE RecoveryFails
  BY <1>40 DEF RecoveryFails, Restoring
<1>41. CASE Runtime
  BY <1>41 DEF Runtime
<1>42. CASE Reached
  BY <1>42 DEF Reached
<1>43. CASE Refuse
  BY <1>43 DEF Refuse
<1>44. CASE Commit
  BY <1>44 DEF Commit
<1>45. CASE Killed
  BY <1>45 DEF Killed
<1>46. CASE PowerLoss
  BY <1>46 DEF PowerLoss
<1>47. CASE BootRecovered
  BY <1>47 DEF BootRecovered
<1>48. CASE BootRecoveryFails
  BY <1>48 DEF BootRecoveryFails
<1>49. CASE Fence
  BY <1>49 DEF Fence
<1>50. CASE XenDomains
  BY <1>50 DEF XenDomains
<1> QED
  BY <1>1, <1>2, <1>3, <1>4, <1>5, <1>6, <1>7, <1>8, <1>9, <1>10, <1>11,
         <1>12, <1>13, <1>14, <1>15, <1>16, <1>17, <1>18, <1>19,
         <1>20, <1>21, <1>22, <1>23, <1>24, <1>25, <1>26, <1>27,
         <1>28, <1>29, <1>30, <1>31, <1>32, <1>33, <1>34, <1>35,
         <1>36, <1>37, <1>38, <1>39, <1>40, <1>41, <1>42, <1>43,
         <1>44, <1>45, <1>46, <1>47, <1>48, <1>49, <1>50
      DEF Next, Call, Watch, Step, Environment, Boot, Assignment, Arming,
         Stopping, Starting, Recovering, Reconciling

(* Definitions change only by assignment(), the fence and power loss, and  *)
(* lbu stores what is in memory.                                           *)
LEMMA DefinitionNext ==
  ASSUME CommandInv, [Next]_vars
  PROVE  DefinitionStep
<1> USE DEF vars, durable, xen, boot, Record, Take, Goto, At, Return, LockFree
<1> USE DEF DefinitionStep, CommandInv, TypeOK, Definition
<1>1. CASE UNCHANGED vars
  BY <1>1
<1>2. ASSUME NEW o \in Ops, Stage(o) PROVE DefinitionStep
  BY <1>2 DEF Stage
<1>3. ASSUME NEW o \in Ops, Arm(o) PROVE DefinitionStep
  BY <1>3 DEF Arm
<1>4. ASSUME NEW o \in Ops, AdoptOld(o) PROVE DefinitionStep
  BY <1>4 DEF AdoptOld
<1>5. ASSUME NEW o \in Ops, Stop(o) PROVE DefinitionStep
  BY <1>5 DEF Stop
<1>6. ASSUME NEW o \in Ops, Finalize(o) PROVE DefinitionStep
  BY <1>6 DEF Finalize
<1>7. ASSUME NEW o \in Ops, Rejoin(o) PROVE DefinitionStep
  BY <1>7 DEF Rejoin
<1>8. ASSUME NEW o \in Ops, ResumeFinalizer(o) PROVE DefinitionStep
  BY <1>8 DEF ResumeFinalizer
<1>9. ASSUME NEW o \in Ops, Start(o) PROVE DefinitionStep
  BY <1>9 DEF Start
<1>10. ASSUME NEW o \in Ops, StartAgain(o) PROVE DefinitionStep
  BY <1>10 DEF StartAgain
<1>11. ASSUME NEW o \in Ops, Tested(o) PROVE DefinitionStep
  BY <1>11 DEF Tested
<1>12. ASSUME NEW o \in Ops, Accept(o) PROVE DefinitionStep
  BY <1>12 DEF Accept
<1>13. ASSUME NEW o \in Ops, Complete(o) PROVE DefinitionStep
  BY <1>13 DEF Complete
<1>14. ASSUME NEW o \in Ops, Recover(o) PROVE DefinitionStep
  BY <1>14 DEF Recover, RecoverCall, Keep, Restore
<1>15. ASSUME NEW o \in Ops, WatchEnds(o) PROVE DefinitionStep
  BY <1>15 DEF WatchEnds
<1>16. ASSUME NEW o \in Ops, WatchRecovers(o) PROVE DefinitionStep
  BY <1>16 DEF WatchRecovers, RecoverCall, Keep, Restore
<1>17. ASSUME NEW o \in Ops, Expire(o) PROVE DefinitionStep
  BY <1>17 DEF Expire
<1>18. ASSUME NEW o \in Ops, FinalizerExits(o) PROVE DefinitionStep
  BY <1>18 DEF FinalizerExits
<1>19. ASSUME NEW o \in Ops, WatchGivesUp(o) PROVE DefinitionStep
  BY <1>19 DEF WatchGivesUp
<1>20. ASSUME NEW r \in Roles, NEW want \in Wants, Reconcile(r, want) PROVE DefinitionStep
  BY <1>20 DEF Reconcile
<1>21. ASSUME NEW r \in Roles, GuestExits(r) PROVE DefinitionStep
  BY <1>21 DEF GuestExits
<1>22. CASE WriteConfig
  BY <1>22 DEF WriteConfig
<1>23. CASE WriteLink
  BY <1>23 DEF WriteLink
<1>24. CASE Persist
  BY <1>24 DEF Persist
<1>25. CASE Publish
  BY <1>25 DEF Publish
<1>26. CASE StartWatch
  BY <1>26 DEF StartWatch
<1>27. CASE BindWatch
  BY <1>27 DEF BindWatch
<1>28. CASE Shutdown
  BY <1>28 DEF Shutdown
<1>29. CASE Stopped
  BY <1>29 DEF Stopped
<1>30. CASE Finalized
  BY <1>30 DEF Finalized
<1>31. CASE FinalizeFails
  BY <1>31 DEF FinalizeFails
<1>32. CASE Create
  BY <1>32 DEF Create
<1>33. CASE Booted
  BY <1>33 DEF Booted
<1>34. CASE Completed
  BY <1>34 DEF Completed
<1>35. CASE Destroy
  BY <1>35 DEF Destroy
<1>36. CASE Drain
  BY <1>36 DEF Drain
<1>37. CASE Drained
  BY <1>37 DEF Drained
<1>38. CASE Restart
  BY <1>38 DEF Restart
<1>39. CASE Confirm
  BY <1>39 DEF Confirm
<1>40. CASE RecoveryFails
  BY <1>40 DEF RecoveryFails, Restoring
<1>41. CASE Runtime
  BY <1>41 DEF Runtime
<1>42. CASE Reached
  BY <1>42 DEF Reached
<1>43. CASE Refuse
  BY <1>43 DEF Refuse
<1>44. CASE Commit
  BY <1>44 DEF Commit
<1>45. CASE Killed
  BY <1>45 DEF Killed
<1>46. CASE PowerLoss
  BY <1>46 DEF PowerLoss
<1>47. CASE BootRecovered
  BY <1>47 DEF BootRecovered
<1>48. CASE BootRecoveryFails
  BY <1>48 DEF BootRecoveryFails
<1>49. CASE Fence
  BY <1>49 DEF Fence
<1>50. CASE XenDomains
  BY <1>50 DEF XenDomains
<1> QED
  BY <1>1, <1>2, <1>3, <1>4, <1>5, <1>6, <1>7, <1>8, <1>9, <1>10, <1>11,
         <1>12, <1>13, <1>14, <1>15, <1>16, <1>17, <1>18, <1>19,
         <1>20, <1>21, <1>22, <1>23, <1>24, <1>25, <1>26, <1>27,
         <1>28, <1>29, <1>30, <1>31, <1>32, <1>33, <1>34, <1>35,
         <1>36, <1>37, <1>38, <1>39, <1>40, <1>41, <1>42, <1>43,
         <1>44, <1>45, <1>46, <1>47, <1>48, <1>49, <1>50
      DEF Next, Call, Watch, Step, Environment, Boot, Assignment, Arming,
         Stopping, Starting, Recovering, Reconciling

(* Only arm and adoption store a pointer, right after the journal record   *)
(* that it names.                                                          *)
LEMMA PointerNext ==
  ASSUME CommandInv, [Next]_vars
  PROVE  PointerStep /\ PublishStep
<1> USE DEF vars, durable, xen, boot, Record, Take, Goto, At, Return, LockFree
<1> USE DEF CommandInv, TypeOK, Idle, Hands, Stages, PointerStep, PublishStep
<1>1. CASE UNCHANGED vars
  BY <1>1
<1>2. ASSUME NEW o \in Ops, Stage(o) PROVE PointerStep /\ PublishStep
  BY <1>2 DEF Stage
<1>3. ASSUME NEW o \in Ops, Arm(o) PROVE PointerStep /\ PublishStep
  BY <1>3 DEF Arm
<1>4. ASSUME NEW o \in Ops, AdoptOld(o) PROVE PointerStep /\ PublishStep
  BY <1>4 DEF AdoptOld
<1>5. ASSUME NEW o \in Ops, Stop(o) PROVE PointerStep /\ PublishStep
  BY <1>5 DEF Stop
<1>6. ASSUME NEW o \in Ops, Finalize(o) PROVE PointerStep /\ PublishStep
  BY <1>6 DEF Finalize
<1>7. ASSUME NEW o \in Ops, Rejoin(o) PROVE PointerStep /\ PublishStep
  BY <1>7 DEF Rejoin
<1>8. ASSUME NEW o \in Ops, ResumeFinalizer(o) PROVE PointerStep /\ PublishStep
  BY <1>8 DEF ResumeFinalizer
<1>9. ASSUME NEW o \in Ops, Start(o) PROVE PointerStep /\ PublishStep
  BY <1>9 DEF Start
<1>10. ASSUME NEW o \in Ops, StartAgain(o) PROVE PointerStep /\ PublishStep
  BY <1>10 DEF StartAgain
<1>11. ASSUME NEW o \in Ops, Tested(o) PROVE PointerStep /\ PublishStep
  BY <1>11 DEF Tested
<1>12. ASSUME NEW o \in Ops, Accept(o) PROVE PointerStep /\ PublishStep
  BY <1>12 DEF Accept
<1>13. ASSUME NEW o \in Ops, Complete(o) PROVE PointerStep /\ PublishStep
  BY <1>13 DEF Complete
<1>14. ASSUME NEW o \in Ops, Recover(o) PROVE PointerStep /\ PublishStep
  BY <1>14 DEF Recover, RecoverCall, Keep, Restore
<1>15. ASSUME NEW o \in Ops, WatchEnds(o) PROVE PointerStep /\ PublishStep
  BY <1>15 DEF WatchEnds
<1>16. ASSUME NEW o \in Ops, WatchRecovers(o) PROVE PointerStep /\ PublishStep
  BY <1>16 DEF WatchRecovers, RecoverCall, Keep, Restore
<1>17. ASSUME NEW o \in Ops, Expire(o) PROVE PointerStep /\ PublishStep
  BY <1>17 DEF Expire
<1>18. ASSUME NEW o \in Ops, FinalizerExits(o) PROVE PointerStep /\ PublishStep
  BY <1>18 DEF FinalizerExits
<1>19. ASSUME NEW o \in Ops, WatchGivesUp(o) PROVE PointerStep /\ PublishStep
  BY <1>19 DEF WatchGivesUp
<1>20. ASSUME NEW r \in Roles, NEW want \in Wants, Reconcile(r, want) PROVE PointerStep /\ PublishStep
  BY <1>20 DEF Reconcile
<1>21. ASSUME NEW r \in Roles, GuestExits(r) PROVE PointerStep /\ PublishStep
  BY <1>21 DEF GuestExits
<1>22. CASE WriteConfig
  BY <1>22 DEF WriteConfig
<1>23. CASE WriteLink
  BY <1>23 DEF WriteLink
<1>24. CASE Persist
  BY <1>24 DEF Persist
<1>25. CASE Publish
  BY <1>25 DEF Publish
<1>26. CASE StartWatch
  BY <1>26 DEF StartWatch
<1>27. CASE BindWatch
  BY <1>27 DEF BindWatch
<1>28. CASE Shutdown
  BY <1>28 DEF Shutdown
<1>29. CASE Stopped
  BY <1>29 DEF Stopped
<1>30. CASE Finalized
  BY <1>30 DEF Finalized
<1>31. CASE FinalizeFails
  BY <1>31 DEF FinalizeFails
<1>32. CASE Create
  BY <1>32 DEF Create
<1>33. CASE Booted
  BY <1>33 DEF Booted
<1>34. CASE Completed
  BY <1>34 DEF Completed
<1>35. CASE Destroy
  BY <1>35 DEF Destroy
<1>36. CASE Drain
  BY <1>36 DEF Drain
<1>37. CASE Drained
  BY <1>37 DEF Drained
<1>38. CASE Restart
  BY <1>38 DEF Restart
<1>39. CASE Confirm
  BY <1>39 DEF Confirm
<1>40. CASE RecoveryFails
  BY <1>40 DEF RecoveryFails, Restoring
<1>41. CASE Runtime
  BY <1>41 DEF Runtime
<1>42. CASE Reached
  BY <1>42 DEF Reached
<1>43. CASE Refuse
  BY <1>43 DEF Refuse
<1>44. CASE Commit
  BY <1>44 DEF Commit
<1>45. CASE Killed
  BY <1>45 DEF Killed
<1>46. CASE PowerLoss
  BY <1>46 DEF PowerLoss
<1>47. CASE BootRecovered
  BY <1>47 DEF BootRecovered
<1>48. CASE BootRecoveryFails
  BY <1>48 DEF BootRecoveryFails
<1>49. CASE Fence
  BY <1>49 DEF Fence
<1>50. CASE XenDomains
  BY <1>50 DEF XenDomains
<1> QED
  BY <1>1, <1>2, <1>3, <1>4, <1>5, <1>6, <1>7, <1>8, <1>9, <1>10, <1>11,
         <1>12, <1>13, <1>14, <1>15, <1>16, <1>17, <1>18, <1>19,
         <1>20, <1>21, <1>22, <1>23, <1>24, <1>25, <1>26, <1>27,
         <1>28, <1>29, <1>30, <1>31, <1>32, <1>33, <1>34, <1>35,
         <1>36, <1>37, <1>38, <1>39, <1>40, <1>41, <1>42, <1>43,
         <1>44, <1>45, <1>46, <1>47, <1>48, <1>49, <1>50
      DEF Next, Call, Watch, Step, Environment, Boot, Assignment, Arming,
         Stopping, Starting, Recovering, Reconciling

-----------------------------------------------------------------------------
(* Types and commands.                                                     *)

(* A journal never outlives or loses its frozen source.                    *)
LEMMA SourceStays ==
  ASSUME CommandInv, [Next]_vars
  PROVE  SourceKnown'
<1> SUFFICES ASSUME NEW o \in Ops, stage'[o] # "none"
             PROVE  source'[o].gen \in Generations
  BY DEF SourceKnown
<1>1. source[o].gen \in Generations \cup {None}
  BY DEF CommandInv, TypeOK
<1>2. stage[o] # "none" => source[o].gen \in Generations
  BY DEF CommandInv, SourceKnown
<1>3. None \notin Generations
  BY ConstantsAssumption DEF Generations
<1>4. CASE source' = source
  <2>1. stage[o] = "none" => source[o].gen # None
    <3> SUFFICES ASSUME stage[o] = "none" PROVE source[o].gen # None
      OBVIOUS
    <3>1. PICK p \in Ops, s \in Stages : Record(p, s) /\ Moves(p, s)
      BY JournalNext DEF JournalStep
    <3>2. p = o
      BY <3>1 DEF Record, CommandInv, TypeOK
    <3> QED BY <3>1, <3>2 DEF Moves, PreAccept
  <2> QED BY <1>1, <1>2, <1>4, <2>1
<1>5. CASE source' # source
  <2>1. PICK p \in Ops :
          /\ stage' = stage
          /\ source[p].gen = None
          /\ source' = [source EXCEPT ![p] = [gen |-> cfg[RoleOf[p]].gen,
                                              by  |-> cfg[RoleOf[p]].by]]
    BY <1>5, SourceNext DEF SourceStep
  <2>2. source[o].gen \in Generations /\ o # p
    BY <1>2, <1>3, <2>1
  <2> QED BY <2>1, <2>2 DEF CommandInv, TypeOK
<1> QED BY <1>4, <1>5

(* Every record keeps its type, and the command that holds the lock has    *)
(* recorded the stage its next step relies on.                             *)
THEOREM CommandCorrect == Spec => []CommandInv
<1>1. CommandInv /\ [Next]_vars => CommandInv'
  BY TypeNext, SourceStays, HandNext DEF CommandInv
<1> QED BY CommandInit, <1>1, PTL DEF Spec

(* No handler of the engine stores a value of another type, for any box.   *)
THEOREM TypeCorrect == Spec => []TypeOK
<1>1. CommandInv => TypeOK
  BY DEF CommandInv
<1> QED BY CommandCorrect, <1>1, PTL

-----------------------------------------------------------------------------
(* The write boundary.                                                     *)

(* An operation past its write boundary stays past it.                     *)
LEMMA CrossedStays ==
  ASSUME CommandInv, [Next]_vars, NEW o \in Ops, Crossed(o)
  PROVE  Crossed(o)'
<1>1. CASE stage' = stage
  BY <1>1 DEF Crossed
<1>2. CASE stage' # stage
  <2>1. PICK p \in Ops, s \in Stages : Record(p, s) /\ Moves(p, s)
    BY <1>2, JournalNext DEF JournalStep
  <2>2. CASE p # o
    BY <2>1, <2>2 DEF Record, Crossed, CommandInv, TypeOK
  <2>3. CASE p = o
    <3>1. s \in (IF o \in Historical THEN {"accepted", "complete"} ELSE PostBoot)
      BY <2>1, <2>3 DEF Moves, Crossed, PostBoot
    <3> QED BY <2>1, <2>3, <3>1 DEF Record, Crossed, CommandInv, TypeOK
  <2> QED BY <2>2, <2>3
<1> QED BY <1>1, <1>2

(* No command, watchdog, boot or failure takes an operation back over its  *)
(* write boundary.                                                         *)
THEOREM BoundaryFinal == Spec => BoundaryIsFinal
<1>1. CommandInv /\ [Next]_vars
        => [\A o \in Ops : Crossed(o) => Crossed(o)']_vars
  BY CrossedStays
<1> QED BY CommandCorrect, <1>1, PTL DEF Spec, BoundaryIsFinal

(* Definitions and frozen sources name candidates past their boundary.     *)
DefinitionsCrossed ==
  /\ BoundaryBeforeDefinition
  /\ \A o \in Ops : source[o].gen \in Ops => Crossed(source[o].gen)

(* Whichever definition a command is about to publish names the base       *)
(* generation or one past its boundary.                                    *)
LEMMA PublishedCrossed ==
  ASSUME CommandInv, DefinitionsCrossed, hand.pc = "config",
         Side(hand.do, hand.op) \in Ops
  PROVE  hand.op \in Ops /\ Crossed(Side(hand.do, hand.op))
<1>1. hand.op \in Ops /\ HandFollows
  BY DEF CommandInv, HandInv, Idle
<1>2. source[hand.op].gen \in Ops => Crossed(source[hand.op].gen)
  BY <1>1 DEF DefinitionsCrossed
<1>3. CASE hand.do \in {"start", "accept", "complete"}
  <2>1. Crossed(hand.op)
    BY <1>1, <1>3 DEF HandFollows, Crossed, PostBoot, Services
  <2> QED BY <1>1, <1>3, <2>1 DEF Side
<1>4. CASE hand.do = "adopt"
  BY <1>1, <1>2, <1>4 DEF Side
<1>5. CASE hand.do = "recover"
  BY <1>1, <1>2, <1>5 DEF Side
<1>6. CASE hand.do = "reconcile"
  <2>1. stage[hand.op] = "complete" => Crossed(hand.op)
    BY DEF Crossed, PostBoot
  <2> QED BY <1>1, <1>2, <1>6, <2>1 DEF Side
<1> QED BY <1>1, <1>3, <1>4, <1>5, <1>6 DEF HandFollows

(* Definitions and frozen sources keep naming crossed candidates only.     *)
LEMMA DefinitionsNext ==
  ASSUME CommandInv, DefinitionsCrossed, [Next]_vars
  PROVE  DefinitionsCrossed'
<1>1. \A g \in Ops : Crossed(g) => Crossed(g)'
  BY CrossedStays
<1>2. ASSUME NEW r \in Roles, NEW g \in Ops, g \in {cfg[r].gen, saved[r].gen}
      PROVE  Crossed(g)'
  BY <1>1, <1>2 DEF DefinitionsCrossed, BoundaryBeforeDefinition
<1>3. ASSUME NEW o \in Ops, NEW g \in Ops, g = source'[o].gen
      PROVE  Crossed(g)'
  <2>1. RoleOf[o] \in Roles
    BY ConstantsAssumption
  <2>2. g \in {source[o].gen, cfg[RoleOf[o]].gen}
    BY <1>3, SourceNext DEF SourceStep, CommandInv, TypeOK
  <2>3. CASE g = source[o].gen
    BY <1>1, <2>3 DEF DefinitionsCrossed
  <2> QED BY <1>2, <2>1, <2>2, <2>3
<1>4. ASSUME NEW r \in Roles, NEW g \in Ops, g = saved'[r].gen
      PROVE  Crossed(g)'
  <2>1. g \in {cfg[r].gen, saved[r].gen}
    BY <1>4, DefinitionNext DEF DefinitionStep
  <2> QED BY <1>2, <2>1
<1>5. ASSUME NEW r \in Roles, NEW g \in Ops, g = cfg'[r].gen
      PROVE  Crossed(g)'
  <2>1. CASE cfg'[r].gen \in {cfg[r].gen, saved[r].gen}
    BY <1>2, <1>5, <2>1
  <2>2. CASE WriteConfig
    <3>1. g \in {cfg[r].gen, Side(hand.do, hand.op)}
      BY <1>5, <2>2 DEF WriteConfig, CommandInv, TypeOK, Definition
    <3>2. CASE g = Side(hand.do, hand.op)
      BY <1>1, <2>2, <3>2, PublishedCrossed DEF WriteConfig
    <3> QED BY <1>2, <3>1, <3>2
  <2> QED BY <2>1, <2>2, DefinitionNext DEF DefinitionStep
<1> QED BY <1>3, <1>4, <1>5 DEF DefinitionsCrossed, BoundaryBeforeDefinition

(* Whatever fails, no definition in memory or on the boot medium names a   *)
(* candidate whose journal has not durably crossed the boundary.           *)
THEOREM BoundaryFirst == Spec => []BoundaryBeforeDefinition
<1>1. Init => DefinitionsCrossed
  BY ConstantsAssumption DEF Init, DefinitionsCrossed, BoundaryBeforeDefinition
<1>2. CommandInv /\ DefinitionsCrossed /\ [Next]_vars => DefinitionsCrossed'
  BY DefinitionsNext
<1>3. DefinitionsCrossed => BoundaryBeforeDefinition
  BY DEF DefinitionsCrossed
<1> QED BY CommandCorrect, <1>1, <1>2, <1>3, PTL DEF Spec

-----------------------------------------------------------------------------
(* One replacement at a time, and inert history.                           *)

(* While a recorded operation waits for its pointer, the others stay put.  *)
PublishSettled == hand.pc = "publish" => OthersSettled

(* The journal of a settled operation is final.                            *)
LEMMA SettledStays ==
  ASSUME CommandInv, [Next]_vars, NEW o \in Ops, stage[o] \in Settled
  PROVE  stage'[o] = stage[o]
<1>1. CASE stage' = stage
  BY <1>1
<1>2. CASE stage' # stage
  <2>1. PICK p \in Ops, s \in Stages : Record(p, s) /\ Moves(p, s)
    BY <1>2, JournalNext DEF JournalStep
  <2>2. p # o
    BY <2>1 DEF Moves, Settled, PreAccept
  <2> QED BY <2>1, <2>2 DEF Record, CommandInv, TypeOK
<1> QED BY <1>1, <1>2

(* While arm or adoption is about to store its pointer, every assignment   *)
(* of the box stays settled.                                               *)
LEMMA PublishNext ==
  ASSUME CommandInv, PublishSettled, [Next]_vars
  PROVE  PublishSettled'
<1> SUFFICES ASSUME hand'.pc = "publish", NEW r \in Roles, pointer'[r] # None
             PROVE  stage'[pointer'[r]] \in Settled
  BY DEF PublishSettled, OthersSettled
<1>1. pointer' = pointer
  BY PointerNext DEF PublishStep
<1>2. OthersSettled
  BY PointerNext DEF PublishStep, PublishSettled
<1>3. pointer[r] \in Ops /\ stage[pointer[r]] \in Settled
  BY <1>1, <1>2 DEF OthersSettled, CommandInv, TypeOK
<1> QED BY <1>1, <1>3, SettledStays

(* No step opens a second assignment.                                      *)
LEMMA ReplacementNext ==
  ASSUME CommandInv, PublishSettled, OneReplacement, [Next]_vars
  PROVE  OneReplacement'
<1> DEFINE Open(r) == pointer[r] # None /\ stage[pointer[r]] \notin Settled
<1>1. CASE pointer' = pointer
  <2>1. ASSUME NEW r \in Roles, Open(r)' PROVE Open(r)
    BY <1>1, <2>1, SettledStays DEF CommandInv, TypeOK
  <2> QED BY <2>1 DEF OneReplacement
<1>2. CASE pointer' # pointer
  <2>1. /\ hand.pc = "publish" /\ stage' = stage
        /\ pointer' = [pointer EXCEPT ![RoleOf[hand.op]] = hand.op]
    BY <1>2, PointerNext DEF PointerStep
  <2>2. ASSUME NEW r \in Roles, Open(r)' PROVE r = RoleOf[hand.op]
    BY <2>1, <2>2 DEF PublishSettled, OthersSettled, CommandInv, TypeOK
  <2> QED BY <2>2 DEF OneReplacement
<1> QED BY <1>1, <1>2

(* A dom0 never has two assignments that are neither settled nor given up. *)
THEOREM OneAtATime == Spec => []OneReplacement
<1>1. Init => PublishSettled /\ OneReplacement
  BY DEF Init, Idle, PublishSettled, OneReplacement
<1>2. CommandInv /\ PublishSettled /\ OneReplacement /\ [Next]_vars
        => PublishSettled' /\ OneReplacement'
  BY PublishNext, ReplacementNext
<1> QED BY CommandCorrect, <1>1, <1>2, PTL DEF Spec

(* An operation that is no longer assigned is not written or assigned      *)
(* again, by late commands, its old watchdog or the boot sequence.         *)
THEOREM HistoryInert == Spec => HistoryIsInert
<1>1. ASSUME CommandInv, [Next]_vars, NEW o \in Ops,
             stage[o] # "none", ~Current(o), hand.op # o
      PROVE  stage'[o] = stage[o] /\ ~Current(o)'
  <2>1. stage'[o] = stage[o]
    BY <1>1, JournalNext DEF JournalStep, Record, CommandInv, TypeOK
  <2>2. pointer'[RoleOf[o]] # o
    <3>1. RoleOf[o] \in Roles
      BY ConstantsAssumption
    <3> QED BY <1>1, <3>1, PointerNext DEF PointerStep, Current, CommandInv, TypeOK
  <2> QED BY <2>1, <2>2 DEF Current
<1>2. CommandInv /\ [Next]_vars
        => [\A o \in Ops : stage[o] # "none" /\ ~Current(o) /\ hand.op # o
              => stage'[o] = stage[o] /\ ~Current(o)']_vars
  BY <1>1
<1> QED BY CommandCorrect, <1>2, PTL DEF Spec, HistoryIsInert

-----------------------------------------------------------------------------
(* The assignment of a role.                                               *)

(* A pointer names a recorded operation of its own role.                   *)
PointerInv ==
  \A r \in Roles :
    pointer[r] # None => RoleOf[pointer[r]] = r /\ stage[pointer[r]] # "none"

(* An operation that has begun and is not settled is the assignment.       *)
Inert == {"none", "armed", "adopted", "complete", "recovered"}

OpenInv == \A o \in Ops : stage[o] \notin Inert => Current(o)

(* A command works on the assignment, once that is stored.                 *)
HeldInv == hand # Idle /\ hand.pc # "publish" => Current(hand.op)

(* A role without an assignment keeps its first definition.                *)
FirstInv ==
  \A r \in Roles : pointer[r] = None => cfg[r].gen = Base /\ saved[r].gen = Base

(* An assignment about to be stored starts from what is selected.          *)
FollowsInv ==
  hand.pc = "publish" => source[hand.op].gen = SelectedOf(RoleOf[hand.op])

(* What a crossed operation replaced is not selected again.                *)
RetiredInv == \A o \in Ops : Crossed(o) => source[o].gen # SelectedOf(RoleOf[o])

AssignmentInv ==
  PointerInv /\ OpenInv /\ HeldInv /\ FirstInv /\ FollowsInv /\ RetiredInv

(* A role whose recovery has come to a decision, published as a definition. *)
Decided(r) ==
  LET p == pointer[r]
  IN  /\ stage[p] \in Settled \/ Crossed(p)
      /\ cfg[r] = [gen |-> Selected(p), by |-> p, auto |-> intent[p] = "running"]

(* What a command has published when it goes on to the live guest.         *)
PublishedInv ==
  LET o == hand.op
      d == cfg[RoleOf[o]]
  IN  /\ hand.pc \in {"link", "persist", "restart", "confirm", "runtime"}
           => d.gen = Selected(o) /\ d.by = o
      /\ hand.pc \in {"persist", "restart", "confirm", "runtime"}
           => d.auto = (intent[o] = "running")

(* Boot recovery works through the pointers, and ends decided or fenced.   *)
BootInv ==
  /\ mode = "booting" /\ hand # Idle => hand.do = "recover" /\ RoleOf[hand.op] \in bootq
  /\ mode \in {"fence", "start"} => hand = Idle
  /\ mode # "up" => fin = {}
  /\ mode = "booting" => \A r \in Roles \ bootq : pointer[r] # None => Decided(r)
  /\ mode = "start" => \A r \in Roles : pointer[r] # None /\ cfg[r].auto => Decided(r)

(* The candidate of a historical operation that may run before acceptance. *)
OnTrial(r) ==
  /\ pointer[r] \in Historical
  /\ stage[pointer[r]] \in {"starting", "booted", "tested", "recovering", "recovery-failed"}

(* A role runs nothing, what is selected, or a candidate on trial.         *)
GuestInv ==
  \A r \in Roles :
    guest[r] \in {None, SelectedOf(r)} \/ (OnTrial(r) /\ guest[r] = pointer[r])

(* Nothing runs between the confirmed stop and the start.                  *)
StoppedInv == \A o \in Ops : stage[o] = "stopped" => guest[RoleOf[o]] = None

(* A copy runs only after the stop, and alone.                             *)
CopyInv ==
  /\ \A o \in fin : /\ stage[o] \in {"stopped", "recovering", "recovery-failed"}
                    /\ guest[RoleOf[o]] = None
  /\ \A o \in fin \cup copied :
       o \in Services /\ stage[o] \notin {"none", "armed", "stopping", "adopted"}
  /\ hand.pc = "copy" => hand.op \in fin
  /\ hand # Idle /\ hand.do = "recover" /\ hand.pc # "destroy" => Clear(hand.op)

(* An update's shutdown request is remembered until the guest has gone.    *)
DyingInv ==
  /\ \A r \in Roles : dying[r] # "none" => guest[r] # None
  /\ \A r \in Roles : dying[r] = "update" =>
       /\ pointer[r] \in pending
       /\ stage[pointer[r]] \in {"stopping", "recovering", "recovery-failed"}
  /\ hand.pc \in {"shutdown", "gone", "drain", "drained"} => hand.op \in pending
  /\ Restoring /\ hand.pc \notin {"destroy", "drain", "drained"}
       => hand.op \notin pending

LiveInv == PublishedInv /\ BootInv /\ GuestInv /\ StoppedInv /\ CopyInv /\ DyingInv

-----------------------------------------------------------------------------
(* Which actions may touch what.                                           *)

Records ==
  \/ \E o \in Ops : \/ Arm(o) \/ AdoptOld(o) \/ Stop(o) \/ Start(o) \/ Tested(o)
                    \/ Accept(o) \/ Recover(o) \/ WatchRecovers(o)
  \/ Stopped \/ Booted \/ Completed \/ Confirm \/ RecoveryFails

Takes ==
  \/ \E o \in Ops : \/ Arm(o) \/ AdoptOld(o) \/ Stop(o) \/ Finalize(o) \/ Rejoin(o)
                    \/ Start(o) \/ StartAgain(o) \/ Accept(o) \/ Complete(o)
                    \/ Recover(o) \/ WatchRecovers(o)
  \/ \E r \in Roles, want \in Wants : Reconcile(r, want)

Goes ==
  \/ WriteConfig \/ WriteLink \/ Persist \/ Publish \/ StartWatch
  \/ Shutdown \/ Create \/ Destroy \/ Drain \/ Drained \/ Restart \/ Runtime

Returns ==
  \/ Persist \/ BindWatch \/ Stopped \/ Finalized \/ FinalizeFails
  \/ Booted \/ Completed \/ Confirm \/ Reached

Frame ==
  /\ stage' = stage \/ Records
  /\ source' = source \/ \E o \in Ops : Stage(o)
  /\ pointer' = pointer \/ Publish
  /\ intent' = intent \/ \E r \in Roles, want \in Wants : Reconcile(r, want)
  /\ pending' = pending \/ (\E o \in Ops : Stop(o)) \/ Stopped \/ Drained
  /\ \/ fin' = fin \/ (\E o \in Ops : Finalize(o)) \/ Finalized \/ FinalizeFails
     \/ (\E o \in Ops : FinalizerExits(o)) \/ PowerLoss
  /\ copied' = copied \/ Finalized \/ \E o \in Ops : FinalizerExits(o)
  /\ cfg' = cfg \/ WriteConfig \/ WriteLink \/ PowerLoss \/ Fence
  /\ \/ guest' = guest \/ Create \/ Destroy \/ Restart \/ Runtime
     \/ (\E r \in Roles : GuestExits(r)) \/ PowerLoss \/ XenDomains
  /\ \/ dying' = dying \/ Shutdown \/ Destroy \/ Drain \/ Runtime
     \/ (\E r \in Roles : GuestExits(r)) \/ PowerLoss
  /\ hand' = hand \/ hand' = Idle \/ Takes \/ Goes
  /\ mode' = mode \/ PowerLoss \/ RecoveryFails \/ Boot
  /\ bootq' = bootq \/ PowerLoss \/ Returns

(* Each record, the definitions, the guests and the lock change only in    *)
(* the actions named here.                                                 *)
LEMMA FrameNext ==
  ASSUME CommandInv, [Next]_vars
  PROVE  Frame
<1> USE DEF vars, durable, xen, boot, Record, Take, Goto, At, Return, LockFree
<1> USE DEF CommandInv, TypeOK, Frame, Records, Takes, Goes, Returns, Boot
<1>1. CASE UNCHANGED vars
  BY <1>1
<1>2. ASSUME NEW o \in Ops, Stage(o) PROVE Frame
  BY <1>2 DEF Stage
<1>3. ASSUME NEW o \in Ops, Arm(o) PROVE Frame
  BY <1>3 DEF Arm
<1>4. ASSUME NEW o \in Ops, AdoptOld(o) PROVE Frame
  BY <1>4 DEF AdoptOld
<1>5. ASSUME NEW o \in Ops, Stop(o) PROVE Frame
  BY <1>5 DEF Stop
<1>6. ASSUME NEW o \in Ops, Finalize(o) PROVE Frame
  BY <1>6 DEF Finalize
<1>7. ASSUME NEW o \in Ops, Rejoin(o) PROVE Frame
  BY <1>7 DEF Rejoin
<1>8. ASSUME NEW o \in Ops, ResumeFinalizer(o) PROVE Frame
  BY <1>8 DEF ResumeFinalizer
<1>9. ASSUME NEW o \in Ops, Start(o) PROVE Frame
  BY <1>9 DEF Start
<1>10. ASSUME NEW o \in Ops, StartAgain(o) PROVE Frame
  BY <1>10 DEF StartAgain
<1>11. ASSUME NEW o \in Ops, Tested(o) PROVE Frame
  BY <1>11 DEF Tested
<1>12. ASSUME NEW o \in Ops, Accept(o) PROVE Frame
  BY <1>12 DEF Accept
<1>13. ASSUME NEW o \in Ops, Complete(o) PROVE Frame
  BY <1>13 DEF Complete
<1>14. ASSUME NEW o \in Ops, Recover(o) PROVE Frame
  BY <1>14 DEF Recover, RecoverCall, Keep, Restore
<1>15. ASSUME NEW o \in Ops, WatchEnds(o) PROVE Frame
  BY <1>15 DEF WatchEnds
<1>16. ASSUME NEW o \in Ops, WatchRecovers(o) PROVE Frame
  BY <1>16 DEF WatchRecovers, RecoverCall, Keep, Restore
<1>17. ASSUME NEW o \in Ops, Expire(o) PROVE Frame
  BY <1>17 DEF Expire
<1>18. ASSUME NEW o \in Ops, FinalizerExits(o) PROVE Frame
  BY <1>18 DEF FinalizerExits
<1>19. ASSUME NEW o \in Ops, WatchGivesUp(o) PROVE Frame
  BY <1>19 DEF WatchGivesUp
<1>20. ASSUME NEW r \in Roles, NEW want \in Wants, Reconcile(r, want) PROVE Frame
  BY <1>20 DEF Reconcile
<1>21. ASSUME NEW r \in Roles, GuestExits(r) PROVE Frame
  BY <1>21 DEF GuestExits
<1>22. CASE WriteConfig
  BY <1>22 DEF WriteConfig
<1>23. CASE WriteLink
  BY <1>23 DEF WriteLink
<1>24. CASE Persist
  BY <1>24 DEF Persist
<1>25. CASE Publish
  BY <1>25 DEF Publish
<1>26. CASE StartWatch
  BY <1>26 DEF StartWatch
<1>27. CASE BindWatch
  BY <1>27 DEF BindWatch
<1>28. CASE Shutdown
  BY <1>28 DEF Shutdown
<1>29. CASE Stopped
  BY <1>29 DEF Stopped
<1>30. CASE Finalized
  BY <1>30 DEF Finalized
<1>31. CASE FinalizeFails
  BY <1>31 DEF FinalizeFails
<1>32. CASE Create
  BY <1>32 DEF Create
<1>33. CASE Booted
  BY <1>33 DEF Booted
<1>34. CASE Completed
  BY <1>34 DEF Completed
<1>35. CASE Destroy
  BY <1>35 DEF Destroy
<1>36. CASE Drain
  BY <1>36 DEF Drain
<1>37. CASE Drained
  BY <1>37 DEF Drained
<1>38. CASE Restart
  BY <1>38 DEF Restart
<1>39. CASE Confirm
  BY <1>39 DEF Confirm
<1>40. CASE RecoveryFails
  BY <1>40 DEF RecoveryFails, Restoring
<1>41. CASE Runtime
  BY <1>41 DEF Runtime
<1>42. CASE Reached
  BY <1>42 DEF Reached
<1>43. CASE Refuse
  BY <1>43 DEF Refuse
<1>44. CASE Commit
  BY <1>44 DEF Commit
<1>45. CASE Killed
  BY <1>45 DEF Killed
<1>46. CASE PowerLoss
  BY <1>46 DEF PowerLoss
<1>47. CASE BootRecovered
  BY <1>47 DEF BootRecovered
<1>48. CASE BootRecoveryFails
  BY <1>48 DEF BootRecoveryFails
<1>49. CASE Fence
  BY <1>49 DEF Fence
<1>50. CASE XenDomains
  BY <1>50 DEF XenDomains
<1> QED
  BY <1>1, <1>2, <1>3, <1>4, <1>5, <1>6, <1>7, <1>8, <1>9, <1>10, <1>11,
         <1>12, <1>13, <1>14, <1>15, <1>16, <1>17, <1>18, <1>19,
         <1>20, <1>21, <1>22, <1>23, <1>24, <1>25, <1>26, <1>27,
         <1>28, <1>29, <1>30, <1>31, <1>32, <1>33, <1>34, <1>35,
         <1>36, <1>37, <1>38, <1>39, <1>40, <1>41, <1>42, <1>43,
         <1>44, <1>45, <1>46, <1>47, <1>48, <1>49, <1>50
      DEF Next, Call, Watch, Step, Environment, Boot, Assignment, Arming,
         Stopping, Starting, Recovering, Reconciling

-----------------------------------------------------------------------------
(* Assignments and the selected generation.                                *)

(* Nothing is recorded between a journal's first record and its pointer.   *)
LEMMA PublishRecordsNothing ==
  ASSUME CommandInv, [Next]_vars, hand.pc = "publish"
  PROVE  stage' = stage
<1>1. hand # Idle /\ hand.do # "recover"
  BY DEF CommandInv, HandInv, HandFollows, Idle, Publishing
<1>2. ~Records
  BY <1>1 DEF Records, Arm, AdoptOld, Stop, Start, Tested, Accept, Recover,
     WatchRecovers, RecoverCall, LockFree, Stopped, Booted, Completed, Confirm,
     RecoveryFails, Restoring, At
<1> QED BY <1>2, FrameNext DEF Frame

(* Where a command goes when its definition is committed.                  *)
LEMMA PersistGoes ==
  ASSUME CommandInv, Persist
  PROVE  \/ hand' = Idle
         \/ /\ hand'.op = hand.op /\ hand'.do = hand.do
            /\ <<hand.do, hand'.pc>> \in
                 {<<"start", "create">>, <<"complete", "finish">>,
                  <<"reconcile", "runtime">>, <<"recover", "restart">>}
            /\ hand.do = "recover" => stage[hand.op] = "recovering"
<1> USE DEF Persist, Goto, Return, CommandInv, TypeOK, Hands
<1>1. CASE hand.do = "start"
  BY <1>1
<1>2. CASE hand.do = "complete"
  BY <1>2
<1>3. CASE hand.do = "reconcile"
  BY <1>3
<1>4. CASE hand.do = "recover" /\ stage[hand.op] = "recovering"
  BY <1>4
<1>5. CASE /\ hand.do \notin {"start", "complete", "reconcile"}
           /\ ~(hand.do = "recover" /\ stage[hand.op] = "recovering")
  BY <1>5
<1> QED BY <1>1, <1>2, <1>3, <1>4, <1>5

(* A journal is never emptied, and its frozen source never replaced.       *)
LEMMA RecordedStays ==
  ASSUME CommandInv, [Next]_vars, NEW o \in Ops, stage[o] # "none"
  PROVE  stage'[o] # "none" /\ source'[o] = source[o]
<1>1. stage'[o] # "none"
  BY JournalNext DEF JournalStep, Record, Moves, CommandInv, TypeOK
<1>2. source[o].gen # None
  BY ConstantsAssumption DEF CommandInv, SourceKnown, Generations
<1>3. source'[o] = source[o]
  BY <1>2, SourceNext DEF SourceStep, CommandInv, TypeOK
<1> QED BY <1>1, <1>3

(* Pointers are stored under the role of their operation, after its record. *)
LEMMA PointersNext ==
  ASSUME CommandInv, PointerInv, [Next]_vars
  PROVE  PointerInv'
<1> SUFFICES ASSUME NEW r \in Roles, pointer'[r] # None
             PROVE  /\ RoleOf[pointer'[r]] = r
                    /\ stage'[pointer'[r]] # "none"
  BY DEF PointerInv
<1>1. CASE pointer'[r] = pointer[r]
  <2>1. pointer[r] \in Ops
    BY <1>1 DEF CommandInv, TypeOK
  <2> QED BY <1>1, <2>1, RecordedStays DEF PointerInv
<1>2. CASE pointer'[r] # pointer[r]
  <2>1. hand.pc = "publish" /\ r = RoleOf[hand.op] /\ pointer'[r] = hand.op
    BY <1>2, PointerNext DEF PointerStep, CommandInv, TypeOK
  <2>2. hand.op \in Ops /\ stage[hand.op] \in {"armed", "adopted"}
    BY <2>1 DEF CommandInv, HandInv, HandFollows, Idle, Publishing
  <2> QED BY <2>1, <2>2, RecordedStays
<1> QED BY <1>1, <1>2

(* Whoever is at work stays the assignment, and nobody else gets to work.  *)
LEMMA OpenNext ==
  ASSUME CommandInv, PublishSettled, OpenInv, HeldInv, [Next]_vars
  PROVE  OpenInv'
<1> SUFFICES ASSUME NEW o \in Ops, stage'[o] \notin Inert
             PROVE  pointer'[RoleOf[o]] = o
  BY DEF OpenInv, Current
<1>1. RoleOf[o] \in Roles
  BY ConstantsAssumption
<1>2. CASE stage' = stage
  <2>1. Current(o) /\ stage[o] \notin Settled
    BY <1>2 DEF OpenInv, Inert, Settled
  <2>2. hand.pc = "publish" => RoleOf[hand.op] # RoleOf[o] \/ hand.op = o
    <3> SUFFICES ASSUME hand.pc = "publish" PROVE FALSE
      OBVIOUS
    <3>1. o # None
      BY ConstantsAssumption
    <3> QED BY <1>1, <2>1, <3>1 DEF PublishSettled, OthersSettled, Current
  <2> QED BY <1>1, <2>1, <2>2, PointerNext DEF PointerStep, Current, CommandInv, TypeOK
<1>3. CASE stage' # stage
  <2>1. PICK p \in Ops, s \in Stages :
          /\ Record(p, s) /\ Moves(p, s)
          /\ stage[p] = "none" \/ Current(p) \/ hand.op = p
    BY <1>3, JournalNext DEF JournalStep
  <2>2. pointer' = pointer
    BY <1>3, PointerNext DEF PointerStep
  <2>3. CASE p # o
    BY <2>1, <2>2, <2>3 DEF Record, OpenInv, Current, CommandInv, TypeOK
  <2>4. CASE p = o
    <3>1. stage'[o] = s
      BY <2>1, <2>4 DEF Record, CommandInv, TypeOK
    <3>2. stage[o] # "none"
      BY <2>1, <2>4, <3>1 DEF Moves, Inert, PreAccept
    <3>3. hand.op = o => Current(o)
      <4>1. hand.pc # "publish"
        BY <1>3, PublishRecordsNothing
      <4>2. hand = Idle => hand.op # o
        BY ConstantsAssumption DEF Idle
      <4> QED BY <4>1, <4>2 DEF HeldInv
    <3> QED BY <2>1, <2>2, <2>4, <3>2, <3>3 DEF Current
  <2> QED BY <2>3, <2>4
<1> QED BY <1>2, <1>3

(* Commands are taken for the assignment, or go on to store it.            *)
LEMMA HeldNext ==
  ASSUME CommandInv, PointerInv, OpenInv, HeldInv, CopyInv, [Next]_vars
  PROVE  HeldInv'
<1> SUFFICES ASSUME hand' # Idle, hand'.pc # "publish"
             PROVE  pointer'[RoleOf[hand'.op]] = hand'.op
  BY DEF HeldInv, Current, Idle
<1> USE DEF Current
<1>1. CASE hand' = hand
  BY <1>1, PointerNext DEF PointerStep, HeldInv
<1>2. CASE Takes
  <2>1. ASSUME NEW o \in Ops, Arm(o) \/ AdoptOld(o) PROVE FALSE
    BY <2>1 DEF Arm, AdoptOld, Take
  <2>2. ASSUME NEW o \in Ops, Stop(o) \/ Start(o) \/ StartAgain(o) \/ Accept(o) \/ Complete(o)
        PROVE  hand'.op = o /\ Current(o) /\ pointer' = pointer
    BY <2>2 DEF Stop, Start, StartAgain, Accept, Complete, Take, durable
  <2>3. ASSUME NEW o \in Ops, Finalize(o) \/ Rejoin(o)
        PROVE  hand'.op = o /\ Current(o) /\ pointer' = pointer
    <3>1. hand'.op = o /\ pointer' = pointer
      BY <2>3 DEF Finalize, Rejoin, Take, durable
    <3>2. stage[o] \notin Inert
      BY <2>3 DEF Finalize, Rejoin, CopyInv, Inert
    <3> QED BY <3>1, <3>2 DEF OpenInv
  <2>4. ASSUME NEW o \in Ops, Recover(o) \/ WatchRecovers(o)
        PROVE  hand'.op = o /\ Current(o) /\ pointer' = pointer
    BY <2>4 DEF Recover, WatchRecovers, RecoverCall, Keep, Restore, Take
  <2>5. ASSUME NEW r \in Roles, NEW want \in Wants, Reconcile(r, want)
        PROVE  hand'.op = pointer[r] /\ RoleOf[pointer[r]] = r /\ pointer' = pointer
    BY <2>5 DEF Reconcile, Take, PointerInv
  <2> QED BY <1>2, <2>1, <2>2, <2>3, <2>4, <2>5 DEF Takes
<1>3. CASE Publish
  <2>1. hand.op \in Ops /\ RoleOf[hand.op] \in Roles
    BY <1>3, ConstantsAssumption DEF Publish, CommandInv, HandInv, Idle
  <2>2. hand'.op = hand.op
    BY <1>3 DEF Publish, Goto, CommandInv, TypeOK, Hands
  <2> QED BY <1>3, <2>1, <2>2 DEF Publish, CommandInv, TypeOK
<1>4. CASE Goes /\ ~Publish
  <2>1. hand'.op = hand.op /\ hand.pc \notin {"idle", "publish"}
    <3>1. CASE Persist
      BY <3>1, PersistGoes DEF Persist
    <3>2. CASE ~Persist
      BY <1>4, <3>2 DEF Goes, WriteConfig, WriteLink, StartWatch, Shutdown,
         Create, Destroy, Drain, Drained, Restart, Runtime, Goto, At,
         CommandInv, TypeOK, Hands
    <3> QED BY <3>1, <3>2
  <2>2. hand # Idle
    BY <2>1 DEF Idle
  <2> QED BY <1>4, <2>1, <2>2, FrameNext DEF Frame, HeldInv
<1> QED BY <1>1, <1>2, <1>3, <1>4, FrameNext DEF Frame

(* A role's first definition stays until the role has an assignment.       *)
LEMMA FirstNext ==
  ASSUME CommandInv, HeldInv, FirstInv, [Next]_vars
  PROVE  FirstInv'
<1> SUFFICES ASSUME NEW r \in Roles, pointer'[r] = None
             PROVE  cfg'[r].gen = Base /\ saved'[r].gen = Base
  BY DEF FirstInv
<1>1. pointer[r] = None
  BY PointerNext, ConstantsAssumption
     DEF PointerStep, CommandInv, TypeOK, HandInv, Idle
<1>2. cfg[r].gen = Base /\ saved[r].gen = Base
  BY <1>1 DEF FirstInv
<1>3. saved'[r].gen = Base
  BY <1>2, DefinitionNext DEF DefinitionStep
<1>4. CASE WriteConfig
  <2>1. hand # Idle /\ hand.pc = "config" /\ hand.op \in Ops
    BY <1>4 DEF WriteConfig, Idle, CommandInv, HandInv
  <2>2. RoleOf[hand.op] # r
    BY <1>1, <2>1, ConstantsAssumption DEF HeldInv, Current
  <2>3. cfg'[r] = cfg[r]
    BY <1>4, <2>1, <2>2 DEF WriteConfig, CommandInv, TypeOK
  <2> QED BY <1>2, <1>3, <2>3
<1> QED BY <1>2, <1>3, <1>4, DefinitionNext DEF DefinitionStep

(* Only the start of a service's candidate, from a role that runs nothing, *)
(* or the acceptance of a historical one, which runs, crosses a boundary.  *)
LEMMA CrossNext ==
  ASSUME CommandInv, [Next]_vars, NEW o \in Ops, ~Crossed(o), Crossed(o)'
  PROVE  /\ Current(o) /\ pointer' = pointer
         /\ guest' = guest /\ guest[RoleOf[o]] \in {None, o}
         /\ \A p \in Ops \ {o} : stage'[p] = stage[p]
         /\ source' = source
<1> USE DEF CommandInv, TypeOK, Record, durable, xen, LockFree
<1> USE DEF Crossed, PostBoot
<1>1. ASSUME stage' = stage PROVE FALSE
  BY <1>1
<1>2. ASSUME NEW p \in Ops, Arm(p) \/ AdoptOld(p) \/ Stop(p) PROVE FALSE
  BY <1>2 DEF Arm, AdoptOld, Stop
<1>3. ASSUME NEW p \in Ops, Start(p) PROVE p = o /\ o \notin Historical
  BY <1>3 DEF Start
<1>4. ASSUME NEW p \in Ops, Tested(p) PROVE FALSE
  BY <1>4 DEF Tested
<1>5. ASSUME NEW p \in Ops, Accept(p) PROVE p = o
  BY <1>5 DEF Accept
<1>6. ASSUME NEW p \in Ops, Recover(p) \/ WatchRecovers(p) PROVE FALSE
  BY <1>6 DEF Recover, WatchRecovers, RecoverCall, Keep, Restore
<1>7. ASSUME Stopped \/ Confirm \/ RecoveryFails PROVE FALSE
  BY <1>7 DEF Stopped, Confirm, RecoveryFails
<1>8. ASSUME Booted PROVE FALSE
  BY <1>8 DEF Booted, At, HandInv, HandFollows, Idle, Publishing
<1>9. ASSUME Completed PROVE FALSE
  BY <1>9 DEF Completed, At, HandInv, HandFollows, Idle, Publishing
<1>10. CASE Start(o)
  BY <1>10 DEF Start, Finds
<1>11. CASE Accept(o)
  BY <1>11 DEF Accept, Finds
<1> QED
  <2>1. Start(o) \/ Accept(o)
    BY <1>1, <1>2, <1>3, <1>4, <1>5, <1>6, <1>7, <1>8, <1>9, FrameNext
       DEF Frame, Records
  <2> QED BY <2>1, <1>10, <1>11

(* The selected generation of a role moves only when its assignment        *)
(* crosses the boundary, to that candidate.                                *)
LEMMA SelectionNext ==
  ASSUME CommandInv, PointerInv, FollowsInv, [Next]_vars, NEW r \in Roles
  PROVE  \/ SelectedOf(r)' = SelectedOf(r)
         \/ \E o \in Ops : /\ RoleOf[o] = r /\ ~Crossed(o) /\ Crossed(o)'
                           /\ SelectedOf(r) = source[o].gen /\ SelectedOf(r)' = o
<1>1. CASE pointer'[r] = pointer[r]
  <2>1. CASE pointer[r] = None
    BY <1>1, <2>1 DEF SelectedOf
  <2>2. CASE pointer[r] # None
    <3> PICK p \in Ops : p = pointer[r]
      BY <2>2 DEF CommandInv, TypeOK
    <3>1. RoleOf[p] = r /\ source'[p] = source[p]
      BY <2>2, RecordedStays DEF PointerInv
    <3>2. Crossed(p) => Crossed(p)'
      BY <3>1, CrossedStays
    <3>3. SelectedOf(r) = IF Crossed(p) THEN p ELSE source[p].gen
      BY <2>2 DEF SelectedOf, Selected
    <3>4. SelectedOf(r)' = IF Crossed(p)' THEN p ELSE source[p].gen
      BY <1>1, <2>2, <3>1 DEF SelectedOf, Selected, Crossed
    <3> QED BY <3>1, <3>2, <3>3, <3>4
  <2> QED BY <2>1, <2>2
<1>2. CASE pointer'[r] # pointer[r]
  <2>1. /\ hand.pc = "publish" /\ r = RoleOf[hand.op] /\ pointer'[r] = hand.op
        /\ stage' = stage
    BY <1>2, PointerNext DEF PointerStep, CommandInv, TypeOK
  <2>2. hand.op \in Ops /\ stage[hand.op] \in {"armed", "adopted"}
    BY <2>1 DEF CommandInv, HandInv, HandFollows, Idle, Publishing
  <2>3. source'[hand.op] = source[hand.op] /\ hand.op # None
    BY <2>2, RecordedStays, ConstantsAssumption
  <2>4. SelectedOf(r)' = source[hand.op].gen
    BY <2>1, <2>2, <2>3 DEF SelectedOf, Selected, Crossed, PostBoot
  <2> QED BY <2>1, <2>4 DEF FollowsInv
<1> QED BY <1>1, <1>2

(* Arming and adoption start from the selected generation, and it stays    *)
(* selected until their pointer is stored.                                 *)
LEMMA FollowsNext ==
  ASSUME CommandInv, PointerInv, FirstInv, FollowsInv, [Next]_vars
  PROVE  FollowsInv'
<1> SUFFICES ASSUME hand'.pc = "publish",
                    NEW o \in Ops, NEW r \in Roles, o = hand'.op, r = RoleOf[o]
             PROVE  source'[o].gen = SelectedOf(r)'
  <2>1. hand'.pc = "publish" => hand'.op \in Ops
    BY HandNext DEF HandInv, Idle
  <2> QED BY <2>1, ConstantsAssumption DEF FollowsInv, SelectedOf, Selected, Crossed
<1>1. CASE hand' = hand
  <2>1. stage[o] \in {"armed", "adopted"}
    BY <1>1 DEF CommandInv, HandInv, HandFollows, Idle, Publishing
  <2>2. stage' = stage /\ source'[o] = source[o]
    BY <1>1, <2>1, RecordedStays, PublishRecordsNothing
  <2>3. SelectedOf(r)' = SelectedOf(r)
    BY <2>2, SelectionNext DEF Crossed
  <2> QED BY <1>1, <2>2, <2>3 DEF FollowsInv
<1>2. CASE Arm(o) \/ AdoptOld(o)
  <2>1. /\ source' = source /\ pointer' = pointer
        /\ stage[o] = "none" /\ OthersSettled /\ DefinitionUnchanged(o)
        /\ \A x \in Ops \ {o} : stage'[x] = stage[x]
    BY <1>2 DEF Arm, AdoptOld, Record, CommandInv, TypeOK
  <2>2. CASE pointer[r] = None
    <3>1. source[o].gen = Base
      BY <2>1, <2>2 DEF DefinitionUnchanged, FirstInv
    <3> QED BY <2>1, <2>2, <3>1 DEF SelectedOf
  <2>3. CASE pointer[r] # None
    <3> PICK p \in Ops : p = pointer[r]
      BY <2>3 DEF CommandInv, TypeOK
    <3>1. p # o
      BY <2>1, <2>3 DEF OthersSettled, Settled
    <3>2. source[o].gen = Selected(p)
      BY <1>2, <2>3 DEF Arm, AdoptOld, FollowsPrevious
    <3>3. SelectedOf(r)' = Selected(p)
      BY <2>1, <2>3, <3>1 DEF SelectedOf, Selected, Crossed
    <3> QED BY <2>1, <3>2, <3>3
  <2> QED BY <2>2, <2>3
<1>3. ASSUME Takes PROVE Arm(o) \/ AdoptOld(o)
  <2>1. ASSUME NEW x \in Ops, Arm(x) \/ AdoptOld(x) PROVE x = o
    BY <2>1 DEF Arm, AdoptOld, Take
  <2>2. ASSUME NEW x \in Ops,
               \/ Stop(x) \/ Finalize(x) \/ Rejoin(x) \/ Start(x) \/ StartAgain(x)
               \/ Accept(x) \/ Complete(x) \/ Recover(x) \/ WatchRecovers(x)
        PROVE  FALSE
    BY <2>2 DEF Stop, Finalize, Rejoin, Start, StartAgain, Accept, Complete,
       Recover, WatchRecovers, RecoverCall, Keep, Restore, Take
  <2>3. ASSUME NEW s \in Roles, NEW want \in Wants, Reconcile(s, want) PROVE FALSE
    BY <2>3 DEF Reconcile, Take
  <2> QED BY <1>3, <2>1, <2>2, <2>3 DEF Takes
<1>4. ~Goes
  <2>1. ~Persist
    BY PersistGoes DEF Idle
  <2>2. Goes => Persist
    BY DEF Goes, WriteConfig, WriteLink, Publish, StartWatch, Shutdown, Create,
       Destroy, Drain, Drained, Restart, Runtime, Goto, CommandInv, TypeOK, Hands
  <2> QED BY <2>1, <2>2
<1>5. hand' # Idle
  BY DEF Idle
<1> QED BY <1>1, <1>2, <1>3, <1>4, <1>5, FrameNext DEF Frame

(* A generation that was replaced is not selected again.                   *)
LEMMA RetiredNext ==
  ASSUME CommandInv, DefinitionsCrossed, PointerInv, FollowsInv, RetiredInv, [Next]_vars
  PROVE  RetiredInv'
<1> SUFFICES ASSUME NEW o \in Ops, Crossed(o)'
             PROVE  source'[o].gen # SelectedOf(RoleOf[o])'
  BY DEF RetiredInv, SelectedOf, Selected, Crossed
<1> PICK r \in Roles : r = RoleOf[o]
  BY ConstantsAssumption
<1>2. \A x \in Ops : ~Crossed(x) => source[o].gen # x
  BY DEF DefinitionsCrossed
<1>3. CASE Crossed(o)
  <2>1. source'[o] = source[o]
    BY <1>3, RecordedStays DEF Crossed, PostBoot
  <2>2. source[o].gen # SelectedOf(r)
    BY <1>3 DEF RetiredInv
  <2> QED BY <1>2, <2>1, <2>2, SelectionNext
<1>4. CASE ~Crossed(o)
  <2>1. pointer'[r] = o /\ source' = source
    BY <1>4, CrossNext DEF Current
  <2>2. SelectedOf(r)' = o
    BY <2>1, ConstantsAssumption DEF SelectedOf, Selected, Crossed
  <2> QED BY <1>2, <1>4, <2>1, <2>2
<1> QED BY <1>3, <1>4

-----------------------------------------------------------------------------
(* Definitions and the boot sequence.                                      *)

(* A command that keeps the lock for its next step records nothing, and    *)
(* nobody else freezes a source or changes the approved runtime state.     *)
LEMMA Holding ==
  ASSUME CommandInv, BootInv, [Next]_vars, hand # Idle, hand' # Idle
  PROVE  /\ stage' = stage /\ source' = source /\ intent' = intent
         /\ mode' = mode /\ hand'.op = hand.op /\ hand'.do = hand.do
         /\ hand' = hand \/ Goes
<1>1. ~Takes
  BY DEF Takes, Arm, AdoptOld, Stop, Finalize, Rejoin, CanFinalize, Start, StartAgain,
     Accept, Complete, Recover, WatchRecovers, RecoverCall, Reconcile, LockFree
<1>2. ~Records
  BY DEF Records, Arm, AdoptOld, Stop, Start, Tested, Accept, Recover,
     WatchRecovers, RecoverCall, LockFree, Stopped, Booted, Completed, Confirm,
     RecoveryFails, Return
<1>3. ~(\E o \in Ops : Stage(o)) /\ ~(\E r \in Roles, want \in Wants : Reconcile(r, want))
  BY DEF Stage, Reconcile, LockFree
<1>4. mode \notin {"fence", "start"}
  BY DEF BootInv
<1>5. ~PowerLoss /\ ~RecoveryFails /\ ~Boot
  BY <1>4 DEF PowerLoss, RecoveryFails, Boot, BootRecovered, BootRecoveryFails,
     Fence, XenDomains
<1>6. hand' = hand \/ Goes
  BY <1>1, FrameNext DEF Frame
<1>7. CASE Persist
  BY <1>2, <1>3, <1>5, <1>6, <1>7, PersistGoes, FrameNext DEF Frame
<1>8. CASE ~Persist
  <2>1. hand'.op = hand.op /\ hand'.do = hand.do
    BY <1>6, <1>8 DEF Goes, WriteConfig, WriteLink, Publish, StartWatch,
       Shutdown, Create, Destroy, Drain, Drained, Restart, Runtime, Goto,
       CommandInv, TypeOK, Hands
  <2> QED BY <1>2, <1>3, <1>5, <1>6, <2>1, FrameNext DEF Frame
<1> QED BY <1>7, <1>8

(* Every command publishes what is selected.                               *)
LEMMA SidePublishes ==
  ASSUME CommandInv, hand.pc = "config"
  PROVE  hand.op \in Ops /\ Side(hand.do, hand.op) = Selected(hand.op)
<1>1. hand.op \in Ops /\ HandFollows
  BY DEF CommandInv, HandInv, Idle
<1> USE DEF HandFollows, Publishing, Side, Selected, Crossed, PostBoot, Settled, Services
<1>2. CASE hand.do \in {"start", "accept", "complete"}
  BY <1>1, <1>2
<1>3. CASE hand.do = "adopt"
  BY <1>1, <1>3
<1>4. CASE hand.do = "recover"
  BY <1>1, <1>4
<1>5. CASE hand.do = "reconcile"
  BY <1>1, <1>5
<1> QED BY <1>1, <1>2, <1>3, <1>4, <1>5

(* A command that goes on has published the selected definition, with the  *)
(* approved runtime state.                                                 *)
LEMMA PublishedNext ==
  ASSUME CommandInv, PublishedInv, BootInv, [Next]_vars
  PROVE  PublishedInv'
<1> DEFINE After == {"link", "persist", "restart", "confirm", "runtime"}
<1> SUFFICES ASSUME hand'.pc \in After,
                    NEW o \in Ops, NEW r \in Roles, o = hand'.op, r = RoleOf[o]
             PROVE  /\ cfg'[r].gen = Selected(o)' /\ cfg'[r].by = o
                    /\ hand'.pc # "link" => cfg'[r].auto = (intent'[o] = "running")
  <2>1. hand'.pc \in After => hand'.op \in Ops
    BY HandNext DEF HandInv, Idle
  <2> QED BY <2>1, ConstantsAssumption DEF PublishedInv, Selected, Crossed
<1>1. hand' # Idle
  BY DEF Idle
<1>2. hand # Idle
  <2> SUFFICES ASSUME hand = Idle PROVE FALSE
    OBVIOUS
  <2>1. ~Goes
    BY DEF Idle, Goes, WriteConfig, WriteLink, Persist, Publish, StartWatch, Shutdown,
       Create, Destroy, Drain, Drained, Restart, Runtime, At
  <2>2. ASSUME NEW x \in Ops,
               \/ Arm(x) \/ AdoptOld(x) \/ Stop(x) \/ Finalize(x) \/ Rejoin(x) \/ Start(x)
               \/ StartAgain(x) \/ Accept(x) \/ Complete(x) \/ Recover(x) \/ WatchRecovers(x)
        PROVE  FALSE
    BY <2>2 DEF Arm, AdoptOld, Stop, Finalize, Rejoin, Start, StartAgain, Accept,
       Complete, Recover, WatchRecovers, RecoverCall, Keep, Restore, Take
  <2>3. ASSUME NEW s \in Roles, NEW want \in Wants, Reconcile(s, want) PROVE FALSE
    BY <2>3 DEF Reconcile, Take
  <2> QED BY <1>1, <2>1, <2>2, <2>3, FrameNext DEF Frame, Takes, Idle
<1>3. /\ Selected(o)' = Selected(o) /\ intent' = intent /\ hand.op = o
      /\ hand' = hand \/ Goes
  BY <1>1, <1>2, Holding DEF Selected, Crossed
<1>4. ~PowerLoss /\ ~Fence
  BY <1>1, <1>2 DEF PowerLoss, Fence, BootInv
<1> USE DEF CommandInv, TypeOK, Definition, Hands, Goto, At
<1>5. CASE WriteConfig
  BY <1>3, <1>5, SidePublishes DEF WriteConfig
<1>6. CASE WriteLink
  BY <1>3, <1>6 DEF WriteLink, PublishedInv
<1>7. CASE ~WriteConfig /\ ~WriteLink
  <2>1. cfg' = cfg
    BY <1>4, <1>7, FrameNext DEF Frame
  <2>2. CASE hand' = hand
    BY <1>3, <2>1, <2>2 DEF PublishedInv
  <2>3. CASE Persist
    BY <1>1, <1>3, <2>1, <2>3, PersistGoes DEF PublishedInv, Persist
  <2>4. CASE Restart
    BY <1>3, <2>1, <2>4 DEF PublishedInv, Restart
  <2>5. CASE \/ Publish \/ StartWatch \/ Shutdown \/ Create \/ Destroy
             \/ Drain \/ Drained \/ Runtime
    BY <2>5 DEF Publish, StartWatch, Shutdown, Create, Destroy, Drain, Drained, Runtime
  <2> QED BY <1>3, <1>7, <2>2, <2>3, <2>4, <2>5 DEF Goes
<1> QED BY <1>5, <1>6, <1>7

(* While the box boots, only boot recovery acts, on a role it has still to *)
(* do.                                                                     *)
LEMMA BootActs ==
  ASSUME CommandInv, BootInv, [Next]_vars, mode # "up", ~PowerLoss
  PROVE  /\ pointer' = pointer /\ source' = source /\ intent' = intent
         /\ \A o \in Ops : stage'[o] # stage[o] => mode = "booting" /\ RoleOf[o] \in bootq
         /\ \A r \in Roles : cfg'[r] # cfg[r] =>
              mode = "fence" \/ (mode = "booting" /\ r \in bootq)
<1>1. hand # Idle => hand.op \in Ops /\ hand.do = "recover" /\ mode = "booting"
                      /\ RoleOf[hand.op] \in bootq /\ hand.pc # "publish"
  BY DEF BootInv, CommandInv, HandInv, HandFollows, Publishing, TypeOK
<1>2. ~(\E o \in Ops : Stage(o)) /\ ~(\E r \in Roles, want \in Wants : Reconcile(r, want))
  BY DEF Stage, Reconcile, LockFree
<1>3. ~Publish
  BY <1>1 DEF Publish, Idle
<1>4. pointer' = pointer /\ source' = source /\ intent' = intent
  BY <1>2, <1>3, FrameNext DEF Frame
<1>5. ASSUME NEW o \in Ops, stage'[o] # stage[o]
      PROVE  mode = "booting" /\ RoleOf[o] \in bootq
  <2> USE DEF CommandInv, TypeOK, Record
  <2>1. ASSUME NEW x \in Ops,
               Arm(x) \/ AdoptOld(x) \/ Stop(x) \/ Start(x) \/ Tested(x) \/ Accept(x)
        PROVE  FALSE
    BY <2>1 DEF Arm, AdoptOld, Stop, Start, Tested, Accept, LockFree
  <2>2. ASSUME NEW x \in Ops, Recover(x) \/ WatchRecovers(x)
        PROVE  mode = "booting" /\ RoleOf[o] \in bootq
    BY <1>5, <2>2 DEF Recover, WatchRecovers, RecoverCall, Keep, Restore
  <2>3. CASE Stopped \/ Booted \/ Completed \/ Confirm \/ RecoveryFails
    BY <1>1, <1>5, <2>3 DEF Stopped, Booted, Completed, Confirm, RecoveryFails,
       Restoring, At, Idle
  <2> QED BY <1>5, <2>1, <2>2, <2>3, FrameNext DEF Frame, Records
<1>6. ASSUME NEW r \in Roles, cfg'[r] # cfg[r]
      PROVE  mode = "fence" \/ (mode = "booting" /\ r \in bootq)
  <2>1. CASE WriteConfig \/ WriteLink
    <3>1. hand # Idle
      BY <2>1 DEF WriteConfig, WriteLink, Idle
    <3> QED BY <1>1, <1>6, <2>1, <3>1 DEF WriteConfig, WriteLink, CommandInv, TypeOK
  <2>2. CASE Fence
    BY <2>2 DEF Fence
  <2> QED BY <1>6, <2>1, <2>2, FrameNext DEF Frame
<1> QED BY <1>4, <1>5, <1>6

(* A decided role that boot recovery leaves alone stays decided.           *)
LEMMA DecidedStays ==
  ASSUME CommandInv, PointerInv, BootInv, [Next]_vars, mode # "up", ~PowerLoss,
         NEW r \in Roles, pointer[r] # None, Decided(r),
         r \notin bootq \/ mode # "booting", mode # "fence"
  PROVE  Decided(r)'
<1> PICK p \in Ops : p = pointer[r]
  BY DEF CommandInv, TypeOK
<1>1. RoleOf[p] = r
  BY DEF PointerInv
<1>2. /\ pointer'[r] = p /\ stage'[p] = stage[p] /\ source'[p] = source[p]
      /\ intent'[p] = intent[p] /\ cfg'[r] = cfg[r]
  BY <1>1, BootActs
<1> QED BY <1>2 DEF Decided, Selected, Crossed

(* Boot recovery leaves a role when its definition is published: kept past *)
(* the boundary, or recovered.                                             *)
LEMMA ReturnDecides ==
  ASSUME CommandInv, PointerInv, HeldInv, PublishedInv, BootInv, [Next]_vars,
         mode = "booting", mode' = "booting", ~PowerLoss,
         NEW r \in Roles, r \in bootq, r \notin bootq'
  PROVE  Decided(r)'
<1>1. Returns
  BY FrameNext DEF Frame
<1>2. hand # Idle
  BY <1>1 DEF Returns, Persist, BindWatch, Stopped, Finalized, FinalizeFails, Booted,
     Completed, Confirm, Reached, At, Idle
<1> PICK o \in Ops : o = hand.op
  BY <1>2 DEF CommandInv, HandInv
<1>3. hand.do = "recover" /\ HandFollows
  BY <1>2 DEF BootInv, CommandInv, HandInv
<1>4. Persist \/ Confirm
  BY <1>1, <1>3 DEF Returns, BindWatch, Stopped, Finalized, FinalizeFails, Booted,
     Completed, Reached, HandFollows, Publishing, At
<1>5. /\ hand.pc \in {"persist", "confirm"} /\ bootq' = bootq \ {RoleOf[o]}
      /\ cfg' = cfg
  BY <1>3, <1>4 DEF Persist, Confirm, At, Return
<1>6. r = RoleOf[o] /\ pointer[r] = o /\ pointer'[r] = o
  BY <1>2, <1>5, BootActs DEF HeldInv, Current
<1>7. source'[o] = source[o] /\ intent'[o] = intent[o]
  BY BootActs
<1>8. cfg[r] = [gen |-> Selected(o), by |-> o, auto |-> intent[o] = "running"]
  BY <1>5, <1>6 DEF PublishedInv, CommandInv, TypeOK, Definition
<1>9. /\ stage'[o] \in Settled \/ Crossed(o)'
      /\ Crossed(o)' = Crossed(o)
  <2>1. CASE Persist
    <3>1. stage' = stage /\ stage[o] # "recovering"
      BY <1>3, <1>5, <1>6, <2>1 DEF Persist, durable
    <3> QED BY <1>3, <1>5, <3>1 DEF HandFollows, Publishing, Settled, Crossed
  <2>2. CASE Confirm
    <3>1. stage[o] = "recovering" /\ stage'[o] = "recovered"
      BY <1>3, <2>2 DEF HandFollows, Publishing, Confirm, At, Record, CommandInv, TypeOK
    <3> QED BY <3>1 DEF Settled, Crossed, PostBoot
  <2> QED BY <1>4, <2>1, <2>2
<1> QED BY <1>5, <1>6, <1>7, <1>8, <1>9 DEF Decided, Selected

(* Boot recovery decides role after role, and what it cannot decide the    *)
(* fence keeps from starting.                                              *)
LEMMA BootNext ==
  ASSUME CommandInv, PointerInv, HeldInv, PublishedInv, BootInv, [Next]_vars
  PROVE  BootInv'
<1>1. CASE PowerLoss
  BY <1>1 DEF PowerLoss, BootInv, durable
<1>2. CASE ~PowerLoss
  <2>1. ASSUME mode' # mode
        PROVE  \/ mode = "booting" /\ mode' = "fence" /\ hand' = Idle /\ fin' = fin
               \/ BootRecovered \/ Fence \/ mode' = "up"
    BY <1>2, <2>1, FrameNext
       DEF Frame, RecoveryFails, Boot, BootRecoveryFails, XenDomains, xen,
           CommandInv, TypeOK
  <2>2. ASSUME hand' # Idle PROVE mode' = mode /\ (mode = "booting" =>
               hand'.do = "recover" /\ RoleOf[hand'.op] \in bootq')
    <3>1. CASE hand # Idle
      <4>1. mode' = mode /\ hand'.op = hand.op /\ hand'.do = hand.do
        BY <2>2, <3>1, Holding
      <4>2. mode = "booting" => bootq' = bootq
        <5> SUFFICES ASSUME mode = "booting", Returns PROVE bootq' = bootq
          BY <1>2, FrameNext DEF Frame
        <5>1. Persist
          BY <2>2 DEF Returns, Return, BindWatch, Stopped, Finalized, FinalizeFails,
             Booted, Completed, Confirm, Reached
        <5>2. hand.do = "recover"
          BY <3>1 DEF BootInv
        <5> QED BY <2>2, <5>1, <5>2 DEF Persist, Return
      <4> QED BY <3>1, <4>1, <4>2 DEF BootInv
    <3>2. CASE hand = Idle
      <4>1. ~Goes
        BY <3>2 DEF Idle, Goes, WriteConfig, WriteLink, Persist, Publish, StartWatch,
           Shutdown, Create, Destroy, Drain, Drained, Restart, Runtime, At
      <4>2. ASSUME NEW x \in Ops,
                   \/ Arm(x) \/ AdoptOld(x) \/ Stop(x) \/ Finalize(x) \/ Rejoin(x)
                   \/ Start(x) \/ StartAgain(x) \/ Accept(x) \/ Complete(x)
            PROVE  mode = "up" /\ mode' = mode
        BY <4>2 DEF Arm, AdoptOld, Stop, Finalize, Rejoin, CanFinalize, Start,
           StartAgain, Accept, Complete, LockFree, boot
      <4>3. ASSUME NEW x \in Ops, Recover(x) \/ WatchRecovers(x)
            PROVE  /\ mode' = mode /\ bootq' = bootq /\ hand'.op = x /\ hand'.do = "recover"
                   /\ mode = "up" \/ RoleOf[x] \in bootq
        BY <4>3 DEF Recover, WatchRecovers, RecoverCall, Keep, Restore, Take, boot
      <4>4. ASSUME NEW s \in Roles, NEW want \in Wants, Reconcile(s, want)
            PROVE  mode = "up" /\ mode' = mode
        BY <4>4 DEF Reconcile, LockFree, boot
      <4> QED BY <2>2, <3>2, <4>1, <4>2, <4>3, <4>4, FrameNext DEF Frame, Takes
    <3> QED BY <3>1, <3>2
  <2>3. mode' \in {"fence", "start"} => hand' = Idle
    <3>1. mode \in {"fence", "start"} => hand' = Idle
      <4> SUFFICES ASSUME mode \in {"fence", "start"}, hand' # Idle PROVE FALSE
        OBVIOUS
      <4>1. hand = Idle /\ ~Goes
        BY DEF BootInv, Idle, Goes, WriteConfig, WriteLink, Persist, Publish, StartWatch,
           Shutdown, Create, Destroy, Drain, Drained, Restart, Runtime, At
      <4>2. ~Takes
        BY DEF Takes, Arm, AdoptOld, Stop, Finalize, Rejoin, CanFinalize, Start,
           StartAgain, Accept, Complete, Recover, WatchRecovers, RecoverCall,
           Reconcile, LockFree
      <4> QED BY <4>1, <4>2, FrameNext DEF Frame
    <3>2. CASE mode' = mode
      BY <3>1, <3>2
    <3>3. CASE mode' # mode
      BY <2>1, <2>2, <3>3
    <3> QED BY <3>2, <3>3
  <2>4. mode' # "up" => fin' = {}
    <3>1. mode # "up" => fin' = {}
      <4>1. mode # "up" => fin = {} /\ hand.do # "finalize"
        BY DEF BootInv, Idle, CommandInv, TypeOK
      <4> QED BY <1>2, <4>1, FrameNext DEF Frame, Finalize, CanFinalize, LockFree,
              Finalized, FinalizeFails, FinalizerExits, At
    <3>2. mode = "up" => mode' = "up"
      BY <1>2, FrameNext DEF Frame, RecoveryFails, Boot, BootRecovered,
         BootRecoveryFails, Fence, XenDomains
    <3> QED BY <3>1, <3>2
  <2>5. ASSUME mode' = "booting", NEW r \in Roles \ bootq', pointer'[r] # None
        PROVE  Decided(r)'
    <3>1. mode = "booting"
      BY <1>2, <2>1, <2>5 DEF BootRecovered, Fence
    <3>2. pointer' = pointer
      BY <1>2, <3>1, BootActs
    <3>3. CASE r \in bootq
      BY <1>2, <2>5, <3>1, <3>3, ReturnDecides
    <3>4. CASE r \notin bootq
      <4>1. Decided(r)
        BY <2>5, <3>1, <3>2, <3>4 DEF BootInv
      <4> QED BY <1>2, <2>5, <3>1, <3>2, <3>4, <4>1, DecidedStays
    <3> QED BY <3>3, <3>4
  <2>6. ASSUME mode' = "start", NEW r \in Roles, pointer'[r] # None, cfg'[r].auto
        PROVE  Decided(r)'
    <3>1. mode # "up" /\ pointer' = pointer
      <4>1. mode # "up"
        BY <2>1, <2>6 DEF BootRecovered, Fence
      <4> QED BY <1>2, <4>1, BootActs
    <3>2. CASE mode = "start"
      <4>1. cfg' = cfg
        BY <1>2, <3>2, FrameNext DEF Frame, WriteConfig, WriteLink, Fence, BootInv, Idle
      <4>2. Decided(r)
        BY <2>6, <3>1, <3>2, <4>1 DEF BootInv
      <4> QED BY <1>2, <2>6, <3>1, <3>2, <4>2, DecidedStays
    <3>3. CASE BootRecovered
      <4>1. mode = "booting" /\ r \notin bootq /\ Decided(r)
        BY <2>6, <3>1, <3>3 DEF BootRecovered, BootInv
      <4> QED BY <1>2, <2>6, <3>1, <4>1, DecidedStays
    <3>4. CASE Fence
      <4>1. cfg'[r].auto = (cfg[r].auto /\ ~Fenced(r))
        BY <3>4 DEF Fence, CommandInv, TypeOK, Definition
      <4> QED BY <2>6, <3>1, <4>1 DEF Fenced
    <3> QED BY <2>1, <2>6, <3>2, <3>3, <3>4
  <2>7. mode' = "booting" => mode = "booting"
    BY <2>1 DEF BootRecovered, Fence
  <2> QED BY <2>2, <2>3, <2>4, <2>5, <2>6, <2>7 DEF BootInv, Decided, Selected, Crossed
<1> QED BY <1>1, <1>2

-----------------------------------------------------------------------------
(* The live guests.                                                        *)

(* A guest is started only where none runs and no copy is alive, while     *)
(* nothing else changes: the selected generation, or one on trial.         *)
Starts(r) ==
  /\ guest[r] = None /\ fin' = fin /\ \A x \in fin : RoleOf[x] # r
  /\ UNCHANGED <<stage, source, pointer, pending, dying>>
  /\ pointer[r] # None => stage[pointer[r]] # "stopped"
  /\ \/ guest'[r] = SelectedOf(r)
     \/ OnTrial(r) /\ guest'[r] = pointer[r]

LEMMA GuestStarts ==
  ASSUME CommandInv, AssignmentInv, LiveInv, [Next]_vars, NEW r \in Roles
  PROVE  guest'[r] \in {guest[r], None} \/ Starts(r)
<1> SUFFICES ASSUME guest'[r] # guest[r], guest'[r] # None
             PROVE  Starts(r)
  OBVIOUS
<1> USE DEF CommandInv, TypeOK, AssignmentInv, LiveInv, durable, At
<1>1. \/ Create \/ Restart \/ Runtime \/ XenDomains
  <2>1. ~Destroy
    BY DEF Destroy
  <2>2. ~(\E s \in Roles : GuestExits(s)) /\ ~PowerLoss
    BY DEF GuestExits, PowerLoss
  <2> QED BY <2>1, <2>2, FrameNext DEF Frame
<1>2. ASSUME Create \/ Restart \/ Runtime
      PROVE  /\ hand.op \in Ops /\ HandFollows /\ pointer[r] = hand.op
             /\ r = RoleOf[hand.op]
  <2>1. r = RoleOf[hand.op]
    BY <1>2 DEF Create, Restart, Runtime
  <2>2. hand # Idle /\ hand.pc # "publish"
    BY <1>2 DEF Create, Restart, Runtime, Idle
  <2> QED BY <2>1, <2>2 DEF HandInv, HeldInv, Current
<1>3. CASE Create
  <2> PICK o \in Ops : o = hand.op
    BY <1>2, <1>3
  <2>1. stage[o] \in {"starting", "booted"} /\ guest'[r] = o
    BY <1>2, <1>3 DEF Create, HandFollows, Publishing
  <2>2. guest[r] = None /\ Clear(o)
    BY <1>2, <1>3, <2>1 DEF Create, Finds
  <2>3. CASE o \in Historical
    <3>1. OnTrial(r)
      BY <1>2, <1>3, <2>1, <2>3 DEF OnTrial
    <3> QED BY <1>2, <1>3, <2>1, <2>2, <3>1 DEF Starts, Create, Clear
  <2>4. CASE o \notin Historical
    <3>1. SelectedOf(r) = o
      BY <1>2, <1>3, <2>1, <2>4, ConstantsAssumption
         DEF SelectedOf, Selected, Crossed, PostBoot
    <3> QED BY <1>2, <1>3, <2>1, <2>2, <3>1 DEF Starts, Create, Clear
  <2> QED BY <2>3, <2>4
<1>4. CASE Restart
  <2>1. guest[r] = None /\ guest'[r] = cfg[r].gen
    BY <1>2, <1>4 DEF Restart
  <2>2. cfg[r].gen = SelectedOf(r)
    BY <1>2, <1>4, ConstantsAssumption DEF Restart, PublishedInv, SelectedOf
  <2>3. stage[hand.op] = "recovering"
    BY <1>2, <1>4 DEF Restart, HandFollows, Publishing
  <2>4. Clear(hand.op)
    BY <1>4, <1>2, ConstantsAssumption DEF Restart, CopyInv, Idle
  <2> QED BY <1>2, <1>4, <2>1, <2>2, <2>3, <2>4 DEF Starts, Restart, Clear
<1>5. CASE Runtime
  <2>1. guest[r] = None /\ guest'[r] = cfg[r].gen /\ dying' = dying
    BY <1>2, <1>5 DEF Runtime
  <2>2. cfg[r].gen = SelectedOf(r)
    BY <1>2, <1>5, ConstantsAssumption DEF Runtime, PublishedInv, SelectedOf
  <2>3. stage[hand.op] \in Settled
    BY <1>2, <1>5 DEF Runtime, HandFollows, Publishing
  <2>4. Clear(hand.op)
    BY <1>5 DEF Runtime, Finds
  <2> QED BY <1>2, <1>5, <2>1, <2>2, <2>3, <2>4 DEF Starts, Runtime, Clear, Settled
<1>6. CASE XenDomains
  <2>1. guest[r] = None /\ guest'[r] = cfg[r].gen /\ cfg[r].auto /\ mode = "start"
    BY <1>6 DEF XenDomains
  <2>2. fin = {}
    BY <2>1 DEF BootInv
  <2>3. CASE pointer[r] = None
    <3>1. cfg[r].gen = SelectedOf(r)
      BY <2>3 DEF FirstInv, SelectedOf
    <3> QED BY <1>6, <2>1, <2>2, <2>3, <3>1 DEF Starts, XenDomains
  <2>4. CASE pointer[r] # None
    <3>1. Decided(r)
      BY <2>1, <2>4 DEF BootInv
    <3>2. cfg[r].gen = SelectedOf(r) /\ stage[pointer[r]] # "stopped"
      BY <2>4, <3>1 DEF Decided, SelectedOf, Settled, Crossed, PostBoot
    <3> QED BY <1>6, <2>1, <2>2, <2>4, <3>2 DEF Starts, XenDomains
  <2> QED BY <2>3, <2>4
<1> QED BY <1>1, <1>3, <1>4, <1>5, <1>6

(* A role keeps running nothing, what is selected, or a candidate on trial. *)
LEMMA GuestNext ==
  ASSUME CommandInv, PublishSettled, DefinitionsCrossed, AssignmentInv, LiveInv,
         [Next]_vars
  PROVE  GuestInv'
<1> SUFFICES ASSUME NEW r \in Roles
             PROVE  \/ guest'[r] \in {None, SelectedOf(r)'}
                    \/ OnTrial(r)' /\ guest'[r] = pointer'[r]
  BY DEF GuestInv, SelectedOf, Selected, Crossed, OnTrial
<1>1. CASE Starts(r)
  BY <1>1 DEF Starts, SelectedOf, Selected, Crossed, OnTrial
<1>2. CASE guest'[r] = None
  BY <1>2
<1>3. CASE guest'[r] = guest[r] /\ guest[r] = SelectedOf(r) /\ guest[r] # None
  <2>1. CASE SelectedOf(r)' = SelectedOf(r)
    BY <1>3, <2>1
  <2>2. ASSUME NEW o \in Ops, RoleOf[o] = r, ~Crossed(o), Crossed(o)',
               SelectedOf(r) = source[o].gen
        PROVE  FALSE
    <3>1. source[o].gen # o
      BY <2>2 DEF DefinitionsCrossed
    <3>2. guest[r] \in {None, o}
      BY <2>2, CrossNext
    <3> QED BY <1>3, <2>2, <3>1, <3>2
  <2> QED BY <2>1, <2>2, SelectionNext DEF AssignmentInv
<1>4. CASE guest'[r] = guest[r] /\ OnTrial(r) /\ guest[r] = pointer[r]
  <2> PICK p \in Ops : p = pointer[r]
    BY <1>4, ConstantsAssumption DEF OnTrial
  <2>1. /\ p \in Historical /\ RoleOf[p] = r /\ p # None /\ guest'[r] = p
        /\ stage[p] \in {"starting", "booted", "tested", "recovering", "recovery-failed"}
    BY <1>4, ConstantsAssumption DEF OnTrial, AssignmentInv, PointerInv
  <2>2. pointer'[r] = p
    <3>1. ~OthersSettled
      BY <2>1 DEF OthersSettled, Settled
    <3>2. hand.pc # "publish"
      BY <3>1 DEF PublishSettled
    <3> QED BY <3>2, PointerNext DEF PointerStep
  <2>3. CASE stage'[p] = stage[p]
    BY <2>1, <2>2, <2>3 DEF OnTrial
  <2>4. CASE stage'[p] # stage[p]
    <3>1. PICK s \in Stages : Moves(p, s) /\ stage'[p] = s
      BY <2>4, JournalNext DEF JournalStep, Record, CommandInv, TypeOK
    <3>2. s \in {"booted", "tested", "accepted", "recovering", "recovered", "recovery-failed"}
      BY <2>1, <3>1 DEF Moves, PreAccept
    <3>3. CASE s \in {"booted", "tested", "recovering", "recovery-failed"}
      BY <2>1, <2>2, <3>1, <3>3 DEF OnTrial
    <3>4. CASE s = "accepted"
      BY <2>1, <2>2, <3>1, <3>4 DEF SelectedOf, Selected, Crossed
    <3>5. CASE s = "recovered"
      <4>1. Confirm /\ hand.op = p
        <5>1. ASSUME NEW x \in Ops,
                     \/ Arm(x) \/ AdoptOld(x) \/ Stop(x) \/ Start(x) \/ Tested(x)
                     \/ Accept(x) \/ Recover(x) \/ WatchRecovers(x)
              PROVE  FALSE
          BY <2>4, <3>1, <3>5, <5>1 DEF Arm, AdoptOld, Stop, Start, Tested, Accept,
             Recover, WatchRecovers, RecoverCall, Keep, Restore, Record,
             CommandInv, TypeOK
        <5>2. ~Stopped /\ ~Booted /\ ~Completed /\ ~RecoveryFails
          BY <2>4, <3>1, <3>5 DEF Stopped, Booted, Completed, RecoveryFails, Record,
             CommandInv, TypeOK
        <5> QED BY <2>4, <3>1, <3>5, <5>1, <5>2, FrameNext
                DEF Frame, Records, Confirm, Record, CommandInv, TypeOK
      <4>2. guest[r] = source[p].gen /\ source' = source
        BY <2>1, <4>1 DEF Confirm, Finds
      <4> QED BY <1>4, <2>1, <2>2, <3>1, <3>5, <4>2 DEF SelectedOf, Selected, Crossed
    <3> QED BY <3>2, <3>3, <3>4, <3>5
  <2> QED BY <2>3, <2>4
<1> QED BY <1>1, <1>2, <1>3, <1>4, GuestStarts DEF LiveInv, GuestInv

(* From the confirmed stop to the start of the candidate nothing runs.     *)
LEMMA StoppedNext ==
  ASSUME CommandInv, PublishSettled, AssignmentInv, LiveInv, [Next]_vars
  PROVE  StoppedInv'
<1> SUFFICES ASSUME NEW o \in Ops, stage'[o] = "stopped"
             PROVE  guest'[RoleOf[o]] = None
  BY DEF StoppedInv
<1> PICK r \in Roles : r = RoleOf[o]
  BY ConstantsAssumption
<1>1. CASE stage[o] = "stopped"
  <2>1. guest[r] = None /\ pointer[r] = o
    BY <1>1 DEF LiveInv, StoppedInv, AssignmentInv, OpenInv, Inert, Current
  <2>2. ~Starts(r)
    BY <1>1, <2>1, ConstantsAssumption DEF Starts
  <2> QED BY <2>1, <2>2, GuestStarts
<1>2. CASE stage[o] # "stopped"
  <2> USE DEF CommandInv, TypeOK, Record
  <2>1. ASSUME NEW x \in Ops,
               \/ Arm(x) \/ AdoptOld(x) \/ Stop(x) \/ Start(x) \/ Tested(x)
               \/ Accept(x) \/ Recover(x) \/ WatchRecovers(x)
        PROVE  FALSE
    BY <1>2, <2>1 DEF Arm, AdoptOld, Stop, Start, Tested, Accept,
       Recover, WatchRecovers, RecoverCall, Keep, Restore
  <2>2. ~Booted /\ ~Completed /\ ~Confirm /\ ~RecoveryFails
    BY <1>2 DEF Booted, Completed, Confirm, RecoveryFails
  <2>3. Stopped
    BY <1>2, <2>1, <2>2, FrameNext DEF Frame, Records
  <2> QED BY <1>2, <2>3 DEF Stopped, Finds, xen
<1> QED BY <1>1, <1>2

(* A copy starts after the stop, and its operation goes nowhere else while *)
(* it runs: every other step of it refuses.                                *)
LEMMA CopyNext ==
  ASSUME CommandInv, AssignmentInv, LiveInv, [Next]_vars
  PROVE  CopyInv'
<1> USE DEF CommandInv, TypeOK, At
<1>1. ASSUME NEW o \in fin'
      PROVE  o \in fin \/ (Finalize(o) /\ hand'.op = o)
  <2>1. ASSUME NEW x \in Ops, Finalize(x)
        PROVE  o \in fin \/ (x = o /\ hand'.op = o)
    BY <2>1 DEF Finalize, Take
  <2> QED BY <1>1, <2>1, FrameNext
          DEF Frame, Finalized, FinalizeFails, FinalizerExits, PowerLoss
<1>2. ASSUME NEW o \in fin'
      PROVE  /\ stage'[o] \in {"stopped", "recovering", "recovery-failed"}
             /\ guest'[RoleOf[o]] = None
  <2>1. CASE Finalize(o)
    BY <2>1 DEF Finalize, Finds, durable
  <2>2. CASE o \in fin
    <3> PICK r \in Roles : r = RoleOf[o]
      BY <2>2, ConstantsAssumption
    <3>1. guest[r] = None /\ stage[o] \in {"stopped", "recovering", "recovery-failed"}
      BY <2>2 DEF LiveInv, CopyInv
    <3>2. guest'[r] = None
      BY <2>2, <3>1, GuestStarts DEF Starts
    <3>3. o \in Ops /\ ~Clear(o)
      BY <2>2 DEF Clear
    <3>4. CASE stage'[o] = stage[o]
      BY <3>1, <3>2, <3>4
    <3>5. CASE stage'[o] # stage[o]
      <4> USE DEF Record
      <4>1. ASSUME NEW x \in Ops,
                   Arm(x) \/ AdoptOld(x) \/ Stop(x) \/ Start(x) \/ Tested(x) \/ Accept(x)
            PROVE  FALSE
        BY <3>1, <3>3, <3>5, <4>1 DEF Arm, AdoptOld, Stop, Start, Tested, Accept, Finds
      <4>2. ASSUME NEW x \in Ops, Recover(x) \/ WatchRecovers(x)
            PROVE  stage'[o] = "recovering"
        BY <3>3, <3>5, <4>2 DEF Recover, WatchRecovers, RecoverCall, Keep, Restore
      <4>3. ~Stopped /\ ~Booted /\ ~Confirm
        BY <3>3, <3>5 DEF Stopped, Booted, Confirm, Finds
      <4>4. ~Completed
        BY <3>1, <3>3, <3>5 DEF Completed, HandInv, HandFollows, Idle, Publishing
      <4>5. RecoveryFails => stage'[o] = "recovery-failed"
        BY <3>5 DEF RecoveryFails
      <4> QED BY <3>2, <3>5, <4>1, <4>2, <4>3, <4>4, <4>5, FrameNext DEF Frame, Records
    <3> QED BY <3>4, <3>5
  <2> QED BY <1>1, <2>1, <2>2
<1>3. ASSUME NEW o \in Ops, o \in Services,
             stage[o] \notin {"none", "armed", "stopping", "adopted"}
      PROVE  stage'[o] \notin {"none", "armed", "stopping", "adopted"}
  BY <1>3, JournalNext DEF JournalStep, Record, Moves, PreAccept
<1>4. ASSUME NEW o \in fin' \cup copied'
      PROVE  o \in Ops /\ o \in Services
             /\ stage'[o] \notin {"none", "armed", "stopping", "adopted"}
  <2>1. CASE o \in fin \cup copied
    BY <1>3, <2>1 DEF LiveInv, CopyInv
  <2>2. CASE Finalize(o) /\ o \in fin'
    <3>1. o \in Services /\ o \in Ops
      BY <2>2 DEF Finalize, CanFinalize, Services
    <3> QED BY <2>2, <3>1 DEF Finalize, durable
  <2>3. CASE o \in copied' /\ o \notin copied
    <3>1. (hand.pc = "copy" /\ o = hand.op) \/ o \in fin
      BY <2>3, FrameNext DEF Frame, Finalized, FinalizerExits
    <3>2. o \in fin
      BY <3>1 DEF LiveInv, CopyInv
    <3> QED BY <1>3, <3>2 DEF LiveInv, CopyInv
  <2> QED BY <1>1, <1>4, <2>1, <2>2, <2>3
<1>5. ASSUME hand'.pc = "copy" PROVE hand'.op \in fin'
  <2>1. hand' # Idle
    BY <1>5 DEF Idle
  <2>2. CASE hand = Idle
    <3>1. ~Goes
      BY <2>2 DEF Idle, Goes, WriteConfig, WriteLink, Persist, Publish, StartWatch,
         Shutdown, Create, Destroy, Drain, Drained, Restart, Runtime
    <3>2. ASSUME NEW x \in Ops, Finalize(x) \/ Rejoin(x) PROVE hand'.op \in fin'
      BY <3>2 DEF Finalize, Rejoin, Take, xen
    <3>3. ASSUME NEW x \in Ops,
                 \/ Arm(x) \/ AdoptOld(x) \/ Stop(x) \/ Start(x) \/ StartAgain(x)
                 \/ Accept(x) \/ Complete(x) \/ Recover(x) \/ WatchRecovers(x)
          PROVE  FALSE
      BY <1>5, <3>3 DEF Arm, AdoptOld, Stop, Start, StartAgain, Accept, Complete,
         Recover, WatchRecovers, RecoverCall, Keep, Restore, Take
    <3>4. ASSUME NEW s \in Roles, NEW want \in Wants, Reconcile(s, want) PROVE FALSE
      BY <1>5, <3>4 DEF Reconcile, Take
    <3> QED BY <2>1, <2>2, <3>1, <3>2, <3>3, <3>4, FrameNext DEF Frame, Takes
  <2>3. CASE hand # Idle
    <3>1. hand' = hand
      <4>1. ~Persist
        BY <1>5, <2>1, PersistGoes
      <4>2. ~Goes
        BY <1>5, <4>1 DEF Goes, WriteConfig, WriteLink, Publish, StartWatch, Shutdown,
           Create, Destroy, Drain, Drained, Restart, Runtime, Goto, Hands
      <4> QED BY <2>1, <2>3, <4>2, Holding DEF LiveInv
    <3>2. hand.op \in fin /\ hand.do = "finalize"
      BY <1>5, <2>3, <3>1 DEF LiveInv, CopyInv, HandInv, HandFollows, Publishing
    <3>3. ~Finalized /\ ~FinalizeFails /\ ~PowerLoss
      BY <2>1 DEF Finalized, FinalizeFails, PowerLoss, Return
    <3>4. ASSUME NEW x \in Ops, FinalizerExits(x) PROVE hand.op \in fin'
      BY <3>2, <3>4 DEF FinalizerExits
    <3>5. ASSUME NEW x \in Ops, Finalize(x) PROVE hand.op \in fin'
      BY <3>2, <3>5 DEF Finalize
    <3> QED BY <3>1, <3>2, <3>3, <3>4, <3>5, FrameNext DEF Frame
  <2> QED BY <2>2, <2>3
<1>6. ASSUME hand' # Idle, hand'.do = "recover", hand'.pc # "destroy", NEW x \in fin'
      PROVE  RoleOf[x] # RoleOf[hand'.op]
  <2>1. ~Finalize(x)
    BY <1>6 DEF Finalize, Take
  <2>2. x \in fin
    BY <1>1, <1>6, <2>1
  <2>3. CASE hand = Idle
    <3>1. ~Goes
      BY <2>3 DEF Idle, Goes, WriteConfig, WriteLink, Persist, Publish, StartWatch,
         Shutdown, Create, Destroy, Drain, Drained, Restart, Runtime
    <3>2. ASSUME NEW o \in Ops,
                 \/ Arm(o) \/ AdoptOld(o) \/ Stop(o) \/ Start(o) \/ StartAgain(o)
                 \/ Accept(o) \/ Complete(o) \/ Finalize(o) \/ Rejoin(o)
          PROVE  FALSE
      BY <1>6, <3>2 DEF Arm, AdoptOld, Stop, Start, StartAgain, Accept, Complete,
         Finalize, Rejoin, Take
    <3>3. ASSUME NEW s \in Roles, NEW want \in Wants, Reconcile(s, want) PROVE FALSE
      BY <1>6, <3>3 DEF Reconcile, Take
    <3>4. ASSUME NEW o \in Ops, Recover(o) \/ WatchRecovers(o)
          PROVE  hand'.op = o /\ Clear(o)
      BY <1>6, <3>4 DEF Recover, WatchRecovers, RecoverCall, Keep, Restore, Take, Finds
    <3> QED BY <1>6, <2>2, <2>3, <3>1, <3>2, <3>3, <3>4, FrameNext
            DEF Frame, Takes, Clear
  <2>4. CASE hand # Idle
    <3>1. hand'.op = hand.op /\ hand.do = "recover" /\ (hand' = hand \/ Goes)
      BY <1>6, <2>4, Holding DEF LiveInv
    <3>2. CASE hand.pc # "destroy"
      BY <2>2, <2>4, <3>1, <3>2 DEF LiveInv, CopyInv, Clear
    <3>3. CASE hand.pc = "destroy"
      <4>1. Goes => Destroy
        BY <3>3 DEF Goes, WriteConfig, WriteLink, Persist, Publish, StartWatch,
           Shutdown, Create, Drain, Drained, Restart, Runtime
      <4> QED BY <1>6, <2>2, <3>1, <3>3, <4>1 DEF Destroy, Finds, Clear
    <3> QED BY <3>2, <3>3
  <2> QED BY <2>3, <2>4
<1> QED BY <1>2, <1>4, <1>5, <1>6 DEF CopyInv, Clear, Services

(* The places of a recovery that has still to drain a shutdown request.    *)
Draining == {"shutdown", "gone", "drain", "drained"}

(* The shutdown request of an update stays known to its journal until the  *)
(* guest has gone; only then does recovery restart or keep the old guest.  *)
LEMMA DyingNext ==
  ASSUME CommandInv, PublishSettled, AssignmentInv, LiveInv, [Next]_vars
  PROVE  DyingInv'
<1> USE DEF CommandInv, TypeOK, Hands, At
<1>1. ASSUME NEW r \in Roles, dying'[r] # "none"
      PROVE  guest'[r] # None
  <2>1. CASE Shutdown
    <3>1. hand.op \in Ops /\ RoleOf[hand.op] \in Roles
      BY <2>1, ConstantsAssumption DEF Shutdown, HandInv, Idle
    <3> QED BY <1>1, <2>1, <3>1 DEF Shutdown, LiveInv, DyingInv
  <2>2. CASE Destroy
    <3>1. hand.op \in Ops /\ RoleOf[hand.op] \in Roles
      BY <2>2, ConstantsAssumption DEF Destroy, HandInv, Idle
    <3> QED BY <1>1, <2>2, <3>1, ConstantsAssumption DEF Destroy, LiveInv, DyingInv
  <2>3. CASE Drain
    <3>1. hand.op \in Ops /\ RoleOf[hand.op] \in Roles
      BY <2>3, ConstantsAssumption DEF Drain, HandInv, Idle
    <3> QED BY <1>1, <2>3, <3>1 DEF Drain, LiveInv, DyingInv
  <2>4. CASE Runtime
    <3>1. hand.op \in Ops /\ RoleOf[hand.op] \in Roles
      BY <2>4, ConstantsAssumption DEF Runtime, HandInv, Idle
    <3>2. cfg[RoleOf[hand.op]].gen # None
      BY <3>1, ConstantsAssumption DEF Definition, Generations
    <3> QED BY <1>1, <2>4, <3>1, <3>2 DEF Runtime, LiveInv, DyingInv
  <2>5. ASSUME NEW s \in Roles, GuestExits(s) PROVE guest'[r] # None
    BY <1>1, <2>5 DEF GuestExits, LiveInv, DyingInv
  <2>6. CASE PowerLoss
    BY <1>1, <2>6 DEF PowerLoss
  <2>7. CASE /\ ~Shutdown /\ ~Destroy /\ ~Drain /\ ~Runtime /\ ~PowerLoss
             /\ ~(\E s \in Roles : GuestExits(s))
    <3>1. dying' = dying
      BY <2>7, FrameNext DEF Frame
    <3>2. guest[r] # None
      BY <1>1, <3>1 DEF LiveInv, DyingInv
    <3>3. CASE guest' = guest
      BY <3>2, <3>3
    <3>4. CASE Create
      <4>1. hand.op \in Ops /\ hand.op # None
        BY <3>4, ConstantsAssumption DEF Create, HandInv, Idle
      <4> QED BY <3>2, <3>4, <4>1 DEF Create
    <3>5. CASE Restart
      <4>1. hand.op \in Ops /\ RoleOf[hand.op] \in Roles
        BY <3>5, ConstantsAssumption DEF Restart, HandInv, Idle
      <4>2. cfg[RoleOf[hand.op]].gen # None
        BY <4>1, ConstantsAssumption DEF Definition, Generations
      <4> QED BY <3>2, <3>5, <4>1, <4>2 DEF Restart
    <3>6. CASE XenDomains
      <4>1. guest'[r] = guest[r]
        BY <3>2, <3>6 DEF XenDomains
      <4> QED BY <3>2, <4>1
    <3> QED BY <2>7, <3>3, <3>4, <3>5, <3>6, FrameNext DEF Frame
  <2> QED BY <2>1, <2>2, <2>3, <2>4, <2>5, <2>6, <2>7
<1>2. ASSUME NEW r \in Roles, dying'[r] = "update"
      PROVE  /\ pointer'[r] \in pending'
             /\ stage'[pointer'[r]] \in {"stopping", "recovering", "recovery-failed"}
  <2>1. CASE dying[r] = "update"
    <3> PICK p \in Ops : p = pointer[r]
      BY <2>1 DEF LiveInv, DyingInv
    <3>1. /\ p \in pending /\ stage[p] \in {"stopping", "recovering", "recovery-failed"}
          /\ RoleOf[p] = r /\ p # None /\ guest[r] # None
      BY <2>1, ConstantsAssumption DEF LiveInv, DyingInv, AssignmentInv, PointerInv
    <3>2. pointer'[r] = p
      <4>1. ~OthersSettled
        BY <3>1 DEF OthersSettled, Settled
      <4> QED BY <4>1, PointerNext DEF PointerStep, PublishSettled
    <3>3. ~(Stopped /\ hand.op = p) /\ ~(Drained /\ hand.op = p)
      BY <3>1 DEF Stopped, Drained, Finds
    <3>4. p \in pending'
      <4>1. ASSUME NEW x \in Ops, Stop(x) PROVE p \in pending'
        BY <3>1, <4>1 DEF Stop
      <4> QED BY <3>1, <3>3, <4>1, FrameNext DEF Frame, Stopped, Drained
    <3>5. stage'[p] \in {"stopping", "recovering", "recovery-failed"}
      <4> USE DEF Record
      <4>1. CASE stage'[p] = stage[p]
        BY <3>1, <4>1
      <4>2. CASE stage'[p] # stage[p]
        <5>1. ASSUME NEW x \in Ops,
                     Arm(x) \/ AdoptOld(x) \/ Stop(x) \/ Start(x) \/ Tested(x) \/ Accept(x)
              PROVE  stage'[p] = "stopping"
          BY <3>1, <4>2, <5>1 DEF Arm, AdoptOld, Stop, Start, Tested, Accept
        <5>2. ASSUME NEW x \in Ops, Recover(x) \/ WatchRecovers(x)
              PROVE  stage'[p] = "recovering"
          BY <4>2, <5>2 DEF Recover, WatchRecovers, RecoverCall, Keep, Restore
        <5>3. Booted \/ Completed => hand.op # p
          BY <3>1 DEF Booted, Completed, HandInv, HandFollows, Publishing, Idle
        <5>4. Confirm => hand.op # p
          BY <3>1 DEF Confirm, HandInv, HandFollows, Publishing, Idle, LiveInv,
             DyingInv, Restoring
        <5>5. ~Stopped /\ ~Booted /\ ~Completed /\ ~Confirm
          BY <3>3, <4>2, <5>3, <5>4 DEF Stopped, Booted, Completed, Confirm
        <5>6. RecoveryFails => stage'[p] = "recovery-failed"
          BY <4>2 DEF RecoveryFails
        <5> QED BY <4>2, <5>1, <5>2, <5>5, <5>6, FrameNext DEF Frame, Records
      <4> QED BY <4>1, <4>2
    <3> QED BY <3>2, <3>4, <3>5
  <2>2. CASE dying[r] # "update"
    <3>1. CASE Shutdown \/ Drain
      <4>1. hand.op \in Ops /\ r = RoleOf[hand.op] /\ hand # Idle /\ hand.pc # "publish"
        BY <1>2, <2>2, <3>1 DEF Shutdown, Drain, HandInv, Idle
      <4>2. pointer[r] = hand.op /\ hand.op \in pending
        BY <3>1, <4>1 DEF Shutdown, Drain, AssignmentInv, HeldInv, Current, LiveInv, DyingInv
      <4>3. stage[hand.op] \in {"stopping", "recovering"}
        BY <3>1, <4>1 DEF Shutdown, Drain, HandInv, HandFollows, Publishing
      <4>4. UNCHANGED <<pointer, pending, stage>>
        BY <3>1 DEF Shutdown, Drain, durable
      <4> QED BY <4>1, <4>2, <4>3, <4>4
    <3>2. ~Destroy /\ ~Runtime /\ ~PowerLoss
      BY <1>2, <2>2 DEF Destroy, Runtime, PowerLoss
    <3>3. ~(\E s \in Roles : GuestExits(s))
      BY <1>2, <2>2 DEF GuestExits
    <3> QED BY <1>2, <2>2, <3>1, <3>2, <3>3, FrameNext DEF Frame
  <2> QED BY <2>1, <2>2
<1>3. ASSUME hand'.pc \in Draining
      PROVE  hand'.op \in pending'
  <2>1. hand' # Idle
    BY <1>3 DEF Idle, Draining
  <2>2. CASE hand = Idle
    <3>1. ~Goes
      BY <2>2 DEF Idle, Goes, WriteConfig, WriteLink, Persist, Publish, StartWatch,
         Shutdown, Create, Destroy, Drain, Drained, Restart, Runtime
    <3>2. ASSUME NEW x \in Ops, Stop(x) PROVE hand'.op \in pending'
      BY <3>2 DEF Stop, Take
    <3>3. ASSUME NEW x \in Ops,
                 \/ Arm(x) \/ AdoptOld(x) \/ Finalize(x) \/ Rejoin(x) \/ Start(x)
                 \/ StartAgain(x) \/ Accept(x) \/ Complete(x) \/ Recover(x) \/ WatchRecovers(x)
          PROVE  FALSE
      BY <1>3, <3>3 DEF Arm, AdoptOld, Finalize, Rejoin, Start, StartAgain, Accept,
         Complete, Recover, WatchRecovers, RecoverCall, Keep, Restore, Take, Draining
    <3>4. ASSUME NEW s \in Roles, NEW want \in Wants, Reconcile(s, want) PROVE FALSE
      BY <1>3, <3>4 DEF Reconcile, Take, Draining
    <3> QED BY <2>1, <2>2, <3>1, <3>2, <3>3, <3>4, FrameNext DEF Frame, Takes
  <2>3. CASE hand # Idle
    <3>1. hand'.op = hand.op /\ (hand' = hand \/ Goes)
      BY <2>1, <2>3, Holding DEF LiveInv
    <3>2. ~Persist
      BY <1>3, <2>1, PersistGoes DEF Draining
    <3>3. hand.op \in pending /\ ~Drained
      <4>1. ~Drained
        BY <1>3 DEF Drained, Draining
      <4>2. CASE hand' = hand
        BY <1>3, <4>1, <4>2 DEF LiveInv, DyingInv, Draining
      <4>3. CASE Goes
        <5>1. Shutdown \/ Destroy \/ Drain
          BY <1>3, <3>2, <4>1, <4>3 DEF Goes, WriteConfig, WriteLink, Publish,
             StartWatch, Create, Restart, Runtime, Goto, Draining
        <5>2. Shutdown \/ Drain => hand.op \in pending
          BY DEF Shutdown, Drain, LiveInv, DyingInv
        <5>3. Destroy => hand.op \in pending
          BY <1>3 DEF Destroy, Draining
        <5> QED BY <4>1, <5>1, <5>2, <5>3
      <4> QED BY <3>1, <4>1, <4>2, <4>3
    <3>4. ~Stopped
      BY <2>1 DEF Stopped, Return
    <3>5. ASSUME NEW x \in Ops, Stop(x) PROVE hand.op \in pending'
      BY <3>3, <3>5 DEF Stop
    <3> QED BY <3>1, <3>3, <3>4, <3>5, FrameNext DEF Frame
  <2> QED BY <2>2, <2>3
<1>4. ASSUME hand'.do = "recover", stage'[hand'.op] = "recovering",
             hand'.pc \notin {"destroy", "drain", "drained"}
      PROVE  hand'.op \notin pending'
  <2>1. hand' # Idle
    BY <1>4 DEF Idle
  <2>2. CASE hand = Idle
    <3>1. ~Goes
      BY <2>2 DEF Idle, Goes, WriteConfig, WriteLink, Persist, Publish, StartWatch,
         Shutdown, Create, Destroy, Drain, Drained, Restart, Runtime
    <3>2. ASSUME NEW x \in Ops,
                 \/ Arm(x) \/ AdoptOld(x) \/ Stop(x) \/ Finalize(x) \/ Rejoin(x)
                 \/ Start(x) \/ StartAgain(x) \/ Accept(x) \/ Complete(x)
          PROVE  FALSE
      BY <1>4, <3>2 DEF Arm, AdoptOld, Stop, Finalize, Rejoin, Start, StartAgain, Accept,
         Complete, Take
    <3>3. ASSUME NEW s \in Roles, NEW want \in Wants, Reconcile(s, want) PROVE FALSE
      BY <1>4, <3>3 DEF Reconcile, Take
    <3>4. ASSUME NEW x \in Ops, Recover(x) \/ WatchRecovers(x) PROVE FALSE
      <4>1. CASE Keep(x)
        BY <1>4, <3>4, <4>1 DEF Keep, Take, Crossed, PostBoot
      <4>2. CASE Restore(x)
        BY <1>4, <3>4, <4>2 DEF Restore, Take
      <4> QED BY <3>4, <4>1, <4>2 DEF Recover, WatchRecovers, RecoverCall
    <3> QED BY <2>1, <2>2, <3>1, <3>2, <3>3, <3>4, FrameNext DEF Frame, Takes
  <2>3. CASE hand # Idle
    <3>1. /\ hand'.op = hand.op /\ hand.do = "recover" /\ stage[hand.op] = "recovering"
          /\ hand' = hand \/ Goes
      BY <1>4, <2>1, <2>3, Holding DEF LiveInv
    <3>2. ASSUME hand.pc \notin {"destroy", "drain", "drained"}
          PROVE  hand'.op \notin pending'
      <4>1. hand.op \notin pending
        BY <3>1, <3>2 DEF LiveInv, DyingInv, Restoring
      <4>2. ASSUME NEW x \in Ops PROVE ~Stop(x)
        BY <2>3 DEF Stop, LockFree
      <4> QED BY <3>1, <4>1, <4>2, FrameNext DEF Frame, Stopped, Drained
    <3>3. ASSUME hand.pc \in {"destroy", "drain", "drained"}
          PROVE  hand'.op \notin pending'
      <4>1. Destroy \/ Drained
        BY <1>4, <3>1, <3>3 DEF Goes, WriteConfig, WriteLink, Persist, Publish,
           StartWatch, Shutdown, Create, Drain, Restart, Runtime, Goto
      <4> QED BY <1>4, <3>1, <4>1 DEF Destroy, Drained, durable
    <3> QED BY <3>2, <3>3
  <2> QED BY <2>2, <2>3
<1> QED BY <1>1, <1>2, <1>3, <1>4 DEF DyingInv, Restoring, Draining

-----------------------------------------------------------------------------
(* The invariant, and what it says of the live guests.                     *)

PromiseInv ==
  CommandInv /\ DefinitionsCrossed /\ PublishSettled /\ AssignmentInv /\ LiveInv

(* A box starts with no assignment and its first generations.              *)
LEMMA PromiseInit == Init => PromiseInv
<1> SUFFICES ASSUME Init PROVE PromiseInv
  OBVIOUS
<1>1. CommandInv
  BY CommandInit
<1> USE ConstantsAssumption DEF Init, Idle
<1>2. DefinitionsCrossed /\ PublishSettled
  BY DEF DefinitionsCrossed, BoundaryBeforeDefinition, PublishSettled
<1>3. AssignmentInv
  BY DEF AssignmentInv, PointerInv, OpenInv, Inert, HeldInv, FirstInv, FollowsInv,
     RetiredInv, Crossed, PostBoot
<1>4. PublishedInv /\ BootInv /\ GuestInv
  BY DEF PublishedInv, BootInv, GuestInv, SelectedOf
<1>5. StoppedInv /\ CopyInv /\ DyingInv
  BY DEF StoppedInv, CopyInv, DyingInv, Restoring
<1> QED BY <1>1, <1>2, <1>3, <1>4, <1>5 DEF PromiseInv, LiveInv

LEMMA PromiseNext == PromiseInv /\ [Next]_vars => PromiseInv'
<1> SUFFICES ASSUME PromiseInv, [Next]_vars PROVE PromiseInv'
  OBVIOUS
<1> USE DEF PromiseInv
<1>1. CommandInv'
  BY TypeNext, SourceStays, HandNext DEF CommandInv
<1>2. DefinitionsCrossed' /\ PublishSettled'
  BY DefinitionsNext, PublishNext
<1>3. CopyInv'
  BY CopyNext
<1>4. AssignmentInv'
  BY PointersNext, OpenNext, HeldNext, FirstNext, FollowsNext, RetiredNext
     DEF AssignmentInv, LiveInv
<1>5. PublishedInv' /\ BootInv'
  BY PublishedNext, BootNext DEF AssignmentInv, LiveInv
<1>6. GuestInv' /\ StoppedInv' /\ DyingInv'
  BY GuestNext, StoppedNext, DyingNext
<1> QED BY <1>1, <1>2, <1>3, <1>4, <1>5, <1>6 DEF LiveInv

(* The assignments, the definitions, the boot sequence and the live guests *)
(* fit together in every state.                                            *)
THEOREM PromiseHolds == Spec => []PromiseInv
  BY PromiseInit, PromiseNext, PTL DEF Spec

(* A candidate's boundary is final for the guest too: what it replaced is  *)
(* not selected, and a role runs what is selected or a candidate on trial. *)
LEMMA NothingRollsBack == PromiseInv => NoRollback
<1> SUFFICES ASSUME PromiseInv, NEW o \in Ops, Crossed(o)
             PROVE  guest[RoleOf[o]] # source[o].gen
  BY DEF NoRollback
<1> PICK r \in Roles : r = RoleOf[o]
  BY ConstantsAssumption
<1>1. source[o].gen \in Generations /\ source[o].gen # None
  BY ConstantsAssumption DEF PromiseInv, CommandInv, SourceKnown, Crossed, PostBoot, Generations
<1>2. source[o].gen # SelectedOf(r)
  BY DEF PromiseInv, AssignmentInv, RetiredInv
<1>3. ASSUME OnTrial(r), guest[r] = pointer[r] PROVE guest[r] # source[o].gen
  <2>1. pointer[r] \in Ops /\ ~Crossed(pointer[r])
    BY <1>3, ConstantsAssumption DEF OnTrial, Crossed
  <2> QED BY <1>3, <2>1 DEF PromiseInv, DefinitionsCrossed
<1> QED BY <1>1, <1>2, <1>3 DEF PromiseInv, LiveInv, GuestInv

(* Past its write boundary no generation returns to a running guest,       *)
(* whatever is killed, recovered, rebooted or reconciled, for any number   *)
(* of roles and operations.                                                *)
THEOREM NeverRollsBack == Spec => []NoRollback
  BY PromiseHolds, NothingRollsBack, PTL

(* The copy has the disks to itself, and no candidate starts from one that *)
(* its source has outrun.                                                  *)
THEOREM CopySafe == Spec => []CopyIsSafe
<1>1. PromiseInv => CopyIsSafe
  <2> SUFFICES ASSUME PromiseInv PROVE CopyIsSafe
    OBVIOUS
  <2>1. \A o \in fin : guest[RoleOf[o]] = None
    BY DEF PromiseInv, LiveInv, CopyInv
  <2>2. ASSUME NEW o \in fin \cup copied, guest[RoleOf[o]] = source[o].gen
        PROVE  stage[o] \in {"recovering", "recovered", "recovery-failed"}
    <3>1. o \in Ops /\ o \in Services /\ stage[o] \in Stages
          /\ stage[o] \notin {"none", "armed", "stopping", "adopted"}
      BY DEF PromiseInv, LiveInv, CopyInv, Services, CommandInv, TypeOK
    <3>2. ~Crossed(o)
      BY <2>2, <3>1, NothingRollsBack DEF NoRollback
    <3>3. guest[RoleOf[o]] # None
      BY <2>2, <3>1, ConstantsAssumption
         DEF PromiseInv, CommandInv, SourceKnown, Generations
    <3>4. stage[o] # "stopped"
      BY <3>1, <3>3 DEF PromiseInv, LiveInv, StoppedInv
    <3> QED BY <3>1, <3>2, <3>4 DEF Stages, Crossed, PostBoot, Services
  <2> QED BY <2>1, <2>2 DEF CopyIsSafe
<1> QED BY PromiseHolds, <1>1, PTL

(* A guest that was given back its role is not under the shutdown request  *)
(* of the update it was recovered from.                                    *)
THEOREM RecoveredSafe == Spec => []RecoveredIsSafe
<1>1. PromiseInv => RecoveredIsSafe
  BY ConstantsAssumption
     DEF PromiseInv, LiveInv, DyingInv, RecoveredIsSafe, Current
<1> QED BY PromiseHolds, <1>1, PTL

(* A boot recovery that succeeds has decided every role it found assigned. *)
THEOREM BootRecoveryDecides == Spec => BootDecides
<1>1. ASSUME PromiseInv, [Next]_vars, mode = "booting", mode' = "start",
             NEW r \in Roles, pointer[r] # None
      PROVE  Decided(r)
  <2>1. BootRecovered
    BY <1>1, FrameNext DEF PromiseInv, Frame, PowerLoss, RecoveryFails, Boot,
       BootRecoveryFails, Fence, XenDomains
  <2> QED BY <1>1, <2>1 DEF BootRecovered, PromiseInv, LiveInv, BootInv
<1>2. PromiseInv /\ [Next]_vars =>
        [mode = "booting" /\ mode' = "start" =>
           \A r \in Roles : pointer[r] # None =>
             LET p == pointer[r]
             IN  /\ stage[p] \in Settled \/ Crossed(p)
                 /\ cfg[r] = [gen  |-> Selected(p),
                              by   |-> p,
                              auto |-> intent[p] = "running"]]_vars
  BY <1>1 DEF Decided
<1> QED BY PromiseHolds, <1>2, PTL DEF Spec, BootDecides

-----------------------------------------------------------------------------
(* The promise of GenerationSelection.                                     *)

(* Crossing the boundary selects a new generation.                         *)
LEMMA CrossingSelects ==
  ASSUME PromiseInv, [Next]_vars, NEW o \in Ops, ~Crossed(o), Crossed(o)'
  PROVE  Promise!Select(RoleOf[o], o)
<1> PICK r \in Roles : r = RoleOf[o]
  BY ConstantsAssumption
<1>1. /\ pointer[r] = o /\ pointer' = pointer /\ source' = source /\ o # None
      /\ guest' = guest /\ guest[r] \in {None, o}
      /\ \A x \in Ops \ {o} : stage'[x] = stage[x]
  BY CrossNext, ConstantsAssumption DEF PromiseInv, Current
<1>2. SelectedOf(r) = source[o].gen /\ SelectedOf(r)' = o
  BY <1>1 DEF SelectedOf, Selected, Crossed
<1>3. \A x \in Ops : source[x].gen # o
  BY DEF PromiseInv, DefinitionsCrossed
<1>4. ASSUME NEW s \in Roles, s # r
      PROVE  SelectedOf(s)' = SelectedOf(s) /\ RetiredOf(s)' = RetiredOf(s)
  <2>1. pointer[s] # None => pointer[s] \in Ops \ {o}
    BY <1>4 DEF PromiseInv, AssignmentInv, PointerInv, CommandInv, TypeOK
  <2>2. SelectedOf(s)' = SelectedOf(s)
    BY <1>1, <2>1 DEF SelectedOf, Selected, Crossed
  <2>3. \A x \in Ops : RoleOf[x] = s => (Crossed(x)' <=> Crossed(x))
    BY <1>1, <1>4 DEF Crossed
  <2>4. RetiredOf(s)' = {source[x].gen : x \in {y \in Ops : RoleOf[y] = s /\ Crossed(y)'}}
    BY <1>1 DEF RetiredOf, Crossed
  <2> QED BY <2>2, <2>3, <2>4 DEF RetiredOf
<1>5. RetiredOf(r)' = RetiredOf(r) \cup {SelectedOf(r)}
  <2>1. \A x \in Ops : Crossed(x)' <=> Crossed(x) \/ x = o
    BY <1>1 DEF Crossed
  <2>2. RetiredOf(r)' = {source[x].gen : x \in {y \in Ops : RoleOf[y] = r /\ Crossed(y)'}}
    BY <1>1 DEF RetiredOf, Crossed
  <2> QED BY <1>2, <2>1, <2>2 DEF RetiredOf
<1>6. o \in Promise!New(r)
  BY <1>2, <1>3 DEF Promise!New, RetiredOf, Generations
<1>7. [s \in Roles |-> SelectedOf(s)]' = [[s \in Roles |-> SelectedOf(s)] EXCEPT ![r] = o]
  BY <1>2, <1>4
<1>8. [s \in Roles |-> RetiredOf(s)]'
        = [[s \in Roles |-> RetiredOf(s)] EXCEPT ![r] = RetiredOf(r) \cup {SelectedOf(r)}]
  BY <1>4, <1>5
<1> QED BY <1>1, <1>6, <1>7, <1>8 DEF Promise!Select

(* Every other step runs what the promise allows.                          *)
LEMMA OthersRun ==
  ASSUME PromiseInv, [Next]_vars, \A o \in Ops : Crossed(o)' => Crossed(o)
  PROVE  Promise!Run
<1>1. ASSUME NEW r \in Roles PROVE SelectedOf(r)' = SelectedOf(r)
  BY SelectionNext DEF PromiseInv, AssignmentInv
<1>2. ASSUME NEW r \in Roles PROVE RetiredOf(r)' = RetiredOf(r)
  <2>1. \A o \in Ops : Crossed(o)' <=> Crossed(o)
    BY CrossedStays DEF PromiseInv
  <2>2. \A o \in Ops : Crossed(o) => source'[o] = source[o]
    BY RecordedStays DEF PromiseInv, Crossed, PostBoot
  <2>3. RetiredOf(r)' = {source'[x].gen : x \in {y \in Ops : RoleOf[y] = r /\ Crossed(y)'}}
    BY DEF RetiredOf, Crossed
  <2> QED BY <2>1, <2>2, <2>3 DEF RetiredOf
<1>3. guest' \in [Roles -> Generations \cup {None}]
  BY TypeNext DEF PromiseInv, TypeOK
<1>4. ASSUME NEW r \in Roles, guest'[r] # guest[r], guest'[r] # None
      PROVE  /\ guest[r] = None
             /\ guest'[r] \in {SelectedOf(r)} \cup (Promise!New(r) \cap Historical)
  <2>1. Starts(r)
    BY <1>4, GuestStarts DEF PromiseInv
  <2>2. CASE guest'[r] = SelectedOf(r)
    BY <2>1, <2>2 DEF Starts
  <2>3. CASE OnTrial(r) /\ guest'[r] = pointer[r]
    <3> PICK p \in Ops : p = pointer[r]
      BY <2>3, ConstantsAssumption DEF OnTrial
    <3>1. p \in Historical /\ ~Crossed(p) /\ p # None
      BY <2>3, ConstantsAssumption DEF OnTrial, Crossed
    <3>2. \A x \in Ops : source[x].gen # p
      BY <3>1 DEF PromiseInv, DefinitionsCrossed
    <3>3. SelectedOf(r) = source[p].gen
      BY <3>1 DEF SelectedOf, Selected
    <3>4. p \in Promise!New(r)
      BY <3>2, <3>3 DEF Promise!New, RetiredOf, Generations
    <3> QED BY <2>1, <2>3, <3>1, <3>4 DEF Starts
  <2> QED BY <2>1, <2>2, <2>3 DEF Starts
<1>5. /\ [r \in Roles |-> SelectedOf(r)]' = [r \in Roles |-> SelectedOf(r)]
      /\ [r \in Roles |-> RetiredOf(r)]' = [r \in Roles |-> RetiredOf(r)]
  BY <1>1, <1>2
<1>6. \A r \in Roles : [s \in Roles |-> SelectedOf(s)][r] = SelectedOf(r)
  OBVIOUS
<1> QED BY <1>3, <1>4, <1>5, <1>6 DEF Promise!Run

(* The engine, its finalizer, its watchdogs and the boot recovery keep the *)
(* promise of GenerationSelection: each step selects one new generation,   *)
(* or starts and ends guests that the promise allows.                      *)
THEOREM KeepsPromise == Spec => ImplementsPromise
<1>1. Init => Promise!Init
  <2> SUFFICES ASSUME Init PROVE Promise!Init
    OBVIOUS
  <2>1. \A o \in Ops : ~Crossed(o)
    BY DEF Init, Crossed, PostBoot
  <2>2. \A r \in Roles : RetiredOf(r) = {}
    BY <2>1 DEF RetiredOf
  <2>3. \A r \in Roles : SelectedOf(r) = Base
    BY DEF Init, SelectedOf
  <2> QED BY <2>2, <2>3 DEF Init, Promise!Init
<1>2. ASSUME PromiseInv, [Next]_vars PROVE Promise!Next
  <2>1. CASE \E o \in Ops : ~Crossed(o) /\ Crossed(o)'
    BY <1>2, <2>1, CrossingSelects, ConstantsAssumption DEF Promise!Next, Generations
  <2>2. CASE \A o \in Ops : Crossed(o)' => Crossed(o)
    BY <1>2, <2>2, OthersRun DEF Promise!Next
  <2> QED BY <2>1, <2>2
<1>3. PromiseInv /\ [Next]_vars => [Promise!Next]_Promise!vars
  BY <1>2
<1> QED BY PromiseHolds, <1>1, <1>3, PTL DEF Spec, ImplementsPromise, Promise!Spec

(* What the promise says of one step: a retired generation stays retired,  *)
(* and neither a selection nor a start takes one.                          *)
LEMMA PromiseRetires ==
  ASSUME Promise!TypeOK, Promise!NeverRetired, [Promise!Next]_Promise!vars
  PROVE  Promise!TypeOK' /\ Promise!NeverRetired'
<1> DEFINE sel == [r \in Roles |-> SelectedOf(r)]
           ret == [r \in Roles |-> RetiredOf(r)]
<1>1. /\ sel \in [Roles -> Generations] /\ ret \in [Roles -> SUBSET Generations]
      /\ guest \in [Roles -> Generations \cup {None}]
      /\ \A r \in Roles : {sel[r], guest[r]} \cap ret[r] = {}
  BY DEF Promise!TypeOK, Promise!NeverRetired
<1>2. SUFFICES /\ sel' \in [Roles -> Generations] /\ ret' \in [Roles -> SUBSET Generations]
               /\ guest' \in [Roles -> Generations \cup {None}]
               /\ \A r \in Roles : {sel'[r], guest'[r]} \cap ret'[r] = {}
  BY DEF Promise!TypeOK, Promise!NeverRetired
<1>3. CASE UNCHANGED Promise!vars
  <2>1. sel' = sel /\ ret' = ret /\ guest' = guest
    BY <1>3 DEF Promise!vars
  <2> HIDE DEF sel, ret
  <2> QED BY <1>1, <2>1
<1>4. CASE Promise!Run
  <2>1. /\ guest' \in [Roles -> Generations \cup {None}] /\ sel' = sel /\ ret' = ret
        /\ \A r \in Roles : guest'[r] # guest[r] =>
             guest'[r] = None \/ guest'[r] \in {sel[r]} \cup (Generations \ ret[r])
    BY <1>4 DEF Promise!Run, Promise!New
  <2>2. None \notin Generations
    BY ConstantsAssumption DEF Generations
  <2> HIDE DEF sel, ret
  <2> QED BY <1>1, <2>1, <2>2
<1>5. ASSUME NEW r \in Roles, NEW g \in Generations, Promise!Select(r, g)
      PROVE  /\ sel' \in [Roles -> Generations] /\ ret' \in [Roles -> SUBSET Generations]
             /\ guest' \in [Roles -> Generations \cup {None}]
             /\ \A q \in Roles : {sel'[q], guest'[q]} \cap ret'[q] = {}
  <2>1. /\ g \notin ret[r] \cup {sel[r]} /\ guest[r] \in {None, g} /\ guest' = guest
        /\ sel' = [sel EXCEPT ![r] = g] /\ ret' = [ret EXCEPT ![r] = ret[r] \cup {sel[r]}]
    BY <1>5 DEF Promise!Select, Promise!New
  <2>2. None \notin Generations
    BY ConstantsAssumption DEF Generations
  <2> HIDE DEF sel, ret
  <2> QED BY <1>1, <2>1, <2>2
<1> HIDE DEF sel, ret
<1> QED BY <1>3, <1>4, <1>5 DEF Promise!Next

(* Once a role has moved to a new generation, the one it left never runs   *)
(* and is never selected again: what recovery, boot and acceptance of the  *)
(* engine together promise, whatever trials fail in between.               *)
THEOREM RetiredForever == Spec => []Promise!NeverRetired
<1>1. Promise!Init => Promise!TypeOK /\ Promise!NeverRetired
  BY DEF Promise!Init, Promise!TypeOK, Promise!NeverRetired, Generations
<1>2. Promise!TypeOK /\ Promise!NeverRetired /\ [Promise!Next]_Promise!vars
        => Promise!TypeOK' /\ Promise!NeverRetired'
  BY PromiseRetires
<1> QED BY KeepsPromise, <1>1, <1>2, PTL DEF ImplementsPromise, Promise!Spec

-----------------------------------------------------------------------------
(* Service updates.                                                        *)

(* A dispatcher and a session work for one operation each.                 *)
DriverInv ==
  /\ drv.op \in Ops \cup {None}
  /\ drv.op = None => drv.act = "none" /\ drv.pc = "idle"
  /\ drv = [op |-> drv.op, act |-> drv.act, seen |-> drv.seen, pc |-> drv.pc]

SessionInv ==
  /\ ses.op \in Ops \cup {None}
  /\ ses.op = None => ses.next = "none"
  /\ ses = [op |-> ses.op, next |-> ses.next]

RebootTypes == reboot \in [Ops -> {"required", "pending", "complete"}]

ServiceTypes == DriverInv /\ SessionInv /\ RebootTypes

-----------------------------------------------------------------------------

(* A box starts without a session and without a dispatcher.                *)
LEMMA ServiceInit == SInit => ServiceTypes /\ AcceptedIsVerified
  BY ConstantsAssumption
  DEF SInit, Init, ServiceTypes, DriverInv, SessionInv, RebootTypes, NoDriver,
      NoSession, AcceptedIsVerified, Crossed, PostBoot, Services

(* A request that is being carried out names an operation.                 *)
LEMMA Requested ==
  ASSUME ServiceTypes, drv.act # "none" \/ drv.pc # "idle"
  PROVE  drv.op \in Ops
  BY DEF ServiceTypes, DriverInv

(* What a session does leaves the transaction alone.                       *)
LEMMA ControllerStays ==
  ASSUME Controller
  PROVE  UNCHANGED <<vars, records>>
  BY DEF Controller, BeginUpdate, BeginResume, BeginAbandon, Begin, Request, SessionEnds

(* Each request of the dispatcher is one call of the transaction, or none. *)
LEMMA DispatchCalls ==
  ASSUME ServiceTypes, Dispatch
  PROVE  [Next]_vars
<1> USE Requested DEF Calls
<1>1. CASE Allocate
  BY <1>1 DEF Allocate, Next, Call
<1>2. CASE Prepare
  BY <1>2 DEF Prepare, Next
<1>3. CASE Prepared \/ CopyDone \/ Done
  BY <1>3 DEF Prepared, CopyDone, Done
<1>4. CASE Invoke
  BY <1>4 DEF Invoke, Next, Call
<1>5. CASE Copy
  BY <1>5 DEF Copy, Next, Call
<1>6. CASE Copied
  BY <1>6 DEF Copied, Next, Call
<1>7. CASE Checks
  BY <1>7 DEF Checks, Next, Call
<1>8. CASE RebootStart \/ RebootComplete
  BY <1>8 DEF RebootStart, RebootComplete
<1>9. CASE AbandonUnarmed
  BY <1>9 DEF AbandonUnarmed, Next
<1>10. CASE AbandonRecovers
  BY <1>10 DEF AbandonRecovers, Next, Call
<1>11. CASE Abandoned \/ Fails
  BY <1>11 DEF Abandoned, Fails
<1> QED
  BY <1>1, <1>2, <1>3, <1>4, <1>5, <1>6, <1>7, <1>8, <1>9, <1>10, <1>11
  DEF Dispatch

(* Everything that happens on the box is a step of the transaction.        *)
LEMMA ServiceSteps ==
  ASSUME ServiceTypes, [SNext]_svars
  PROVE  [Next]_vars
<1>1. CASE UNCHANGED svars
  BY <1>1 DEF svars
<1>2. CASE Controller
  BY <1>2, ControllerStays
<1>3. CASE Dispatch
  BY <1>3, DispatchCalls
<1>4. CASE Beside
  <2>1. \/ \E o \in Ops : Stage(o) \/ AdoptOld(o) \/ Recover(o) \/ Watch(o)
        \/ \E r \in Roles, want \in Wants : Reconcile(r, want)
        \/ Step \/ Boot \/ Killed
        \/ \E r \in Roles : GuestExits(r)
        \/ \E o \in Ops : Expire(o) \/ FinalizerExits(o) \/ WatchGivesUp(o)
    BY <1>4, ConstantsAssumption DEF Beside
  <2> QED BY <2>1 DEF Next, Call, Environment
<1>5. CASE \E r \in Roles : GuestReboots(r)
  BY <1>5 DEF GuestReboots
<1>6. CASE DispatcherKilled
  BY <1>6 DEF DispatcherKilled, Next, Environment
<1>7. CASE BoxLosesPower
  BY <1>7 DEF BoxLosesPower, Next, Environment
<1> QED BY <1>1, <1>2, <1>3, <1>4, <1>5, <1>6, <1>7 DEF SNext

(* Requests and answers keep the operation they are about.                 *)
LEMMA Answers ==
  ASSUME ServiceTypes, Answer \/ Error
  PROVE  DriverInv' /\ SessionInv'
<1>1. DriverInv'
  BY DEF Answer, Error, NoDriver, DriverInv
<1>2. Answered => ses.op # None
  BY DEF Answered, ServiceTypes, SessionInv
<1>3. SessionInv'
  BY <1>2 DEF Answer, Error, Answered, NoSession, ServiceTypes, SessionInv
<1> QED BY <1>1, <1>3

LEMMA Waits ==
  ASSUME ServiceTypes, drv.op # None, NEW pc, Wait(pc)
  PROVE  DriverInv' /\ SessionInv' /\ reboot' = reboot
  BY DEF Wait, ServiceTypes, DriverInv, SessionInv

LEMMA ServiceTypesNext ==
  ASSUME ServiceTypes, [SNext]_svars
  PROVE  ServiceTypes'
<1> USE ConstantsAssumption
<1>1. CASE UNCHANGED svars
  BY <1>1 DEF svars, records, ServiceTypes, DriverInv, SessionInv, RebootTypes
<1>2. ASSUME NEW o \in Ops, NEW first \in {"prepare", "abandon"}, Begin(o, first)
      PROVE  ServiceTypes'
  BY <1>2 DEF Begin, records, ServiceTypes, DriverInv, SessionInv, RebootTypes
<1>3. CASE Request
  BY <1>3 DEF Request, records, ServiceTypes, DriverInv, SessionInv, RebootTypes
<1>4. CASE SessionEnds
  BY <1>4 DEF SessionEnds, NoSession, records, ServiceTypes, DriverInv, SessionInv, RebootTypes
<1>5. CASE Allocate
  BY <1>5 DEF Allocate, ServiceTypes, DriverInv, SessionInv, RebootTypes
<1>6. CASE Prepare \/ Prepared \/ Done \/ Checks \/ AbandonUnarmed \/ Abandoned \/ Fails
  <2>1. (Answer \/ Error) /\ reboot' = reboot
    BY <1>6 DEF Prepare, Prepared, Done, Checks, AbandonUnarmed, Abandoned, Fails, records
  <2> QED BY <2>1, Answers DEF ServiceTypes, RebootTypes
<1>7. CASE Invoke \/ Copy \/ Copied \/ CopyDone \/ AbandonRecovers
  <2>1. drv.op # None /\ \E pc \in {"wait", "call", "copying"} : Wait(pc)
    BY <1>7, Requested DEF Invoke, Copy, Copied, CopyDone, AbandonRecovers, Calls
  <2> QED BY <2>1, Waits DEF ServiceTypes, RebootTypes
<1>8. CASE RebootStart \/ RebootComplete
  <2>1. Answer /\ RebootTypes'
    BY <1>8 DEF RebootStart, RebootComplete, ServiceTypes, RebootTypes
  <2> QED BY <2>1, Answers DEF ServiceTypes
<1>9. CASE Beside \/ \E r \in Roles : GuestReboots(r)
  BY <1>9 DEF Beside, GuestReboots, ServiceTypes, DriverInv, SessionInv, RebootTypes
<1>10. CASE DispatcherKilled
  <2>1. Error /\ reboot' = reboot
    BY <1>10 DEF DispatcherKilled, records
  <2> QED BY <2>1, Answers DEF ServiceTypes, RebootTypes
<1>11. CASE BoxLosesPower
  BY <1>11 DEF BoxLosesPower, records, NoDriver, NoSession, ServiceTypes, DriverInv,
     SessionInv, RebootTypes
<1>12. CASE Controller
  BY <1>12, <1>2, <1>3, <1>4 DEF Controller, BeginUpdate, BeginResume, BeginAbandon
<1>13. CASE Dispatch
  BY <1>13, <1>5, <1>6, <1>7, <1>8 DEF Dispatch
<1> QED BY <1>1, <1>9, <1>10, <1>11, <1>12, <1>13 DEF SNext

-----------------------------------------------------------------------------
(* Which steps start a candidate or record its checks.                     *)

(* A service crosses its boundary by the record "starting", and is never   *)
(* accepted without the record of its checks.                              *)
LEMMA WaysIn ==
  ASSUME CommandInv, [Next]_vars, NEW o \in Services
  PROVE  /\ Crossed(o)' =>
              Crossed(o) \/ (stage'[o] = "starting" /\ stage[o] # "starting")
         /\ stage'[o] \in {"tested", "accepted", "complete"} =>
              \/ stage[o] \in {"tested", "accepted", "complete"}
              \/ (stage'[o] = "tested" /\ stage[o] # "tested")
<1>1. o \in Ops /\ o \notin Historical
  BY DEF Services
<1>2. CASE stage' = stage
  BY <1>2 DEF Crossed
<1>3. CASE stage' # stage
  <2>1. PICK p \in Ops, s \in Stages : Record(p, s) /\ Moves(p, s)
    BY <1>3, JournalNext DEF JournalStep
  <2>2. CASE p # o
    BY <1>1, <2>1, <2>2 DEF Record, Crossed, CommandInv, TypeOK
  <2>3. CASE p = o
    <3>1. stage'[o] = s
      BY <1>1, <2>1, <2>3 DEF Record, CommandInv, TypeOK
    <3>2. s \in PostBoot =>
            stage[o] \in PostBoot \/ (s = "starting" /\ stage[o] = "stopped")
      BY <2>1, <2>3 DEF Moves, PostBoot
    <3>3. s \in {"tested", "accepted", "complete"} =>
            \/ stage[o] \in {"tested", "accepted", "complete"}
            \/ (s = "tested" /\ stage[o] = "booted")
      BY <2>1, <2>3 DEF Moves
    <3> QED BY <1>1, <3>1, <3>2, <3>3 DEF Crossed
  <2> QED BY <2>2, <2>3
<1> QED BY <1>2, <1>3

(* Neither record is written by the steps that continue a command, or by   *)
(* anything that does not pass the dispatcher.                             *)
Quiet == \A o \in Ops : stage'[o] \in {"starting", "tested"} => stage'[o] = stage[o]

LEMMA StepIsQuiet ==
  ASSUME TypeOK, Step
  PROVE  Quiet
<1> USE DEF Quiet, TypeOK, Record, durable
<1>1. CASE Assignment
  BY <1>1 DEF Assignment, WriteConfig, WriteLink, Persist
<1>2. CASE Arming
  BY <1>2 DEF Arming, Publish, StartWatch, BindWatch
<1>3. CASE Stopping
  BY <1>3 DEF Stopping, Shutdown, Stopped
<1>4. CASE Finalized \/ FinalizeFails
  BY <1>4 DEF Finalized, FinalizeFails
<1>5. CASE Starting
  BY <1>5 DEF Starting, Create, Booted
<1>6. CASE Completed
  BY <1>6 DEF Completed
<1>7. CASE Recovering
  BY <1>7 DEF Recovering, Destroy, Drain, Drained, Restart, Confirm, RecoveryFails
<1>8. CASE Reconciling
  BY <1>8 DEF Reconciling, Runtime, Reached
<1>9. CASE Refuse
  BY <1>9 DEF Refuse
<1> QED BY <1>1, <1>2, <1>3, <1>4, <1>5, <1>6, <1>7, <1>8, <1>9 DEF Step

LEMMA BesideIsQuiet ==
  ASSUME TypeOK, Beside
  PROVE  Quiet
<1> USE DEF Quiet, TypeOK, Record, durable
<1>1. ASSUME NEW o \in Ops, Stage(o) \/ AdoptOld(o)
      PROVE  Quiet
  BY <1>1 DEF Stage, AdoptOld
<1>2. ASSUME NEW o \in Ops, RecoverCall(o)
      PROVE  Quiet
  BY <1>2 DEF RecoverCall, Keep, Restore
<1>3. ASSUME NEW o \in Ops, Recover(o) \/ Watch(o)
      PROVE  Quiet
  BY <1>2, <1>3 DEF Recover, Watch, WatchEnds, WatchRecovers
<1>4. ASSUME NEW r \in Roles, NEW want \in Wants, Reconcile(r, want)
      PROVE  Quiet
  BY <1>4 DEF Reconcile
<1>5. CASE Boot
  BY <1>5 DEF Boot, BootRecovered, BootRecoveryFails, Fence, XenDomains
<1>6. CASE Killed \/ \E r \in Roles : GuestExits(r)
  BY <1>6 DEF Killed, GuestExits
<1>7. CASE \E o \in Ops : Expire(o) \/ FinalizerExits(o) \/ WatchGivesUp(o)
  BY <1>7 DEF Expire, FinalizerExits, WatchGivesUp
<1>8. Adoptions \subseteq Ops
  BY ConstantsAssumption
<1> QED BY <1>1, <1>3, <1>4, <1>5, <1>6, <1>7, <1>8, StepIsQuiet DEF Beside

(* The dispatcher starts a service whose state is finalized, and records   *)
(* the checks of one whose reboot is verified.                             *)
LEMMA OnlyWhenReady ==
  ASSUME TypeOK, ServiceTypes, [SNext]_svars, NEW o \in Ops,
         stage'[o] \in {"starting", "tested"}, stage'[o] # stage[o]
  PROVE  /\ stage'[o] = "starting" => o \in ready
         /\ stage'[o] = "tested" => reboot[o] = "complete"
<1> USE DEF TypeOK, Record
<1>1. CASE Invoke
  <2>1. drv.op \in Ops
    BY <1>1, Requested DEF Invoke, Calls
  <2>2. CASE drv.op \in ready /\ Start(drv.op)
    BY <2>1, <2>2 DEF Start
  <2>3. CASE Arm(drv.op) \/ Stop(drv.op) \/ StartAgain(drv.op) \/ Accept(drv.op)
                \/ Complete(drv.op)
    BY <2>1, <2>3 DEF Arm, Stop, StartAgain, Accept, Complete, durable
  <2> QED BY <1>1, <2>2, <2>3 DEF Invoke
<1>2. CASE Checks
  <2>1. drv.op \in Ops
    BY <1>2, Requested DEF Checks, Calls
  <2> QED BY <1>2, <2>1 DEF Checks, Tested
<1>3. CASE AbandonRecovers
  <2>1. drv.op \in Ops
    BY <1>3, Requested DEF AbandonRecovers, Calls
  <2> QED BY <1>3, <2>1 DEF AbandonRecovers, Recover, RecoverCall, Keep, Restore
<1>4. CASE Allocate \/ Prepare \/ Copy \/ Copied \/ AbandonUnarmed
  BY <1>4 DEF Allocate, Prepare, Copy, Copied, AbandonUnarmed, Stage, Commit, Finalize,
     Rejoin, ResumeFinalizer, vars, durable
<1>5. CASE Prepared \/ CopyDone \/ Done \/ RebootStart \/ RebootComplete
             \/ Abandoned \/ Fails \/ UNCHANGED svars
  BY <1>5 DEF Prepared, CopyDone, Done, RebootStart, RebootComplete, Abandoned, Fails,
     svars, vars, durable
<1>6. CASE Controller
  BY <1>6, ControllerStays DEF vars, durable
<1>7. CASE Beside
  BY <1>7, BesideIsQuiet DEF Quiet
<1>8. CASE \E r \in Roles : GuestReboots(r)
  BY <1>8 DEF GuestReboots, vars, durable
<1>9. CASE DispatcherKilled
  BY <1>9 DEF DispatcherKilled, Killed, vars, durable
<1>10. CASE BoxLosesPower
  BY <1>10 DEF BoxLosesPower, PowerLoss, durable
<1> QED
  BY <1>1, <1>2, <1>3, <1>4, <1>5, <1>6, <1>7, <1>8, <1>9, <1>10 DEF SNext, Dispatch

(* A finalized copy stays recorded ...                                     *)
LEMMA ReadyStays ==
  ASSUME [Next]_vars
  PROVE  ready \subseteq ready'
<1> USE DEF durable
<1>1. CASE UNCHANGED vars \/ Commit
  BY <1>1 DEF vars, Commit
<1>2. ASSUME NEW o \in Ops, Call(o)
      PROVE  ready \subseteq ready'
  BY <1>2 DEF Call, Stage, Arm, AdoptOld, Stop, Finalize, Rejoin, ResumeFinalizer, Start,
     StartAgain, Tested, Accept, Complete, Recover, RecoverCall
<1>3. ASSUME NEW o \in Ops, Watch(o)
      PROVE  ready \subseteq ready'
  BY <1>3 DEF Watch, WatchEnds, WatchRecovers, RecoverCall
<1>4. ASSUME NEW r \in Roles, NEW want \in Wants, Reconcile(r, want)
      PROVE  ready \subseteq ready'
  BY <1>4 DEF Reconcile
<1>5. CASE Assignment \/ Arming \/ Stopping
  BY <1>5 DEF Assignment, WriteConfig, WriteLink, Persist, Arming, Publish, StartWatch,
     BindWatch, Stopping, Shutdown, Stopped
<1>6. CASE Finalized \/ FinalizeFails \/ Starting \/ Completed
  BY <1>6 DEF Finalized, FinalizeFails, Starting, Create, Booted, Completed
<1>7. CASE Recovering \/ Reconciling \/ Refuse
  BY <1>7 DEF Recovering, Destroy, Drain, Drained, Restart, Confirm, RecoveryFails,
     Reconciling, Runtime, Reached, Refuse
<1>8. CASE Boot
  BY <1>8 DEF Boot, BootRecovered, BootRecoveryFails, Fence, XenDomains
<1>9. CASE Environment
  BY <1>9 DEF Environment, Killed, PowerLoss, GuestExits, Expire, FinalizerExits, WatchGivesUp
<1> QED BY <1>1, <1>2, <1>3, <1>4, <1>5, <1>6, <1>7, <1>8, <1>9 DEF Next, Step

(* ... and so does a verified reboot.                                      *)
LEMMA VerifiedStays ==
  ASSUME ServiceTypes, [SNext]_svars, NEW o \in Ops, reboot[o] = "complete"
  PROVE  reboot'[o] = "complete"
<1>1. reboot' = reboot \/ RebootStart \/ RebootComplete
  BY DEF SNext, svars, records, Controller, BeginUpdate, BeginResume, BeginAbandon, Begin,
     Request, SessionEnds, Dispatch, Allocate, Prepare, Prepared, Invoke, Copy, Copied,
     CopyDone, Done, Checks, AbandonUnarmed, AbandonRecovers, Abandoned, Fails, Wait,
     Beside, GuestReboots, DispatcherKilled, BoxLosesPower
<1>2. CASE RebootStart
  BY <1>2 DEF RebootStart, ServiceTypes, RebootTypes
<1>3. CASE RebootComplete
  BY <1>3 DEF RebootComplete, ServiceTypes, RebootTypes
<1> QED BY <1>1, <1>2, <1>3

-----------------------------------------------------------------------------

(* Whatever sessions, dispatchers and failures do, together they behave as *)
(* the transaction: its theorems hold for every service update.            *)
THEOREM FollowsTransaction == SSpec => ImplementsTransaction
<1>1. SInit => Init
  BY DEF SInit
<1>2. SInit => ServiceTypes
  BY ServiceInit
<1>3. ServiceTypes /\ [SNext]_svars => ServiceTypes'
  BY ServiceTypesNext
<1>4. ServiceTypes /\ [SNext]_svars => [Next]_vars
  BY ServiceSteps
<1> QED BY <1>1, <1>2, <1>3, <1>4, PTL DEF SSpec, Spec, ImplementsTransaction

(* A service is accepted only after its reboot was verified, and starts    *)
(* only after its state was finalized, although the dispatcher decides     *)
(* from a journal it has read before it had the lock.                      *)
THEOREM AcceptedOnlyVerified == SSpec => []AcceptedIsVerified
<1>1. ServiceTypes /\ [SNext]_svars => ServiceTypes'
  BY ServiceTypesNext
<1>2. CommandInv /\ ServiceTypes /\ AcceptedIsVerified /\ [SNext]_svars
        => AcceptedIsVerified'
  <2> SUFFICES ASSUME CommandInv, ServiceTypes, AcceptedIsVerified, [SNext]_svars,
                      NEW o \in Services
               PROVE  /\ stage'[o] \in {"tested", "accepted", "complete"}
                           => reboot'[o] = "complete"
                      /\ Crossed(o)' => o \in ready'
    BY DEF AcceptedIsVerified
  <2>1. [Next]_vars /\ o \in Ops /\ TypeOK
    BY ServiceSteps DEF Services, CommandInv
  <2>2. ASSUME stage'[o] \in {"tested", "accepted", "complete"}
        PROVE  reboot'[o] = "complete"
    <3>1. reboot[o] = "complete"
      BY <2>1, <2>2, WaysIn, OnlyWhenReady DEF AcceptedIsVerified
    <3> QED BY <2>1, <3>1, VerifiedStays
  <2>3. ASSUME Crossed(o)' PROVE o \in ready'
    <3>1. o \in ready
      BY <2>1, <2>3, WaysIn, OnlyWhenReady DEF AcceptedIsVerified
    <3> QED BY <2>1, <3>1, ReadyStays
  <2> QED BY <2>2, <2>3
<1>3. SSpec => []CommandInv
  BY FollowsTransaction, CommandCorrect, PTL DEF ImplementsTransaction
<1> QED BY ServiceInit, <1>1, <1>2, <1>3, PTL DEF SSpec

=============================================================================
