------------------------ MODULE ControllerSwitchProofs ------------------------
(***************************************************************************)
(* Theorems about the switch of the active controller, for any faults and  *)
(* any number of them: never two active markers, and every push changes    *)
(* the placement over the history that the switch was started from.        *)
(***************************************************************************)
EXTENDS ControllerSwitch, SequenceTheorems, TLAPS

(* A switch that has opened its record has one, and no history is empty.   *)
Unopened == {"idle", "lock low", "lock high", "open"}

HistoryKnown ==
  /\ upstream # <<>>
  /\ \A b \in Boxes : head[b] # <<>>
  /\ \A b \in Boxes : proc[b] \notin Unopened => record[b] \in Record

TypeInv == TypeOK /\ HistoryKnown

(* A promotion runs alone, on a box whose other controller is not active   *)
(* once it has been seen fenced; and a switch about to activate the other  *)
(* controller, which still holds both locks, has left its own inactive.    *)
AuthorityInv ==
  /\ promo # None => \A b \in Boxes : proc[b] = "idle"
  /\ promo # None /\ promo.pc = "activate" => ~Active(Other(promo.box))
  /\ \A o \in Boxes : proc[o] = "activate" /\ Locked(o) => ~Active(o)

SwitchInv == TypeInv /\ OneMarker /\ AuthorityInv

-----------------------------------------------------------------------------

(* The other box is a box, and its other box is the first one.             *)
LEMMA Others ==
  ASSUME NEW b \in Boxes
  PROVE  /\ Other(b) \in Boxes /\ Other(b) # b /\ Other(Other(b)) = b
         /\ Boxes = {b, Other(b)}
  BY ConstantsAssumption DEF Other, Boxes

(* What a history ends with, and what it is after one more commit.         *)
LEMMA Histories ==
  ASSUME NEW s \in Seq(Commits), NEW c \in Commits
  PROVE  /\ s # <<>> => Last(s) \in Commits
         /\ Append(s, c) \in Seq(Commits) /\ Append(s, c) # <<>>
<1>1. s # <<>> => Len(s) \in DOMAIN s
  BY DEF Commits
<1>2. Append(s, c) \in Seq(Commits) /\ Len(Append(s, c)) = Len(s) + 1
  BY DEF Commits
<1>3. Append(s, c) # <<>>
  BY SMTT(30), <1>2
<1> QED BY <1>1, <1>2, <1>3 DEF Last

(* What a commit holds is what was committed, whoever did it.              *)
LEMMA Committed ==
  ASSUME NEW c \in Contents, NEW b \in Boxes \cup {None}
  PROVE  /\ Commit(c, b) \in Commits /\ Commit(c, b).active = c.active
         /\ Content(Commit(c, b)) = c
  BY DEF Commit, Content, Commits, Contents

LEMMA Held ==
  ASSUME NEW c \in Commits
  PROVE  Content(c) \in Contents /\ Content(c).active = c.active
  BY DEF Content, Commits, Contents

(* What pulling leaves in a clone: main, or what was there before.         *)
LEMMA PulledIs ==
  ASSUME TypeInv, NEW b \in Boxes
  PROVE  /\ Pulled(b) \in Seq(Commits) /\ Pulled(b) # <<>>
         /\ (Pulled(b) = upstream /\ Behind(head[b], upstream)) \/ Pulled(b) = head[b]
         /\ Content(Last(Pulled(b))) \in Contents
<1>1. /\ Pulled(b) \in Seq(Commits) /\ Pulled(b) # <<>>
      /\ (Pulled(b) = upstream /\ Behind(head[b], upstream)) \/ Pulled(b) = head[b]
  BY DEF Pulled, TypeInv, TypeOK, HistoryKnown
<1>2. Last(Pulled(b)) \in Commits
  <2>1. \A c \in Commits : Last(Pulled(b)) \in Commits
    BY <1>1, Histories
  <2>2. Commit(file[b], None) \in Commits
    BY Committed DEF TypeInv, TypeOK
  <2> QED
    BY <2>1, <2>2
<1> QED
  BY <1>1, <1>2, Held

(* The boxes start with one active controller and one common history.      *)
LEMMA SwitchInit == Init => SwitchInv
<1> SUFFICES ASSUME Init PROVE SwitchInv
  OBVIOUS
<1> DEFINE c == Commit(Start, None)
<1>0. Start \in Contents
  BY ConstantsAssumption DEF Start, Contents
<1>a. c \in Commits
  BY <1>0, Committed
<1> HIDE DEF c
<1>1. <<c>> \in Seq(Commits) /\ <<c>> # <<>>
  BY <1>a
<1>b. upstream = <<c>> /\ head = [b \in Boxes |-> <<c>>] /\ file = [b \in Boxes |-> Start]
  BY DEF Init, c
<1>2. TypeInv
  BY <1>0, <1>1, <1>b, ConstantsAssumption
  DEF Init, TypeInv, TypeOK, HistoryKnown, Unopened, Places, Roles
<1>3. OneMarker /\ AuthorityInv
  BY ConstantsAssumption DEF Init, OneMarker, AuthorityInv, Active, Boxes
<1> QED BY <1>2, <1>3 DEF SwitchInv

(* A record that goes on to another phase is still a record.               *)
LEMMA PhaseSaved ==
  ASSUME TypeInv, NEW o \in Boxes, NEW phase \in Phases,
         record[o] \in Record, SavePhase(o, phase)
  PROVE  /\ record' \in [Boxes -> Record \cup {None}]
         /\ record'[o] \in Record
         /\ \A b \in Boxes : b # o => record'[b] = record[b]
<1>1. [record[o] EXCEPT !.phase = phase] \in Record
  BY DEF Record
<1>2. record' = [record EXCEPT ![o] = [record[o] EXCEPT !.phase = phase]]
  BY DEF SavePhase
<1> QED BY <1>1, <1>2 DEF TypeInv, TypeOK

(* A marker that is written is a marker, and the other one stays.          *)
LEMMA Marked ==
  ASSUME TypeInv, NEW b \in Boxes, NEW r \in Roles, NEW a \in Boxes, Mark(b, r, a)
  PROVE  /\ marker' \in [Boxes -> [role: Roles, box: Boxes]]
         /\ marker'[b] = [role |-> r, box |-> a]
         /\ \A c \in Boxes : c # b => marker'[c] = marker[c]
  BY DEF Mark, TypeInv, TypeOK

(* Failures are counted down.                                              *)
LEMMA Spent ==
  ASSUME TypeInv, NEW kind, Spend(kind)
  PROVE  left' \in 0..Budget
  BY ConstantsAssumption DEF Spend, TypeInv, TypeOK

-----------------------------------------------------------------------------

(* Every action stores values of the declared types.                       *)
LEMMA TypeNext ==
  ASSUME TypeInv, [Next]_vars
  PROVE  TypeInv'
<1> USE ConstantsAssumption DEF TypeInv, TypeOK, HistoryKnown, Unopened, Places, Phases,
      Roles, Rest, Goto, At
<1>1. CASE UNCHANGED vars
  BY <1>1 DEF vars, git
<1>2. ASSUME NEW o \in Boxes, Begin(o) PROVE TypeInv'
  BY <1>2 DEF Begin, git
<1>3. ASSUME NEW o \in Boxes, Lock(o) PROVE TypeInv'
  <2>1. PICK b \in Boxes :
          /\ lock' = [lock EXCEPT ![b] = o]
          /\ \/ proc[o] \in Unopened /\ proc' = [proc EXCEPT ![o] = "lock high"]
             \/ proc[o] \in Unopened /\ proc' = [proc EXCEPT ![o] = "open"]
          /\ UNCHANGED <<marker, git, record, up, promo, left>>
    BY <1>3 DEF Lock, git
  <2> QED BY <2>1 DEF git
<1>4. ASSUME NEW o \in Boxes, Open(o) PROVE TypeInv'
  <2>1. CASE record[o] = None \/ record[o].phase = "complete"
    <3> DEFINE r == [phase |-> "prepared", base |-> head[o], file |-> file[o]]
    <3>1. r \in Record
      BY DEF Record
    <3>2. record' = [record EXCEPT ![o] = r]
      BY <1>4, <2>1 DEF Open
    <3> HIDE DEF r
    <3> QED BY <1>4, <2>1, <3>1, <3>2 DEF Open, git
  <2>2. CASE ~(record[o] = None \/ record[o].phase = "complete")
    <3>1. record[o] \in Record
      BY <2>2
    <3>2. record[o].phase \in Phases
      BY <3>1 DEF Record
    <3> QED BY <1>4, <2>2, <3>2 DEF Open, git
  <2> QED BY <2>1, <2>2
<1>5. ASSUME NEW o \in Boxes, Prepare(o) PROVE TypeInv'
  <2>1. "publishing" \in Phases /\ SavePhase(o, "publishing") /\ record[o] \in Record
    BY <1>5 DEF Prepare
  <2>2. /\ record' \in [Boxes -> Record \cup {None}]
        /\ \A b \in Boxes : b # o => record'[b] = record[b]
        /\ record'[o] \in Record
    BY <2>1, PhaseSaved
  <2> QED BY <1>5, <2>2 DEF Prepare, git
<1>6. ASSUME NEW o \in Boxes, Pull(o) PROVE TypeInv'
  <2>1. /\ record[o] \in Record
        /\ UNCHANGED <<marker, file, staged, upstream, record, lock, Rest>>
    BY <1>6 DEF Pull
  <2>2. CASE proc' = [proc EXCEPT ![o] = "add"] /\ UNCHANGED head
    BY <2>1, <2>2
  <2>3. CASE proc' = [proc EXCEPT ![o] = "write"] /\ head' = [head EXCEPT ![o] = Pulled(o)]
    <3>1. Pulled(o) \in Seq(Commits) /\ Pulled(o) # <<>>
      BY PulledIs
    <3> QED BY <2>1, <2>3, <3>1
  <2> QED BY <1>6, <2>2, <2>3 DEF Pull
<1>7. ASSUME NEW o \in Boxes, Write(o) PROVE TypeInv'
  <2>1. Other(o) \in Boxes /\ record[o] \in Record
    BY <1>7, Others DEF Write
  <2>2. Expected(o) \in Contents
    BY <2>1 DEF Expected, Record, Contents
  <2> QED BY <1>7, <2>2 DEF Write
<1>25. ASSUME NEW o \in Boxes, AddPlacement(o) PROVE TypeInv'
  BY <1>25 DEF AddPlacement
<1>8. ASSUME NEW o \in Boxes, CommitPlacement(o) PROVE TypeInv'
  <2> DEFINE c == Commit(file[o], o)
  <2>0. c \in Commits
    BY Committed
  <2>a. head' = [head EXCEPT ![o] = Append(head[o], c)]
    BY <1>8 DEF CommitPlacement
  <2> HIDE DEF c
  <2>1. Append(head[o], c) \in Seq(Commits) /\ Append(head[o], c) # <<>>
    BY <2>0, Histories
  <2>2. /\ head' \in [Boxes -> Seq(Commits)]
        /\ \A b \in Boxes : head'[b] # <<>>
    BY <2>a, <2>1
  <2> QED BY <1>8, <2>2 DEF CommitPlacement
<1>9. ASSUME NEW o \in Boxes, Push(o) PROVE TypeInv'
  BY <1>9 DEF Push
<1>10. ASSUME NEW o \in Boxes, RecordPhase(o) PROVE TypeInv'
  <2>1. PICK phase \in {"published", "synchronized", "demoted", "activated"} :
          /\ SavePhase(o, phase) /\ proc' = [proc EXCEPT ![o] = phase]
          /\ record[o] \in Record
          /\ UNCHANGED <<marker, git, lock, Rest>>
    BY <1>10 DEF RecordPhase, RecordAfter
  <2>2. /\ record' \in [Boxes -> Record \cup {None}]
        /\ \A b \in Boxes : b # o => record'[b] = record[b]
        /\ record'[o] \in Record
    BY <2>1, PhaseSaved
  <2> QED BY <2>1, <2>2 DEF git
<1>11. ASSUME NEW o \in Boxes, Synchronize(o) PROVE TypeInv'
  <2> DEFINE n == Other(o)
  <2>1. n \in Boxes /\ Pulled(n) \in Seq(Commits) /\ Pulled(n) # <<>>
        /\ Content(Last(Pulled(n))) \in Contents
    BY PulledIs, Others
  <2>2. /\ head' = [head EXCEPT ![n] = Pulled(n)]
        /\ file' = [file EXCEPT ![n] = Content(Last(Pulled(n)))]
        /\ proc' = [proc EXCEPT ![o] = "ready"] /\ record[o] \in Record
        /\ UNCHANGED <<marker, staged, upstream, record, lock, up, promo, left>>
    BY <1>11 DEF Synchronize
  <2> HIDE DEF n
  <2> QED BY <2>1, <2>2
<1>12. ASSUME NEW o \in Boxes, Decide(o) PROVE TypeInv'
  BY <1>12 DEF Decide, git
<1>13. ASSUME NEW o \in Boxes, Demote(o) PROVE TypeInv'
  <2>1. /\ record[o] \in Record /\ UNCHANGED <<git, record, lock, Rest>>
        /\ \E pc \in Places \ Unopened : proc' = [proc EXCEPT ![o] = pc]
    BY <1>13 DEF Demote
  <2>2. marker' \in [Boxes -> [role: Roles, box: Boxes]]
    BY <1>13, Others, Marked DEF Demote
  <2>3. /\ proc' \in [Boxes -> Places]
        /\ \A b \in Boxes : proc'[b] \notin Unopened => record'[b] \in Record
    <3>1. PICK pc \in Places \ Unopened : proc' = [proc EXCEPT ![o] = pc]
      BY <2>1
    <3> QED BY <2>1, <3>1
  <2> QED BY <2>1, <2>2, <2>3 DEF git
<1>14. ASSUME NEW o \in Boxes, Activate(o) PROVE TypeInv'
  <2>1. /\ record[o] \in Record /\ UNCHANGED <<git, record, lock, Rest>>
        /\ \E pc \in Places \ Unopened : proc' = [proc EXCEPT ![o] = pc]
    BY <1>14 DEF Activate
  <2>2. marker' \in [Boxes -> [role: Roles, box: Boxes]]
    BY <1>14, Others, Marked DEF Activate
  <2>3. /\ proc' \in [Boxes -> Places]
        /\ \A b \in Boxes : proc'[b] \notin Unopened => record'[b] \in Record
    <3>1. PICK pc \in Places \ Unopened : proc' = [proc EXCEPT ![o] = pc]
      BY <2>1
    <3> QED BY <2>1, <3>1
  <2> QED BY <2>1, <2>2, <2>3 DEF git
<1>15. ASSUME NEW o \in Boxes, Complete(o) PROVE TypeInv'
  <2>1. "complete" \in Phases /\ SavePhase(o, "complete") /\ record[o] \in Record
    BY <1>15 DEF Complete
  <2>2. /\ record' \in [Boxes -> Record \cup {None}]
        /\ \A b \in Boxes : b # o => record'[b] = record[b]
    BY <2>1, PhaseSaved
  <2> QED BY <1>15, <2>2 DEF Complete, Release, git
<1>16. ASSUME NEW o \in Boxes, Refuse(o) PROVE TypeInv'
  BY <1>16 DEF Refuse, Release, git
<1>17. ASSUME NEW o \in Boxes, Kill(o) \/ GiveUp(o) \/ LoseLock(o) \/ LoseContact(o)
       PROVE TypeInv'
  <2>1. left' \in 0..Budget
    BY <1>17, Spent DEF Kill, GiveUp, LoseLock, LoseContact
  <2>2. CASE Kill(o) \/ GiveUp(o)
    BY ZenonT(60), <2>1, <2>2 DEF Kill, GiveUp, Release, git
  <2>3. CASE LoseLock(o)
    BY <2>1, <2>3 DEF LoseLock, git
  <2>4. CASE LoseContact(o)
    BY <2>1, <2>4 DEF LoseContact, git
  <2> QED BY <1>17, <2>2, <2>3, <2>4
<1>18. ASSUME NEW b \in Boxes, Return(b) PROVE TypeInv'
  BY <1>18 DEF Return, git
<1>19. CASE CommitElsewhere
  <2>1. PICK c \in Contents : upstream' = Append(upstream, Commit(c, None))
    BY <1>19 DEF CommitElsewhere
  <2>2. Commit(c, None) \in Commits
    BY Committed
  <2>4. upstream' \in Seq(Commits) /\ upstream' # <<>>
    BY <2>1, <2>2, Histories
  <2>5. /\ left' \in 0..Budget
        /\ UNCHANGED <<marker, head, file, staged, record, proc, lock, up, promo>>
    BY <1>19, Spent DEF CommitElsewhere
  <2> QED BY <2>4, <2>5
<1>20. ASSUME NEW b \in Boxes, PullByHand(b) PROVE TypeInv'
  <2>1. Content(Last(upstream)) \in Contents
    <3>1. Behind(head[b], upstream)
      BY <1>20 DEF PullByHand
    <3> QED BY <3>1, PulledIs DEF Pulled
  <2> QED BY <1>20, <2>1 DEF PullByHand
<1>21. ASSUME NEW b \in Boxes, EditByHand(b) PROVE TypeInv'
  <2>1. PICK c \in Contents : file' = [file EXCEPT ![b] = c]
    <3>1. PICK c \in {[file[b] EXCEPT !.text = t] : t \in Texts} \cup {Tree(b)} :
            file' = [file EXCEPT ![b] = c]
      BY <1>21 DEF EditByHand
    <3>2. \A t \in Texts : [file[b] EXCEPT !.text = t] \in Contents
      <4>1. file[b] \in Contents
        OBVIOUS
      <4> HIDE DEF TypeInv, TypeOK, HistoryKnown
      <4> QED BY <4>1 DEF Contents
    <3>3. Tree(b) \in Contents
      <4>1. head[b] # <<>> /\ Commit(file[b], None) \in Commits
        BY Committed
      <4> QED BY <4>1, Histories, Held DEF Tree
    <3> QED BY <3>1, <3>2, <3>3
  <2> DEFINE k == Commit(file'[b], b)
  <2>2. k \in Commits
    BY <2>1, Committed
  <2>a. /\ head' = head \/ head' = [head EXCEPT ![b] = Append(head[b], k)]
        /\ staged' = staged \/ staged' = [staged EXCEPT ![b] = FALSE]
    BY <1>21 DEF EditByHand
  <2> HIDE DEF k
  <2>3. /\ head' \in [Boxes -> Seq(Commits)]
        /\ \A c1 \in Boxes : head'[c1] # <<>>
    <3> DEFINE s == Append(head[b], k)
    <3>1. s \in Seq(Commits) /\ s # <<>>
      BY <2>2, Histories
    <3> HIDE DEF s
    <3>2. head' = head \/ head' = [head EXCEPT ![b] = s]
      BY <2>a DEF s
    <3>3. CASE head' = [head EXCEPT ![b] = s]
      BY <3>1, <3>3
    <3> QED BY <3>2, <3>3
  <2>4. left' \in 0..Budget /\ UNCHANGED <<marker, upstream, record, proc, lock, up, promo>>
    BY <1>21, Spent DEF EditByHand
  <2> QED BY <2>1, <2>a, <2>3, <2>4
<1>22. ASSUME NEW b \in Boxes, DemoteByHand(b) PROVE TypeInv'
  <2>1. left' \in 0..Budget /\ UNCHANGED <<git, record, proc, lock, up, promo>>
    BY <1>22, Spent DEF DemoteByHand
  <2>2. marker' \in [Boxes -> [role: Roles, box: Boxes]]
    BY <1>22, Others, Marked DEF DemoteByHand
  <2> QED BY <2>1, <2>2 DEF git
<1>23. ASSUME NEW n \in Boxes, Promote(n) PROVE TypeInv'
  <2>1. left' \in 0..Budget /\ UNCHANGED <<git, record, proc, lock, up>>
    BY <1>23, Spent DEF Promote
  <2>2. promo' \in [box: Boxes, pc: {"demote", "activate"}]
    <3>1. \/ promo' = [box |-> n, pc |-> "activate"]
          \/ promo' = [box |-> n, pc |-> "demote"]
      BY <1>23 DEF Promote
    <3> HIDE DEF TypeInv, TypeOK, HistoryKnown
    <3> QED BY <3>1
  <2>3. marker' \in [Boxes -> [role: Roles, box: Boxes]]
    BY <1>23, Others, Marked DEF Promote
  <2> QED BY <2>1, <2>2, <2>3 DEF git
<1>24. CASE PromotionDemotes \/ PromotionActivates \/ PromotionEnds
  <2>1. promo \in [box: Boxes, pc: {"demote", "activate"}]
    BY <1>24 DEF PromotionDemotes, PromotionActivates, PromotionEnds
  <2>2. promo.box \in Boxes /\ Other(promo.box) \in Boxes
    BY <2>1, Others
  <2>3. marker' \in [Boxes -> [role: Roles, box: Boxes]]
    BY <1>24, <2>2, Marked DEF PromotionDemotes, PromotionActivates, PromotionEnds
  <2>4. promo' \in [box: Boxes, pc: {"demote", "activate"}] \cup {None}
    BY <1>24, <2>1 DEF PromotionDemotes, PromotionActivates, PromotionEnds
  <2> QED BY <1>24, <2>3, <2>4 DEF PromotionDemotes, PromotionActivates, PromotionEnds, git
<1> QED
  BY <1>1, <1>2, <1>3, <1>4, <1>5, <1>6, <1>7, <1>8, <1>9, <1>10, <1>11, <1>12, <1>13,
     <1>14, <1>15, <1>16, <1>17, <1>18, <1>19, <1>20, <1>21, <1>22, <1>23, <1>24, <1>25
  DEF Next, SwitchStep, Interference, Promotion

(* No step makes a second controller active, and what the steps rely on    *)
(* holds again after each of them.                                         *)
LEMMA AuthorityNext ==
  ASSUME SwitchInv, [Next]_vars
  PROVE  OneMarker' /\ AuthorityInv'
<1> USE DEF SwitchInv, OneMarker, AuthorityInv, Active, Goto, At
<1>0. /\ marker \in [Boxes -> [role: Roles, box: Boxes]]
      /\ proc \in [Boxes -> Places]
      /\ lock \in [Boxes -> Boxes \cup {None}]
      /\ promo \in [box: Boxes, pc: {"demote", "activate"}] \cup {None}
  BY DEF TypeInv, TypeOK
<1>b. Boxes = {Low, High} /\ Low # High /\ None \notin Boxes
  BY ConstantsAssumption DEF Boxes
<1>1. CASE UNCHANGED vars
  BY <1>1 DEF vars, Locked
<1>2. ASSUME NEW o \in Boxes,
             \/ Begin(o) \/ Open(o) \/ Prepare(o) \/ Pull(o) \/ Write(o) \/ AddPlacement(o)
             \/ CommitPlacement(o) \/ Push(o) \/ RecordPhase(o) \/ Synchronize(o)
      PROVE  OneMarker' /\ AuthorityInv'
  <2>1. /\ UNCHANGED <<marker, lock, promo>>
        /\ promo = None
        /\ \A b \in Boxes : proc'[b] = "activate" => proc[b] = "activate"
    <3>1. /\ UNCHANGED <<marker, lock, promo>>
          /\ proc[o] # "idle" \/ promo = None
      BY <1>2 DEF Begin, Open, Prepare, Pull, Write, AddPlacement, CommitPlacement, Push, RecordPhase,
         RecordAfter, Synchronize, Rest
    <3>2. PICK pc : proc' = [proc EXCEPT ![o] = pc] /\ pc # "activate"
      <4>1. CASE Open(o)
        <5>1. record[o] = None \/ record[o] \in Record
          BY DEF TypeInv, TypeOK
        <5> QED BY <4>1, <5>1 DEF Open, Record, Phases
      <4>2. CASE ~Open(o)
        BY <1>2, <4>2 DEF Begin, Prepare, Pull, Write, AddPlacement, CommitPlacement, Push, RecordPhase,
           RecordAfter, Synchronize
      <4> QED BY <4>1, <4>2
    <3> QED BY <1>0, <3>1, <3>2
  <2> QED BY <2>1 DEF Locked
<1>3. ASSUME NEW o \in Boxes, Lock(o) PROVE OneMarker' /\ AuthorityInv'
  <2>1. PICK b \in Boxes :
          /\ proc[o] \in {"lock low", "lock high"} /\ lock[b] = None
          /\ lock' = [lock EXCEPT ![b] = o]
          /\ \E pc \in {"lock high", "open"} : proc' = [proc EXCEPT ![o] = pc]
          /\ UNCHANGED <<marker, promo>>
    BY <1>3 DEF Lock, Rest
  <2>2. \A c \in Boxes : proc'[c] = "activate" /\ Locked(c)' =>
                           c # o /\ proc[c] = "activate" /\ Locked(c)
    BY <1>0, <2>1 DEF Locked
  <2> QED BY <1>0, <2>1, <2>2
<1>4. ASSUME NEW o \in Boxes, Decide(o) PROVE OneMarker' /\ AuthorityInv'
  <2>1. /\ UNCHANGED <<marker, lock, promo>> /\ promo = None
        /\ \/ ~Active(o)
           \/ proc' = [proc EXCEPT ![o] = "demote"]
           \/ proc' = [proc EXCEPT ![o] = "verify demotion"]
        /\ \A b \in Boxes : b # o => proc'[b] = proc[b]
    BY <1>0, <1>4 DEF Decide, Rest, Needs, Demoted
  <2> QED BY <1>0, <2>1 DEF Locked
<1>5. ASSUME NEW o \in Boxes, Demote(o) PROVE OneMarker' /\ AuthorityInv'
  <2>1. /\ UNCHANGED <<lock, promo>> /\ promo = None
        /\ \A b \in Boxes : Active(b)' => Active(b)
        /\ \A b \in Boxes : proc'[b] = "activate" => proc[b] = "activate"
    BY <1>0, <1>5, Others DEF Demote, Mark, Rest
  <2> QED BY <1>b, <2>1 DEF Locked
<1>6. ASSUME NEW o \in Boxes, Activate(o) PROVE OneMarker' /\ AuthorityInv'
  <2>1. /\ UNCHANGED <<lock, promo>> /\ promo = None
        /\ proc[o] = "activate" /\ Locked(o)
        /\ Mark(Other(o), "active", Other(o))
        /\ proc' = [proc EXCEPT ![o] = "record activation"]
    BY <1>6 DEF Activate, Rest, Needs
  <2>2. ~Active(o) /\ ~Active(o)'
    BY <1>0, <2>1, Others DEF Mark
  <2>3. OneMarker'
    BY <1>b, <2>2
  <2>4. ~Locked(Other(o))'
    BY <2>1, <1>b, Others DEF Locked
  <2> QED BY <1>0, <2>1, <2>3, <2>4, Others
<1>7. ASSUME NEW o \in Boxes, Complete(o) \/ Refuse(o) \/ Kill(o) \/ GiveUp(o) \/ LoseLock(o)
                              \/ LoseContact(o)
      PROVE  OneMarker' /\ AuthorityInv'
  <2>1. /\ UNCHANGED <<marker, promo>>
        /\ \A b \in Boxes : proc'[b] \in {proc[b], "idle"}
        /\ \A b \in Boxes : lock'[b] \in {lock[b], None}
    BY <1>0, <1>7 DEF Complete, Refuse, Kill, GiveUp, LoseLock, LoseContact, Release, Rest
  <2>2. \A b \in Boxes : Locked(b)' => Locked(b)
    BY <1>b, <2>1 DEF Locked
  <2> QED BY <2>1, <2>2
<1>8. ASSUME NEW b \in Boxes, Return(b) \/ PullByHand(b) \/ EditByHand(b)
      PROVE  OneMarker' /\ AuthorityInv'
  BY <1>8 DEF Return, PullByHand, EditByHand, Rest, Locked
<1>12. CASE CommitElsewhere
  BY <1>12 DEF CommitElsewhere, Locked
<1>9. ASSUME NEW b \in Boxes, DemoteByHand(b) PROVE OneMarker' /\ AuthorityInv'
  <2>1. /\ UNCHANGED <<proc, lock, promo>>
        /\ \A c \in Boxes : Active(c)' => Active(c)
    BY <1>0, <1>9, Others DEF DemoteByHand, Mark
  <2> QED BY <1>0, <1>b, <2>1, Others DEF Locked
<1>10. ASSUME NEW n \in Boxes, Promote(n) PROVE OneMarker' /\ AuthorityInv'
  <2>1. /\ \A b \in Boxes : proc[b] = "idle"
        /\ UNCHANGED <<proc, lock>>
        /\ \/ /\ UNCHANGED marker /\ Fenced(Other(n))
              /\ promo' = [box |-> n, pc |-> "activate"]
           \/ /\ UNCHANGED marker
              /\ promo' = [box |-> n, pc |-> "demote"]
           \/ /\ Mark(Other(n), "fenced", n)
              /\ promo' = [box |-> n, pc |-> "activate"]
    BY <1>10 DEF Promote
  <2>2. promo'.pc = "activate" => promo'.box = n /\ ~Active(Other(n))'
    BY <1>0, <2>1, Others DEF Mark, Fenced
  <2>3. \A c \in Boxes : Active(c)' => Active(c)
    BY <1>0, <2>1, Others DEF Mark
  <2> QED BY <1>b, <2>1, <2>2, <2>3
<1>11. CASE PromotionDemotes \/ PromotionActivates \/ PromotionEnds
  <2>1. /\ UNCHANGED <<proc, lock>> /\ promo # None
        /\ \A b \in Boxes : proc[b] = "idle"
        /\ promo.box \in Boxes /\ Other(promo.box) \in Boxes
        /\ Other(promo.box) # promo.box /\ Boxes = {promo.box, Other(promo.box)}
    BY <1>0, <1>11, Others DEF PromotionDemotes, PromotionActivates, PromotionEnds
  <2>2. CASE PromotionDemotes
    <3>1. /\ Mark(Other(promo.box), "standby", promo.box)
          /\ promo' = [promo EXCEPT !.pc = "activate"]
      BY <2>2 DEF PromotionDemotes
    <3>2. /\ \A c \in Boxes : Active(c)' => Active(c)
          /\ ~Active(Other(promo.box))'
      BY <1>0, <2>1, <3>1 DEF Mark
    <3>3. promo'.box = promo.box
      BY <1>0, <2>1, <3>1
    <3> QED BY <1>b, <2>1, <3>2, <3>3
  <2>3. CASE PromotionActivates
    <3>1. /\ promo.pc = "activate" /\ promo' = None
          /\ Mark(promo.box, "active", promo.box)
      BY <2>3 DEF PromotionActivates
    <3>2. marker'[Other(promo.box)] = marker[Other(promo.box)]
      BY <1>0, <2>1, <3>1 DEF Mark
    <3>3. marker[Other(promo.box)].role # "active"
      BY <2>1, <3>1
    <3>4. \E b \in Boxes : marker'[b].role # "active"
      BY <2>1, <3>2, <3>3
    <3>5. OneMarker'
      BY <1>b, <3>4
    <3> QED BY <2>1, <3>1, <3>5
  <2>4. CASE PromotionEnds
    BY <2>1, <2>4 DEF PromotionEnds
  <2> QED BY <1>11, <2>2, <2>3, <2>4
<1> QED
  BY <1>1, <1>2, <1>3, <1>4, <1>5, <1>6, <1>7, <1>8, <1>9, <1>10, <1>11, <1>12
  DEF Next, SwitchStep, Interference, Promotion

(* Any faults, any order: the records of both boxes keep their types.      *)
THEOREM TypeCorrect == Spec => []TypeOK
<1>1. Init => TypeInv
  BY SwitchInit DEF SwitchInv
<1>2. TypeInv /\ [Next]_vars => TypeInv'
  BY TypeNext
<1>3. TypeInv => TypeOK
  BY DEF TypeInv
<1> QED BY <1>1, <1>2, <1>3, PTL DEF Spec

(* At no time are two markers active, whichever switches, resumptions and  *)
(* promotions follow each other, whatever fails and however often.         *)
THEOREM NeverTwoActive == Spec => []OneMarker
<1>1. Init => SwitchInv
  BY SwitchInit
<1>2. SwitchInv /\ [Next]_vars => SwitchInv'
  BY TypeNext, AuthorityNext DEF SwitchInv
<1>3. SwitchInv => OneMarker
  BY DEF SwitchInv
<1> QED BY <1>1, <1>2, <1>3, PTL DEF Spec


-----------------------------------------------------------------------------
(* What a push publishes.  First, histories and their prefixes.            *)

(* What a prefix is, commit by commit.                                     *)
LEMMA BehindIs ==
  ASSUME NEW C, NEW s \in Seq(C), NEW t \in Seq(C)
  PROVE  Behind(s, t) <=> Len(s) <= Len(t) /\ \A i \in 1..Len(s) : t[i] = s[i]
<1>1. Len(s) \in Nat /\ Len(t) \in Nat
  BY LenProperties
<1>2. ASSUME Len(s) <= Len(t)
      PROVE  /\ SubSeq(t, 1, Len(s)) \in Seq(C)
             /\ Len(SubSeq(t, 1, Len(s))) = Len(s)
             /\ \A i \in 1..Len(s) : SubSeq(t, 1, Len(s))[i] = t[i]
  <2>1. 1 \in 1..(Len(t) + 1) /\ Len(s) \in (1 - 1)..Len(t)
    BY <1>1, <1>2
  <2> QED
    BY <1>1, <2>1, SubSeqProperties
<1>3. ASSUME Behind(s, t) PROVE Len(s) <= Len(t) /\ \A i \in 1..Len(s) : t[i] = s[i]
  BY <1>2, <1>3 DEF Behind
<1>4. ASSUME Len(s) <= Len(t), \A i \in 1..Len(s) : t[i] = s[i] PROVE Behind(s, t)
  <2>1. SubSeq(t, 1, Len(s)) = s
    BY <1>2, <1>4, SeqEqual
  <2> QED
    BY <2>1, <1>4 DEF Behind
<1> QED
  BY <1>3, <1>4

(* A history with one more commit.                                         *)
LEMMA Appended ==
  ASSUME NEW C, NEW s \in Seq(C), NEW c \in C
  PROVE  /\ Append(s, c) \in Seq(C) /\ Append(s, c) # s /\ Append(s, c) # <<>>
         /\ Len(Append(s, c)) = Len(s) + 1
         /\ Last(Append(s, c)) = c
         /\ \A i \in 1..Len(s) : Append(s, c)[i] = s[i]
<1>1. /\ Append(s, c) \in Seq(C)
      /\ Len(Append(s, c)) = Len(s) + 1
      /\ \A i \in 1..Len(s) : Append(s, c)[i] = s[i]
      /\ Append(s, c)[Len(s) + 1] = c
  BY AppendProperties
<1>2. Len(s) \in Nat /\ Len(<<>>) = 0
  BY LenProperties
<1> QED
  BY <1>1, <1>2 DEF Last

(* Prefixes: of itself, of what has grown, of what a longer one is of.     *)
LEMMA BehindItself ==
  ASSUME NEW C, NEW s \in Seq(C)
  PROVE  Behind(s, s)
  BY BehindIs, LenProperties

LEMMA BehindBoth ==
  ASSUME NEW C, NEW s \in Seq(C), NEW t \in Seq(C), NEW u \in Seq(C),
         Behind(s, t), Behind(t, u)
  PROVE  Behind(s, u)
<1>1. Len(s) \in Nat /\ Len(t) \in Nat /\ Len(u) \in Nat
  BY LenProperties
<1> QED
  BY <1>1, BehindIs

LEMMA BehindAppended ==
  ASSUME NEW C, NEW s \in Seq(C), NEW t \in Seq(C), NEW c \in C, Behind(s, t)
  PROVE  Behind(s, Append(t, c))
<1> DEFINE u == Append(t, c)
<1>1. u \in Seq(C) /\ Len(u) = Len(t) + 1 /\ \A i \in 1..Len(t) : u[i] = t[i]
  BY Appended
<1> HIDE DEF u
<1>2. Behind(t, u)
  BY <1>1, BehindIs, LenProperties
<1>3. Behind(s, u)
  BY <1>1, <1>2, BehindBoth
<1> QED
  BY <1>3 DEF u

(* A longer history ends beyond what it starts with.                       *)
LEMMA BehindSame ==
  ASSUME NEW C, NEW s \in Seq(C), NEW t \in Seq(C), Behind(s, t), t # s
  PROVE  /\ Len(s) \in Nat /\ Len(t) \in Nat /\ Len(s) < Len(t)
         /\ Len(t) \in DOMAIN t /\ Len(s) + 1 \in DOMAIN t
<1>1. Len(s) \in Nat /\ Len(t) \in Nat /\ DOMAIN t = 1..Len(t)
  BY LenProperties
<1>2. Len(s) <= Len(t) /\ \A i \in 1..Len(s) : t[i] = s[i]
  BY BehindIs
<1>3. Len(s) # Len(t)
  BY <1>2, SeqEqual
<1> QED
  BY <1>1, <1>2, <1>3

-----------------------------------------------------------------------------

Unpublished(o) == record[o] # None /\ record[o].phase \in {"prepared", "publishing"}
Publishing(o)  == record[o] # None /\ record[o].phase = "publishing"

(* A switch is started from a clean clone.                                 *)
RecordInv ==
  \A o \in Boxes : record[o] # None =>
    record[o].base # <<>> /\ record[o].file = Content(Last(record[o].base))

(* Until it has published, whatever others do to its clone, what it was    *)
(* started from stays there; and once it publishes, main has come from it. *)
KeptInv ==
  \A o \in Boxes :
    /\ Unpublished(o) => Behind(record[o].base, head[o])
    /\ Publishing(o)  => Behind(record[o].base, upstream)

(* The other controller is named in a clone with history h and files f     *)
(* because the switch changed the placement right over its base, or main   *)
(* has named it since.                                                     *)
NamedFrom(o, h, f) ==
  record[o].file.active = o /\ Other(o) \in {f.active, Last(h).active} =>
    \/ h = record[o].base
    \/ h[Len(record[o].base) + 1].active = Other(o)
    \/ Placed(o)

PlacementInv == \A o \in Boxes : Unpublished(o) => NamedFrom(o, head[o], file[o])

(* Where the switch is, and what nobody can disturb while it has the locks *)
(* of both boxes.                                                          *)
Changing == {"prepared", "publishing", "write", "add", "commit", "push", "pushed"}

PublishInv ==
  \A o \in Boxes :
    /\ proc[o] = "prepared" => record[o].phase = "prepared"
    /\ proc[o] \in Changing \ {"prepared"} => record[o].phase = "publishing"
    /\ proc[o] = "write" /\ Locked(o) => head[o] = record[o].base
    /\ proc[o] \in {"add", "commit", "push"} /\ Locked(o) => file[o] = Expected(o)
    /\ proc[o] = "push" /\ Locked(o) => Tree(o) = Expected(o)

ChangeInv == RecordInv /\ KeptInv /\ PlacementInv /\ PublishInv

-----------------------------------------------------------------------------

(* What the parts of a record are, and what the switch makes of the file.  *)
LEMMA Recorded ==
  ASSUME TypeInv, RecordInv, NEW o \in Boxes, record[o] # None
  PROVE  /\ record[o] \in Record
         /\ record[o].base \in Seq(Commits) /\ record[o].base # <<>>
         /\ record[o].file \in Contents /\ record[o].file = Content(Last(record[o].base))
         /\ Expected(o) \in Contents
         /\ Expected(o).active = Other(o)
<1>1. record[o] \in Record
  BY DEF TypeInv, TypeOK
<1>2. record[o].base \in Seq(Commits) /\ record[o].file \in Contents
  BY <1>1 DEF Record
<1>3. Other(o) \in Boxes
  BY Others
<1>4. Expected(o) \in Contents /\ Expected(o).active = Other(o)
  BY <1>2, <1>3 DEF Expected, Contents
<1> QED
  BY <1>1, <1>2, <1>4 DEF RecordInv

(* Steps that touch neither the clones nor the records.                    *)
Elsewhere(o) ==
  proc'[o] \in Changing => proc'[o] = proc[o] /\ (Locked(o)' => Locked(o))

LEMMA StillNext ==
  ASSUME SwitchInv, ChangeInv, UNCHANGED <<git, record>>, \A b \in Boxes : Elsewhere(b)
  PROVE  ChangeInv'
<1>1. RecordInv' /\ KeptInv' /\ PlacementInv'
  BY DEF ChangeInv, git, RecordInv, KeptInv, PlacementInv, Unpublished, Publishing,
         NamedFrom, Placed
<1>2. PublishInv'
  BY DEF ChangeInv, git, PublishInv, Elsewhere, Changing, Expected, Tree
<1> QED
  BY <1>1, <1>2 DEF ChangeInv

(* Steps that record a phase after the publication.                        *)
LEMMA PhaseNext ==
  ASSUME SwitchInv, ChangeInv, UNCHANGED git, \A b \in Boxes : Elsewhere(b),
         NEW o \in Boxes, NEW phase \in Phases \ {"prepared", "publishing"},
         SavePhase(o, phase), record[o] \in Record, proc'[o] \notin Changing
  PROVE  ChangeInv'
<1>1. record' \in [Boxes -> Record \cup {None}] /\ \A b \in Boxes : b # o => record'[b] = record[b]
  BY PhaseSaved DEF SwitchInv
<1>2. record'[o] = [record[o] EXCEPT !.phase = phase] /\ record[o] # None
  BY NoneAssumption DEF SavePhase, SwitchInv, TypeInv, TypeOK
<1>3. /\ record'[o].phase = phase /\ record'[o].base = record[o].base
      /\ record'[o].file = record[o].file
  BY <1>2 DEF Record
<1>4. RecordInv' /\ KeptInv' /\ PlacementInv'
  <2>1. \A b \in Boxes : Unpublished(b)' => b # o /\ Unpublished(b)
    BY <1>1, <1>3 DEF Unpublished
  <2>2. \A b \in Boxes : Publishing(b)' => b # o /\ Publishing(b)
    BY <1>1, <1>3 DEF Publishing
  <2>3. RecordInv'
    BY <1>1, <1>2, <1>3 DEF ChangeInv, git, RecordInv
  <2>4. KeptInv' /\ PlacementInv'
    BY <1>1, <2>1, <2>2 DEF ChangeInv, git, KeptInv, PlacementInv, NamedFrom, Placed
  <2> QED
    BY <2>3, <2>4
<1>5. PublishInv'
  BY <1>1, <1>3 DEF ChangeInv, git, PublishInv, Elsewhere, Changing, Expected, Tree
<1> QED
  BY <1>4, <1>5 DEF ChangeInv

(* Steps after which main has more commits: it goes on naming whom it has  *)
(* named.                                                                  *)
LEMMA UpstreamNext ==
  ASSUME SwitchInv, ChangeInv, UNCHANGED <<head, file, record>>,
         upstream' \in Seq(Commits), Behind(upstream, upstream'), PublishInv'
  PROVE  ChangeInv'
<1> USE DEF SwitchInv, ChangeInv
<1>1. upstream \in Seq(Commits)
  BY DEF TypeInv, TypeOK
<1>2. ASSUME NEW o \in Boxes, Placed(o) PROVE Placed(o)'
  <2>1. /\ Len(upstream) \in Nat /\ Len(upstream') \in Nat
        /\ DOMAIN upstream = 1..Len(upstream) /\ DOMAIN upstream' = 1..Len(upstream')
        /\ Len(upstream) <= Len(upstream')
        /\ \A i \in 1..Len(upstream) : upstream'[i] = upstream[i]
    BY <1>1, BehindIs, LenProperties
  <2> QED
    BY <1>2, <2>1 DEF Placed
<1>3. PlacementInv'
  BY <1>2 DEF PlacementInv, NamedFrom, Unpublished
<1>4. ASSUME NEW o \in Boxes, Publishing(o) PROVE Behind(record[o].base, upstream')
  BY <1>1, <1>4, Recorded, BehindBoth DEF KeptInv, Publishing
<1>5. RecordInv' /\ KeptInv'
  BY <1>4 DEF RecordInv, KeptInv, Unpublished, Publishing
<1> QED
  BY <1>3, <1>5

(* Steps after which one clone has other files or a longer history.        *)
LEMMA CloneNext ==
  ASSUME SwitchInv, ChangeInv, UNCHANGED <<upstream, record>>, NEW b \in Boxes,
         \A c \in Boxes : c # b => head'[c] = head[c] /\ file'[c] = file[c],
         Unpublished(b) => /\ Behind(record[b].base, head'[b])
                           /\ NamedFrom(b, head'[b], file'[b]),
         PublishInv'
  PROVE  ChangeInv'
<1> USE DEF SwitchInv, ChangeInv
<1>1. RecordInv' /\ KeptInv'
  BY DEF RecordInv, KeptInv, Unpublished, Publishing
<1>2. \A c \in Boxes : Unpublished(c)' = Unpublished(c) /\ Placed(c)' = Placed(c)
  BY DEF Unpublished, Placed
<1>3. PlacementInv'
  BY <1>2 DEF PlacementInv, NamedFrom
<1> QED
  BY <1>1, <1>3

(* A clone that is brought up to date, or that its owner gives up changing. *)
LEMMA Updated ==
  ASSUME SwitchInv, ChangeInv, NEW b \in Boxes, Unpublished(b),
         NEW h, (h = upstream /\ Behind(head[b], upstream)) \/ h = head[b]
  PROVE  Behind(record[b].base, h) /\ NamedFrom(b, h, Content(Last(h)))
<1> USE DEF SwitchInv, ChangeInv
<1>1. /\ head[b] \in Seq(Commits) /\ head[b] # <<>>
      /\ upstream \in Seq(Commits) /\ upstream # <<>>
      /\ record[b].base \in Seq(Commits) /\ record[b].base # <<>>
  BY Recorded DEF TypeInv, TypeOK, HistoryKnown, Unpublished
<1>2. Behind(record[b].base, head[b]) /\ NamedFrom(b, head[b], file[b])
  BY DEF KeptInv, PlacementInv
<1>3. Behind(record[b].base, h)
  BY <1>1, <1>2, BehindBoth
<1>4. Content(Last(h)).active = Last(h).active
  BY DEF Content
<1>5. CASE h = head[b]
  BY <1>2, <1>3, <1>4, <1>5 DEF NamedFrom
<1>6. CASE h = upstream /\ h # record[b].base
  <2>1. Len(upstream) > Len(record[b].base) /\ Len(upstream) \in DOMAIN upstream
    BY <1>1, <1>3, <1>6, BehindSame
  <2>2. Last(upstream).active = Other(b) => Placed(b)
    BY <2>1 DEF Placed, Last
  <2> QED
    BY <1>3, <1>4, <1>6, <2>2 DEF NamedFrom
<1>7. CASE h = record[b].base
  BY <1>3, <1>7 DEF NamedFrom
<1> QED
  BY <1>5, <1>6, <1>7

(* What a clone holds may be committed in it.                              *)
LEMMA CommitKeeps ==
  ASSUME SwitchInv, ChangeInv, NEW b \in Boxes, Unpublished(b), NEW f \in Contents,
         NamedFrom(b, head[b], f)
  PROVE  /\ Behind(record[b].base, Append(head[b], Commit(f, b)))
         /\ NamedFrom(b, Append(head[b], Commit(f, b)), f)
<1> USE DEF SwitchInv, ChangeInv
<1> DEFINE k == Commit(f, b)
           h == Append(head[b], k)
<1>1. k \in Commits /\ k.active = f.active
  BY Committed
<1> HIDE DEF k
<1>2. /\ head[b] \in Seq(Commits) /\ record[b].base \in Seq(Commits)
      /\ Behind(record[b].base, head[b])
  BY Recorded DEF TypeInv, TypeOK, KeptInv, Unpublished
<1>3. /\ Last(h) = k /\ Len(h) = Len(head[b]) + 1 /\ h[Len(h)] = k
      /\ \A i \in 1..Len(head[b]) : h[i] = head[b][i]
  BY <1>1, <1>2, Appended DEF Last
<1>4. Behind(record[b].base, h)
  BY <1>1, <1>2, BehindAppended
<1> HIDE DEF h
<1>5. CASE head[b] = record[b].base
  <2>1. h[Len(record[b].base) + 1] = k
    BY <1>3, <1>5
  <2> QED
    BY <1>1, <1>3, <1>4, <2>1 DEF NamedFrom, h, k
<1>6. CASE head[b] # record[b].base
  <2>1. Len(record[b].base) + 1 \in DOMAIN head[b] /\ DOMAIN head[b] = 1..Len(head[b])
    BY <1>2, <1>6, BehindSame, LenProperties
  <2>2. h[Len(record[b].base) + 1] = head[b][Len(record[b].base) + 1]
    BY <1>3, <2>1
  <2> QED
    BY <1>1, <1>3, <1>4, <1>6, <2>2 DEF NamedFrom, h, k
<1> QED
  BY <1>5, <1>6

(* Opening a record: its switch has everything still before it.            *)
LEMMA OpenNext ==
  ASSUME SwitchInv, ChangeInv, NEW o \in Boxes, Open(o)
  PROVE  ChangeInv'
<1> USE DEF SwitchInv, ChangeInv
<1>1. /\ proc[o] = "open" /\ UNCHANGED <<git, lock>> /\ proc \in [Boxes -> Places]
      /\ record \in [Boxes -> Record \cup {None}]
  BY DEF Open, At, TypeInv, TypeOK
<1>2. CASE record[o] = None \/ record[o].phase = "complete"
  <2> DEFINE r == [phase |-> "prepared", base |-> head[o], file |-> file[o]]
  <2>1. /\ record' = [record EXCEPT ![o] = r] /\ proc' = [proc EXCEPT ![o] = "prepared"]
        /\ file[o] = Content(Last(head[o]))
    BY <1>2 DEF Open, At, Needs, Goto, Clean, Tree
  <2>2. /\ record'[o] = r /\ proc'[o] = "prepared"
        /\ \A b \in Boxes : b # o => record'[b] = record[b] /\ proc'[b] = proc[b]
    BY <1>1, <2>1
  <2>3. /\ r.phase = "prepared" /\ r.base = head[o] /\ r.file = file[o]
    OBVIOUS
  <2> HIDE DEF r
  <2>4. RecordInv'
    BY <1>1, <2>1, <2>2, <2>3 DEF git, RecordInv, TypeInv, HistoryKnown
  <2>5. Behind(head[o], head[o])
    BY BehindItself DEF TypeInv, TypeOK
  <2>7. \A b \in Boxes : Publishing(b)' => b # o /\ Publishing(b)
    BY <2>2, <2>3 DEF Publishing
  <2>6. KeptInv'
    BY <1>1, <2>2, <2>3, <2>5, <2>7 DEF git, KeptInv, Unpublished
  <2>8. PlacementInv'
    BY <1>1, <2>2, <2>3 DEF git, PlacementInv, NamedFrom, Unpublished, Placed
  <2>9. PublishInv'
    BY <1>1, <2>2, <2>3 DEF git, PublishInv, Changing, Locked, Expected, Tree
  <2> QED
    BY <2>4, <2>6, <2>8, <2>9
<1>3. CASE ~(record[o] = None \/ record[o].phase = "complete")
  <2>1. UNCHANGED record /\ proc' = [proc EXCEPT ![o] = record[o].phase]
    BY <1>3 DEF Open, Goto
  <2>2. /\ proc'[o] = record[o].phase
        /\ \A b \in Boxes : b # o => proc'[b] = proc[b]
    BY <1>1, <2>1
  <2>3. record[o].phase \in Phases
    BY <1>1, <1>3 DEF Record
  <2>4. RecordInv' /\ KeptInv' /\ PlacementInv'
    BY <1>1, <2>1 DEF git, RecordInv, KeptInv, PlacementInv, NamedFrom, Unpublished,
           Publishing, Placed
  <2>5. PublishInv'
    BY <1>1, <2>1, <2>2, <2>3 DEF git, PublishInv, Changing, Locked, Expected, Phases, Tree
  <2> QED
    BY <2>4, <2>5
<1> QED
  BY <1>2, <1>3

(* Preparation is over: both clones are main, which has come from the base *)
(* and names this controller.                                              *)
LEMMA PrepareNext ==
  ASSUME SwitchInv, ChangeInv, NEW o \in Boxes, Prepare(o)
  PROVE  ChangeInv'
<1> USE DEF SwitchInv, ChangeInv
<1>1. /\ proc[o] = "prepared" /\ UNCHANGED <<git, lock>> /\ proc \in [Boxes -> Places]
      /\ SavePhase(o, "publishing") /\ proc' = [proc EXCEPT ![o] = "publishing"]
      /\ head[o] = upstream
  BY DEF Prepare, At, Needs, Current, TypeInv, TypeOK, Goto
<1>2. record[o] \in Record /\ record[o] # None
  BY <1>1, NoneAssumption DEF TypeInv, HistoryKnown, Unopened
<1>3. record'[o] = [record[o] EXCEPT !.phase = "publishing"]
  BY <1>1 DEF SavePhase, TypeInv, TypeOK
<1>4. /\ record'[o].phase = "publishing" /\ record'[o].base = record[o].base
      /\ record'[o].file = record[o].file
  BY <1>2, <1>3 DEF Record
<1>5. /\ record' \in [Boxes -> Record \cup {None}]
      /\ \A b \in Boxes : b # o => record'[b] = record[b]
  BY <1>1, <1>2, PhaseSaved DEF Phases
<1>6. /\ proc'[o] = "publishing"
      /\ \A b \in Boxes : b # o => proc'[b] = proc[b]
  BY <1>1
<1>7. RecordInv'
  BY <1>1, <1>2, <1>4, <1>5 DEF git, RecordInv
<1>8. Unpublished(o)
  BY <1>1, <1>2 DEF PublishInv, Unpublished
<1>9. KeptInv'
  BY <1>1, <1>4, <1>5, <1>8 DEF git, KeptInv, Unpublished, Publishing
<1>11. PlacementInv'
  BY <1>1, <1>4, <1>5, <1>8 DEF git, PlacementInv, NamedFrom, Unpublished, Placed
<1>12. PublishInv'
  BY <1>1, <1>4, <1>5, <1>6 DEF git, PublishInv, Changing, Locked, Expected, Tree
<1> QED
  BY <1>7, <1>9, <1>11, <1>12

(* The file is found placed, or is about to be, on the recorded base.      *)
LEMMA PullNext ==
  ASSUME SwitchInv, ChangeInv, NEW o \in Boxes, Pull(o)
  PROVE  ChangeInv'
<1> USE DEF SwitchInv, ChangeInv
<1>1. /\ proc[o] = "publishing" /\ UNCHANGED <<file, upstream, record, lock>>
      /\ proc \in [Boxes -> Places] /\ head \in [Boxes -> Seq(Commits)]
      /\ file[o] \in {Original(o), Expected(o)}
  BY DEF Pull, At, Needs, TypeInv, TypeOK
<1>2. record[o] \in Record /\ record[o] # None /\ record[o].phase = "publishing"
  BY <1>1, NoneAssumption DEF TypeInv, HistoryKnown, Unopened, PublishInv, Changing
<1>3. CASE file[o] # Original(o)
  <2>1. UNCHANGED head /\ proc' = [proc EXCEPT ![o] = "add"] /\ file[o] = Expected(o)
    BY <1>1, <1>3 DEF Pull, Goto
  <2>2. RecordInv' /\ KeptInv' /\ PlacementInv'
    BY <1>1, <2>1 DEF RecordInv, KeptInv, PlacementInv, NamedFrom, Unpublished,
           Publishing, Placed
  <2>3. PublishInv'
    BY <1>1, <1>2, <2>1 DEF PublishInv, Changing, Locked, Expected, Tree
  <2> QED
    BY <2>2, <2>3
<1>4. CASE file[o] = Original(o)
  <2>1. /\ head' = [head EXCEPT ![o] = Pulled(o)] /\ proc' = [proc EXCEPT ![o] = "write"]
        /\ Pulled(o) = record[o].base
    BY <1>4 DEF Pull, Goto, At, Needs, AtBase
  <2>2. /\ head'[o] = record[o].base /\ proc'[o] = "write"
        /\ \A b \in Boxes : b # o => head'[b] = head[b] /\ proc'[b] = proc[b]
    BY <1>1, <2>1
  <2>3. Behind(record[o].base, record[o].base)
    BY <1>2, Recorded, BehindItself
  <2>4. NamedFrom(o, head'[o], file'[o])
    BY <2>2 DEF NamedFrom
  <2>6. PublishInv'
    BY <1>1, <1>2, <2>2 DEF PublishInv, Changing, Locked, Expected, Tree
  <2> QED
    BY <1>1, <2>2, <2>3, <2>4, <2>6, CloneNext
<1> QED
  BY <1>3, <1>4

(* The placement is written over what the record has, on its base.         *)
LEMMA WriteNext ==
  ASSUME SwitchInv, ChangeInv, NEW o \in Boxes, Write(o)
  PROVE  ChangeInv'
<1> USE DEF SwitchInv, ChangeInv
<1>1. /\ proc[o] = "write" /\ Locked(o) /\ UNCHANGED <<head, upstream, record, lock>>
      /\ proc \in [Boxes -> Places] /\ file \in [Boxes -> Contents]
      /\ file' = [file EXCEPT ![o] = Expected(o)] /\ proc' = [proc EXCEPT ![o] = "add"]
  BY DEF Write, At, Needs, Goto, TypeInv, TypeOK
<1>2. record[o] \in Record /\ record[o] # None /\ record[o].phase = "publishing"
  BY <1>1, NoneAssumption DEF TypeInv, HistoryKnown, Unopened, PublishInv, Changing
<1>3. head[o] = record[o].base /\ Behind(record[o].base, head[o])
  BY <1>1, <1>2 DEF PublishInv, KeptInv, Unpublished
<1>4. /\ file'[o] = Expected(o) /\ proc'[o] = "add"
      /\ \A b \in Boxes : b # o => file'[b] = file[b] /\ proc'[b] = proc[b]
  BY <1>1
<1>5. NamedFrom(o, head'[o], file'[o])
  BY <1>1, <1>3 DEF NamedFrom
<1>8. PublishInv'
  BY <1>1, <1>2, <1>4 DEF PublishInv, Changing, Locked, Expected, Tree
<1> QED
  BY <1>1, <1>3, <1>4, <1>5, <1>8, CloneNext

(* The change goes to the index, unless it has been committed before.      *)
LEMMA AddNext ==
  ASSUME SwitchInv, ChangeInv, NEW o \in Boxes, AddPlacement(o)
  PROVE  ChangeInv'
<1> USE DEF SwitchInv, ChangeInv
<1>1. /\ proc[o] = "add" /\ Locked(o) /\ UNCHANGED <<head, file, upstream, record, lock>>
      /\ proc \in [Boxes -> Places]
      /\ \/ file[o] = Tree(o) /\ proc' = [proc EXCEPT ![o] = "push"]
         \/ proc' = [proc EXCEPT ![o] = "commit"]
  BY DEF AddPlacement, At, Needs, Goto, TypeInv, TypeOK
<1>2. record[o].phase = "publishing" /\ file[o] = Expected(o)
  BY <1>1 DEF PublishInv, Changing
<1>3. /\ (proc'[o] = "push" /\ file[o] = Tree(o)) \/ proc'[o] = "commit"
      /\ \A b \in Boxes : b # o => proc'[b] = proc[b]
  BY <1>1
<1>4. RecordInv' /\ KeptInv' /\ PlacementInv'
  BY <1>1 DEF RecordInv, KeptInv, PlacementInv, NamedFrom, Unpublished, Publishing, Placed
<1>5. PublishInv'
  BY <1>1, <1>2, <1>3 DEF PublishInv, Changing, Locked, Expected, Tree
<1> QED
  BY <1>4, <1>5

(* The commit is made.                                                     *)
LEMMA CommitNext ==
  ASSUME SwitchInv, ChangeInv, NEW o \in Boxes, CommitPlacement(o)
  PROVE  ChangeInv'
<1> USE DEF SwitchInv, ChangeInv
<1> DEFINE k == Commit(file[o], o)
<1>1. /\ proc[o] = "commit" /\ UNCHANGED <<file, upstream, record, lock>>
      /\ proc \in [Boxes -> Places] /\ head \in [Boxes -> Seq(Commits)]
      /\ file[o] \in Contents
      /\ head' = [head EXCEPT ![o] = Append(head[o], k)]
      /\ proc' = [proc EXCEPT ![o] = "push"]
  BY DEF CommitPlacement, At, Goto, TypeInv, TypeOK
<1>2. record[o] \in Record /\ record[o] # None /\ record[o].phase = "publishing"
  BY <1>1, NoneAssumption DEF TypeInv, HistoryKnown, Unopened, PublishInv, Changing
<1>3. k \in Commits /\ Content(k) = file[o]
  BY <1>1, Committed
<1>4. Last(Append(head[o], k)) = k
  BY <1>1, <1>3, Appended
<1>5. /\ head'[o] = Append(head[o], k) /\ proc'[o] = "push"
      /\ \A b \in Boxes : b # o => head'[b] = head[b] /\ proc'[b] = proc[b]
  BY <1>1
<1>6. Unpublished(o) => Behind(record[o].base, head'[o]) /\ NamedFrom(o, head'[o], file'[o])
  BY <1>1, <1>5, CommitKeeps DEF PlacementInv
<1>7. PublishInv'
  <2>1. \A b \in Boxes : Expected(b)' = Expected(b) /\ Locked(b)' = Locked(b)
    BY <1>1 DEF Expected, Locked
  <2>2. Tree(o)' = file[o] /\ \A b \in Boxes : b # o => Tree(b)' = Tree(b)
    BY <1>3, <1>4, <1>5 DEF Tree
  <2> QED
    BY <1>1, <1>2, <1>5, <2>1, <2>2 DEF PublishInv, Changing
<1> QED
  BY <1>1, <1>5, <1>6, <1>7, CloneNext

(* A push finds main at the base of its switch, or naming the other        *)
(* controller already, and leaves it with the changed placement.           *)
LEMMA Pushes ==
  ASSUME SwitchInv, ChangeInv, NEW o \in Boxes, Push(o)
  PROVE  /\ upstream = record[o].base \/ Placed(o)
         /\ Behind(upstream, upstream')
         /\ Content(Last(upstream')) = Expected(o)
<1> USE DEF SwitchInv, ChangeInv
<1>1. /\ proc[o] = "push" /\ Locked(o) /\ upstream' = head[o]
      /\ Behind(upstream, head[o]) /\ OnlyPlacementDiffers(o)
  BY DEF Push, At, Needs
<1>2. record[o] \in Record /\ record[o] # None /\ record[o].phase = "publishing"
  BY <1>1, NoneAssumption DEF TypeInv, HistoryKnown, Unopened, PublishInv, Changing
<1>3. file[o] = Expected(o) /\ Tree(o) = Expected(o) /\ Content(Last(head[o])) = Expected(o)
  BY <1>1 DEF PublishInv, Tree
<1>4. record[o].file \in Contents /\ Other(o) # o /\ Boxes = {o, Other(o)}
  BY <1>2, Recorded, Others
<1>5. record[o].file.active = o
  <2>1. Expected(o) # record[o].file
    BY <1>1, <1>2, <1>3, Recorded DEF OnlyPlacementDiffers
  <2>2. record[o].file.active = Other(o) => Expected(o) = record[o].file
    BY <1>4 DEF Expected, Contents
  <2>3. record[o].file.active \in Boxes
    BY <1>4 DEF Contents
  <2> QED
    BY <1>4, <2>1, <2>2, <2>3
<1>6. /\ upstream \in Seq(Commits) /\ head[o] \in Seq(Commits)
      /\ record[o].base \in Seq(Commits) /\ Behind(record[o].base, upstream)
  BY <1>2, Recorded DEF TypeInv, TypeOK, KeptInv, Publishing
<1>7. head[o] # record[o].base
  <2>1. Content(Last(record[o].base)).active = o
    BY <1>2, <1>5, Recorded
  <2>2. Expected(o).active = Other(o)
    BY <1>2, Recorded
  <2> QED
    BY <1>3, <1>4, <2>1, <2>2
<1>8. head[o][Len(record[o].base) + 1].active = Other(o) \/ Placed(o)
  <2>1. Expected(o).active = Other(o)
    BY <1>2, Recorded
  <2> QED
    BY <1>2, <1>3, <1>5, <1>7, <2>1 DEF PlacementInv, NamedFrom, Unpublished
<1>9. ASSUME upstream # record[o].base,
             head[o][Len(record[o].base) + 1].active = Other(o)
      PROVE  Placed(o)
  <2>1. /\ Len(record[o].base) + 1 \in DOMAIN upstream /\ Len(record[o].base) \in Nat
        /\ DOMAIN upstream = 1..Len(upstream)
    BY <1>6, <1>9, BehindSame, LenProperties
  <2>2. \A i \in 1..Len(upstream) : head[o][i] = upstream[i]
    BY <1>1, <1>6, BehindIs
  <2>3. upstream[Len(record[o].base) + 1].active = Other(o)
    BY <1>9, <2>1, <2>2
  <2> QED
    BY <2>1, <2>3 DEF Placed
<1> QED
  BY <1>1, <1>3, <1>8, <1>9

LEMMA PushNext ==
  ASSUME SwitchInv, ChangeInv, NEW o \in Boxes, Push(o)
  PROVE  ChangeInv'
<1> USE DEF SwitchInv, ChangeInv
<1>1. /\ UNCHANGED <<head, file, record, lock>> /\ proc \in [Boxes -> Places]
      /\ proc' = [proc EXCEPT ![o] = "pushed"] /\ proc[o] = "push"
      /\ upstream' = head[o] /\ head[o] \in Seq(Commits)
  BY DEF Push, Goto, At, TypeInv, TypeOK
<1>2. record[o].phase = "publishing"
  BY <1>1 DEF PublishInv, Changing
<1>3. /\ proc'[o] = "pushed"
      /\ \A b \in Boxes : b # o => proc'[b] = proc[b]
  BY <1>1
<1>4. PublishInv'
  BY <1>1, <1>2, <1>3 DEF PublishInv, Changing, Locked, Expected, Tree
<1> QED
  BY <1>1, <1>4, Pushes, UpstreamNext

(* Main gets a commit from elsewhere.                                      *)
LEMMA CommitElsewhereNext ==
  ASSUME SwitchInv, ChangeInv, CommitElsewhere
  PROVE  ChangeInv'
<1> USE DEF SwitchInv, ChangeInv
<1>1. UNCHANGED <<head, file, record, proc, lock>> /\ upstream \in Seq(Commits)
  BY DEF CommitElsewhere, TypeInv, TypeOK
<1>2. PICK c \in Contents : upstream' = Append(upstream, Commit(c, None))
  BY DEF CommitElsewhere
<1>3. Commit(c, None) \in Commits
  BY Committed
<1>4. upstream' \in Seq(Commits) /\ Behind(upstream, upstream')
  BY <1>1, <1>2, <1>3, Appended, BehindItself, BehindAppended
<1>5. PublishInv'
  BY <1>1 DEF PublishInv, Locked, Expected, Tree
<1> QED
  BY <1>1, <1>4, <1>5, UpstreamNext

(* A clone is edited, cleaned, committed in.                               *)
LEMMA EditNext ==
  ASSUME SwitchInv, ChangeInv, NEW b \in Boxes, EditByHand(b)
  PROVE  ChangeInv'
<1> USE DEF SwitchInv, ChangeInv
<1>1. /\ proc[b] = "idle" /\ UNCHANGED <<upstream, record, proc, lock>>
      /\ head \in [Boxes -> Seq(Commits)] /\ file \in [Boxes -> Contents]
      /\ head' = head \/ head' = [head EXCEPT ![b] = Append(head[b], Commit(file'[b], b))]
  BY DEF EditByHand, TypeInv, TypeOK
<1>2. PICK c \in {[file[b] EXCEPT !.text = t] : t \in Texts} \cup {Tree(b)} :
        file' = [file EXCEPT ![b] = c]
  BY DEF EditByHand
<1>3. file'[b] = c /\ \A a \in Boxes : a # b => file'[a] = file[a]
  BY <1>1, <1>2
<1>4. /\ head'[b] \in {head[b], Append(head[b], Commit(c, b))}
      /\ \A a \in Boxes : a # b => head'[a] = head[a]
  BY <1>1, <1>3
<1>5. c \in Contents /\ (c = Tree(b) \/ c.active = file[b].active)
  <2>1. file[b] \in Contents
    BY <1>1
  <2>2. \A t \in Texts : [file[b] EXCEPT !.text = t] \in Contents
                         /\ [file[b] EXCEPT !.text = t].active = file[b].active
    BY <2>1 DEF Contents
  <2>3. Tree(b) \in Contents
    <3>1. head[b] # <<>> /\ Commit(file[b], None) \in Commits
      BY <2>1, Committed DEF TypeInv, HistoryKnown
    <3> QED
      BY <1>1, <3>1, Histories, Held DEF Tree
  <2> QED
    BY <1>2, <2>2, <2>3
<1>6. ASSUME Unpublished(b) PROVE NamedFrom(b, head[b], c)
  <2>1. CASE c = Tree(b)
    BY <1>6, <2>1, Updated DEF Tree
  <2>2. CASE c.active = file[b].active
    BY <1>6, <2>2 DEF PlacementInv, NamedFrom
  <2> QED
    BY <1>5, <2>1, <2>2
<1>7. Unpublished(b) => Behind(record[b].base, head'[b]) /\ NamedFrom(b, head'[b], file'[b])
  BY <1>3, <1>4, <1>5, <1>6, CommitKeeps DEF KeptInv
<1>8. PublishInv'
  BY <1>1, <1>3, <1>4 DEF PublishInv, Changing, Locked, Expected, Tree
<1> QED
  BY <1>1, <1>3, <1>4, <1>7, <1>8, CloneNext

-----------------------------------------------------------------------------

(* All steps together.                                                     *)
LEMMA ChangeNext ==
  ASSUME SwitchInv, ChangeInv, [Next]_vars
  PROVE  ChangeInv'
<1> USE DEF Goto, At
<1>0. /\ proc \in [Boxes -> Places] /\ lock \in [Boxes -> Boxes \cup {None}]
      /\ Boxes = {Low, High} /\ Low # High /\ None \notin Boxes
  BY ConstantsAssumption DEF SwitchInv, TypeInv, TypeOK, Boxes
<1>1. CASE UNCHANGED vars
  BY <1>1, StillNext DEF vars, Elsewhere, Locked
<1>2. ASSUME NEW o \in Boxes, Begin(o) \/ Decide(o) \/ Demote(o) \/ Activate(o)
      PROVE  ChangeInv'
  <2>1. UNCHANGED <<git, record, lock>>
    BY <1>2 DEF Begin, Decide, Demote, Activate
  <2>2. PICK pc : proc' = [proc EXCEPT ![o] = pc] /\ pc \notin Changing
    BY <1>2 DEF Begin, Decide, Demote, Activate, Changing
  <2>3. \A b \in Boxes : Elsewhere(b)
    BY <1>0, <2>1, <2>2 DEF Elsewhere, Locked
  <2> QED
    BY <2>1, <2>3, StillNext
<1>3. ASSUME NEW o \in Boxes, Lock(o) PROVE ChangeInv'
  <2>1. PICK b \in Boxes :
          /\ lock' = [lock EXCEPT ![b] = o]
          /\ \E pc \in {"lock high", "open"} : proc' = [proc EXCEPT ![o] = pc]
          /\ UNCHANGED <<git, record>>
    BY <1>3 DEF Lock
  <2>2. \A c \in Boxes : Elsewhere(c)
    BY <1>0, <2>1 DEF Elsewhere, Locked, Changing
  <2> QED
    BY <2>1, <2>2, StillNext
<1>4. ASSUME NEW o \in Boxes, Refuse(o) \/ Kill(o) \/ GiveUp(o) \/ LoseLock(o)
                              \/ LoseContact(o)
      PROVE  ChangeInv'
  <2>1. /\ UNCHANGED <<git, record>>
        /\ \A b \in Boxes : proc'[b] \in {proc[b], "idle"}
        /\ \A b \in Boxes : lock'[b] \in {lock[b], None}
    BY <1>0, <1>4 DEF Refuse, Kill, GiveUp, LoseLock, LoseContact, Release
  <2>2. \A b \in Boxes : Elsewhere(b)
    BY <1>0, <2>1 DEF Elsewhere, Locked, Changing
  <2> QED
    BY <2>1, <2>2, StillNext
<1>5. ASSUME NEW b \in Boxes, Return(b) \/ DemoteByHand(b) PROVE ChangeInv'
  BY <1>5, StillNext DEF Return, DemoteByHand, Elsewhere, Locked
<1>6. CASE Promotion
  BY <1>6, StillNext
  DEF Promotion, Promote, PromotionDemotes, PromotionActivates, PromotionEnds, Elsewhere, Locked
<1>7. ASSUME NEW o \in Boxes, RecordPhase(o) PROVE ChangeInv'
  <2>1. PICK phase \in {"published", "synchronized", "demoted", "activated"} :
          /\ SavePhase(o, phase) /\ proc' = [proc EXCEPT ![o] = phase]
          /\ proc[o] \notin Unopened
          /\ UNCHANGED <<git, lock>>
    BY <1>7 DEF RecordPhase, RecordAfter, Unopened
  <2>2. record[o] \in Record /\ phase \in Phases \ {"prepared", "publishing"}
    BY <2>1 DEF SwitchInv, TypeInv, HistoryKnown, Phases
  <2>3. proc'[o] \notin Changing /\ \A b \in Boxes : Elsewhere(b)
    BY <1>0, <2>1 DEF Elsewhere, Locked, Changing
  <2> QED
    BY <2>1, <2>2, <2>3, PhaseNext
<1>8. ASSUME NEW o \in Boxes, Complete(o) PROVE ChangeInv'
  <2>1. /\ SavePhase(o, "complete") /\ proc[o] \notin Unopened /\ UNCHANGED git
        /\ \A b \in Boxes : proc'[b] = IF b = o THEN "idle" ELSE proc[b]
        /\ \A b \in Boxes : lock'[b] \in {lock[b], None}
    BY <1>0, <1>8 DEF Complete, Release, Unopened
  <2>2. record[o] \in Record /\ "complete" \in Phases \ {"prepared", "publishing"}
    BY <2>1 DEF SwitchInv, TypeInv, HistoryKnown, Phases
  <2>3. proc'[o] \notin Changing /\ \A b \in Boxes : Elsewhere(b)
    BY <1>0, <2>1 DEF Elsewhere, Locked, Changing
  <2> QED
    BY <2>1, <2>2, <2>3, PhaseNext
<1>9. ASSUME NEW o \in Boxes, Synchronize(o) PROVE ChangeInv'
  <2> DEFINE n == Other(o)
  <2>0. n \in Boxes /\ n # o
    BY Others
  <2>1. /\ Locked(o) /\ UNCHANGED <<upstream, record, lock>>
        /\ head' = [head EXCEPT ![n] = Pulled(n)]
        /\ file' = [file EXCEPT ![n] = Content(Last(Pulled(n)))]
        /\ proc' = [proc EXCEPT ![o] = "ready"]
    BY <1>9 DEF Synchronize, Needs
  <2> HIDE DEF n
  <2>2. /\ head'[n] = Pulled(n) /\ file'[n] = Content(Last(Pulled(n)))
        /\ \A c \in Boxes : c # n => head'[c] = head[c] /\ file'[c] = file[c]
    BY <2>0, <2>1 DEF SwitchInv, TypeInv, TypeOK
  <2>3. Unpublished(n) => Behind(record[n].base, head'[n]) /\ NamedFrom(n, head'[n], file'[n])
    BY <2>0, <2>2, PulledIs, Updated DEF SwitchInv
  <2>4. /\ ~Locked(n)' /\ proc'[o] = "ready"
        /\ \A c \in Boxes : proc'[c] = proc[c] \/ proc'[c] = "ready"
    BY <1>0, <2>0, <2>1 DEF Locked
  <2>5. PublishInv'
    BY <2>1, <2>2, <2>4 DEF ChangeInv, PublishInv, Changing, Locked, Expected, Tree
  <2> QED
    BY <2>0, <2>1, <2>2, <2>3, <2>5, CloneNext
<1>10. ASSUME NEW b \in Boxes, PullByHand(b) PROVE ChangeInv'
  <2>1. /\ proc[b] = "idle" /\ Behind(head[b], upstream)
        /\ head' = [head EXCEPT ![b] = upstream]
        /\ file' = [file EXCEPT ![b] = Content(Last(upstream))]
        /\ UNCHANGED <<upstream, record, proc, lock>>
    BY <1>10 DEF PullByHand
  <2>2. /\ head'[b] = upstream /\ file'[b] = Content(Last(upstream))
        /\ \A c \in Boxes : c # b => head'[c] = head[c] /\ file'[c] = file[c]
    BY <2>1 DEF SwitchInv, TypeInv, TypeOK
  <2>3. Unpublished(b) => Behind(record[b].base, head'[b]) /\ NamedFrom(b, head'[b], file'[b])
    BY <2>1, <2>2, Updated
  <2>4. PublishInv'
    BY <2>1, <2>2 DEF ChangeInv, PublishInv, Changing, Locked, Expected, Tree
  <2> QED
    BY <2>1, <2>2, <2>3, <2>4, CloneNext
<1> QED
  BY <1>1, <1>2, <1>3, <1>4, <1>5, <1>6, <1>7, <1>8, <1>9, <1>10, OpenNext, PrepareNext,
     PullNext, WriteNext, AddNext, CommitNext, PushNext, CommitElsewhereNext, EditNext
  DEF Next, SwitchStep, Interference

(* The place of a push is left for "pushed" by the push alone.             *)
LEMMA OnlyPush ==
  ASSUME SwitchInv, [Next]_vars, NEW o \in Boxes, proc[o] = "push", proc'[o] = "pushed"
  PROVE  Push(o)
<1>0. proc \in [Boxes -> Places] /\ Boxes = {Low, High}
      /\ record \in [Boxes -> Record \cup {None}]
  BY DEF SwitchInv, TypeInv, TypeOK, Boxes
<1>1. CASE UNCHANGED vars
  BY <1>1 DEF vars
<1>2. ASSUME NEW b \in Boxes,
             \/ Begin(b) \/ Lock(b) \/ Prepare(b) \/ Pull(b) \/ Write(b)
             \/ AddPlacement(b) \/ CommitPlacement(b) \/ RecordPhase(b) \/ Synchronize(b) \/ Decide(b)
             \/ Demote(b) \/ Activate(b)
      PROVE  FALSE
  BY <1>0, <1>2 DEF Begin, Lock, Prepare, Pull, Write, AddPlacement, CommitPlacement,
     RecordPhase, RecordAfter, Synchronize, Decide, Demote, Activate, Goto
<1>3. ASSUME NEW b \in Boxes, Open(b) PROVE FALSE
  BY <1>0, <1>3 DEF Open, Goto, At
<1>4. ASSUME NEW b \in Boxes,
             Complete(b) \/ Refuse(b) \/ Kill(b) \/ GiveUp(b) \/ LoseLock(b) \/ LoseContact(b)
             \/ Return(b) \/ PullByHand(b) \/ EditByHand(b) \/ DemoteByHand(b)
      PROVE  FALSE
  <2>1. CASE Complete(b) \/ Refuse(b) \/ Kill(b) \/ GiveUp(b) \/ LoseContact(b)
    <3>1. proc'[o] \in {proc[o], "idle"}
      BY <1>0, <2>1 DEF Complete, Refuse, Kill, GiveUp, LoseContact, Release, Goto
    <3> QED
      BY <3>1
  <2>2. CASE LoseLock(b) \/ Return(b) \/ PullByHand(b) \/ EditByHand(b) \/ DemoteByHand(b)
    BY <2>2 DEF LoseLock, Return, PullByHand, EditByHand, DemoteByHand
  <2> QED
    BY <1>4, <2>1, <2>2
<1>5. CASE CommitElsewhere \/ Promotion
  BY <1>5 DEF CommitElsewhere, Promotion, Promote, PromotionDemotes, PromotionActivates,
     PromotionEnds
<1>6. ASSUME NEW b \in Boxes, Push(b) PROVE Push(o)
  BY <1>0, <1>6 DEF Push, Goto
<1> QED
  BY <1>1, <1>2, <1>3, <1>4, <1>5, <1>6 DEF Next, SwitchStep, Interference

(* The box starts without a record and with one commit.                    *)
LEMMA ChangeInit == Init => ChangeInv
<1> SUFFICES ASSUME Init PROVE ChangeInv
  OBVIOUS
<1>1. \A b \in Boxes : record[b] = None /\ proc[b] = "idle"
  BY DEF Init
<1> QED
  BY <1>1 DEF ChangeInv, RecordInv, KeptInv, PlacementInv, PublishInv, Unpublished,
     Publishing, Changing

(* Whatever edits, commits and pulls happen in the clones and in main, and *)
(* however often the switch is killed and resumed: a push places the other *)
(* controller over the history that the switch was started from, drops no  *)
(* commit of main, and changes nothing else in what main says.             *)
THEOREM PlacesOverItsBase == Spec => PushesOverItsBase
<1>1. SwitchInv /\ ChangeInv /\ [Next]_vars => SwitchInv' /\ ChangeInv'
  BY TypeNext, AuthorityNext, ChangeNext DEF SwitchInv
<1>2. SwitchInv /\ ChangeInv /\ [Next]_vars =>
        [\A o \in Boxes : proc[o] = "push" /\ proc'[o] = "pushed" =>
           /\ upstream = record[o].base \/ Placed(o)
           /\ Behind(upstream, upstream')
           /\ Content(Last(upstream')) = Expected(o)]_vars
  BY OnlyPush, Pushes
<1> QED
  BY SwitchInit, ChangeInit, <1>1, <1>2, PTL DEF Spec, PushesOverItsBase

=============================================================================
