--------------------------- MODULE FileLockProofs ---------------------------
(***************************************************************************)
(* For any number of processes, in any interleaving, with thefts, failing  *)
(* writes and crashes: unlocking leaves no lock behind.  For any number of *)
(* processes whose calls do not overlap: locking locks, what is modified   *)
(* is locked, and nobody saves over what they have not seen, except what   *)
(* was written within a second of what they have.                          *)
(*                                                                         *)
(* The argument: only e writes e's pid in a lock file, and it does so only *)
(* on the way to a change (InLockFile); unlock_file returns only after it  *)
(* read another owner or removed the file (Unlocked), and nothing done     *)
(* later by the others can make the lock file name e again.  Without       *)
(* overlap the process in a call is the only one not at rest (Serial), so  *)
(* what it has read is so until it acts on it.                             *)
(***************************************************************************)
EXTENDS FileLock, TLAPS

Locking   == {"modify", "save"}
Unlocking == {"saved", "failed", "visit", "unmodify"}

(* The goal fits the place in the code. *)
GoalFits(e) ==
  /\ pc[e] \in Attempt \union {"ask", "return", "seize", "overwrite"} => goal[e] \in Locking
  /\ pc[e] \in {"stat", "owner", "remove"} => goal[e] \in Unlocking
  /\ pc[e] \in {"superlock", "unsuper"} => goal[e] \in Locking \union Unlocking
  /\ goal[e] = "save" => dirty[e]

(* There is an open file where one is written or read. *)
FileIsOpen(e) == pc[e] \in {"write", "overwrite", "read"} => fd[e] # NoFile

(* Where e is between its lock and its unlock, or never locked. *)
InUse(e) == dirty[e] \/ e \in interrupted
NamedInUse(e) ==
  /\ pc[e] \in {"idle", "ask", "superlock", "seize", "overwrite"} \union Attempt
     /\ goal[e] \in Locking \union {"none"} /\ Names(e) => InUse(e)
  /\ pc[e] = "unsuper" /\ goal[e] \in Unlocking => ~Names(e)

AtRest(e) == pc[e] \in {"idle", "dead"} => goal[e] = "none"

Inductive ==
  /\ TypeOK
  /\ \A e \in Editor : GoalFits(e) /\ FileIsOpen(e) /\ NamedInUse(e) /\ AtRest(e)

USE EditorAssumption

(* The invariant holds at the start, with or without leftovers of a dead    *)
(* Emacs.                                                                   *)
LEMMA InitInductive == Init => Inductive
BY BoundsAssumption DEF Init, Inductive, TypeOK, PC, Goal, GoalFits, FileIsOpen, NamedInUse,
   AtRest, Names, Attempt, Locking, Unlocking, UnderSuperlock

(* Each action preserves the invariant.                                     *)
LEMMA LockFileInductive ==
  ASSUME NEW e \in Editor, NEW why \in {"modify", "save"}, Inductive, LockFile(e, why)
  PROVE  Inductive'
<1>1. TypeOK'
  BY BoundsAssumption, ChoicesAssumption DEF Inductive, GoalFits, FileIsOpen, TypeOK, PC, Goal,
     Attempt, UnderSuperlock, LockFile, Goto, At, locks, local, buffer, asked
<1>2. ASSUME NEW o \in Editor
      PROVE  (GoalFits(o) /\ FileIsOpen(o) /\ NamedInUse(o) /\ AtRest(o))'
  BY BoundsAssumption, ChoicesAssumption DEF Inductive, TypeOK, PC, GoalFits, FileIsOpen,
     NamedInUse, AtRest, InUse, Names, Locking, Unlocking, Attempt, UnderSuperlock, LockFile, Goto, At,
     locks, local, buffer, asked
<1>3. QED BY <1>1, <1>2 DEF Inductive

(* open always finds an inode that no process has open. *)
LEMMA InodeForNewLock ==
  ASSUME TypeOK, dir = NoFile
  PROVE  (CHOOSE i \in Inode : Unused(i)) \in { i \in Inode : Unused(i) }
<1>1. PICK j \in Inode : TRUE
  BY BoundsAssumption
<1>2. DEFINE used == [o \in Editor |-> IF fd[o] = NoFile THEN j ELSE fd[o]]
<1>3. used \in [Editor -> Inode]
  BY DEF TypeOK
<1>4. PICK i \in Inode : \A o \in Editor : i # used[o]
  BY <1>3, BoundsAssumption
<1>5. i # NoFile
  BY BoundsAssumption
<1>6. Unused(i)
  BY <1>4, <1>5 DEF Unused
<1>7. QED
  BY <1>6

LEMMA CreateInductive ==
  ASSUME NEW e \in Editor, Inductive, Create(e)
  PROVE  Inductive'
<1>1. CASE dir # NoFile
  <2>1. TypeOK'
    BY <1>1 DEF Inductive, TypeOK, PC, Attempt, Create, Goto, At, buffer, asked
  <2>2. ASSUME NEW o \in Editor
        PROVE  (GoalFits(o) /\ FileIsOpen(o) /\ NamedInUse(o) /\ AtRest(o))'
    BY <1>1 DEF Inductive, TypeOK, GoalFits, FileIsOpen, NamedInUse, AtRest, InUse, Names,
       Locking, Unlocking, Attempt, Create, Goto, At, buffer, asked
  <2>3. QED BY <2>1, <2>2 DEF Inductive
<1>2. CASE dir = NoFile
  <2>1. PICK new : new = CHOOSE i \in Inode : Unused(i)
    OBVIOUS
  <2>2. new \in Inode /\ new # NoFile
    BY <1>2, <2>1, InodeForNewLock, BoundsAssumption DEF Inductive
  <2>3. /\ dir' = new
        /\ content' = [content EXCEPT ![new] = Empty]
        /\ fd' = [fd EXCEPT ![e] = new]
        /\ Goto(e, "write")
        /\ pc[e] = "create"
        /\ UNCHANGED <<super, alive, goal, clasher, tries, buffer, asked>>
    BY <1>2, <2>1 DEF Create, At
  <2>4. TypeOK'
    BY <2>2, <2>3 DEF Inductive, TypeOK, PC, Attempt, Goto, buffer, asked
  <2>5. ASSUME NEW o \in Editor
        PROVE  (GoalFits(o) /\ FileIsOpen(o) /\ NamedInUse(o) /\ AtRest(o))'
    <3>1. ~Names(o)'
      BY <2>2, <2>3 DEF Names, Inductive, TypeOK
    <3>2. QED
      BY <2>2, <2>3, <3>1 DEF Inductive, TypeOK, GoalFits, FileIsOpen, NamedInUse, AtRest, InUse,
         Locking, Unlocking, Attempt, Goto, buffer, asked
  <2>6. QED BY <2>4, <2>5 DEF Inductive
<1>3. QED BY <1>1, <1>2

LEMMA WritePidInductive ==
  ASSUME NEW e \in Editor, Inductive, WritePid(e)
  PROVE  Inductive'
<1>1. TypeOK'
  BY BoundsAssumption, ChoicesAssumption DEF Inductive, GoalFits, FileIsOpen, TypeOK, PC, Goal,
     Attempt, UnderSuperlock, WritePid, Goto, At, locks, local, buffer, asked
<1>2. ASSUME NEW o \in Editor
      PROVE  (GoalFits(o) /\ FileIsOpen(o) /\ NamedInUse(o) /\ AtRest(o))'
  BY BoundsAssumption, ChoicesAssumption DEF Inductive, TypeOK, PC, GoalFits, FileIsOpen,
     NamedInUse, AtRest, InUse, Names, Locking, Unlocking, Attempt, UnderSuperlock, WritePid, Goto, At,
     locks, local, buffer, asked
<1>3. QED BY <1>1, <1>2 DEF Inductive

LEMMA LookInductive ==
  ASSUME NEW e \in Editor, Inductive, Look(e)
  PROVE  Inductive'
<1>1. TypeOK'
  BY BoundsAssumption, ChoicesAssumption DEF Inductive, GoalFits, FileIsOpen, TypeOK, PC, Goal,
     Attempt, UnderSuperlock, Look, Goto, At, locks, local, buffer, asked
<1>2. ASSUME NEW o \in Editor
      PROVE  (GoalFits(o) /\ FileIsOpen(o) /\ NamedInUse(o) /\ AtRest(o))'
  BY BoundsAssumption, ChoicesAssumption DEF Inductive, TypeOK, PC, GoalFits, FileIsOpen,
     NamedInUse, AtRest, InUse, Names, Locking, Unlocking, Attempt, UnderSuperlock, Look, Goto, At,
     locks, local, buffer, asked
<1>3. QED BY <1>1, <1>2 DEF Inductive

LEMMA ReadInductive ==
  ASSUME NEW e \in Editor, Inductive, Read(e)
  PROVE  Inductive'
<1>1. TypeOK'
  BY BoundsAssumption, ChoicesAssumption DEF Inductive, GoalFits, FileIsOpen, TypeOK, PC, Goal,
     Attempt, UnderSuperlock, Read, Goto, At, locks, local, buffer, asked
<1>2. ASSUME NEW o \in Editor
      PROVE  (GoalFits(o) /\ FileIsOpen(o) /\ NamedInUse(o) /\ AtRest(o))'
  BY BoundsAssumption, ChoicesAssumption DEF Inductive, TypeOK, PC, GoalFits, FileIsOpen,
     NamedInUse, AtRest, InUse, Names, Locking, Unlocking, Attempt, UnderSuperlock, Read, Goto, At,
     locks, local, buffer, asked
<1>3. QED BY <1>1, <1>2 DEF Inductive

LEMMA JudgeInductive ==
  ASSUME NEW e \in Editor, Inductive, Judge(e)
  PROVE  Inductive'
<1>1. TypeOK'
  BY BoundsAssumption, ChoicesAssumption DEF Inductive, GoalFits, FileIsOpen, TypeOK, PC, Goal,
     Attempt, UnderSuperlock, Judge, Mine, Exists, Goto, At, locks, local, buffer, asked
<1>2. ASSUME NEW o \in Editor
      PROVE  (GoalFits(o) /\ FileIsOpen(o) /\ NamedInUse(o) /\ AtRest(o))'
  BY BoundsAssumption, ChoicesAssumption DEF Inductive, TypeOK, PC, GoalFits, FileIsOpen,
     NamedInUse, AtRest, InUse, Names, Locking, Unlocking, Attempt, UnderSuperlock, Judge, Mine, Exists, Goto, At,
     locks, local, buffer, asked
<1>3. QED BY <1>1, <1>2 DEF Inductive

LEMMA UnlinkObsoleteInductive ==
  ASSUME NEW e \in Editor, Inductive, UnlinkObsolete(e)
  PROVE  Inductive'
<1>1. TypeOK'
  BY BoundsAssumption, ChoicesAssumption DEF Inductive, GoalFits, FileIsOpen, TypeOK, PC, Goal,
     Attempt, UnderSuperlock, UnlinkObsolete, Goto, At, locks, local, buffer, asked
<1>2. ASSUME NEW o \in Editor
      PROVE  (GoalFits(o) /\ FileIsOpen(o) /\ NamedInUse(o) /\ AtRest(o))'
  BY BoundsAssumption, ChoicesAssumption DEF Inductive, TypeOK, PC, GoalFits, FileIsOpen,
     NamedInUse, AtRest, InUse, Names, Locking, Unlocking, Attempt, UnderSuperlock, UnlinkObsolete, Goto, At,
     locks, local, buffer, asked
<1>3. QED BY <1>1, <1>2 DEF Inductive

LEMMA AskUserAboutLockInductive ==
  ASSUME NEW e \in Editor, NEW answer \in Answers, Inductive, AskUserAboutLock(e, answer)
  PROVE  Inductive'
<1>1. TypeOK'
  BY BoundsAssumption, ChoicesAssumption DEF Inductive, GoalFits, FileIsOpen, TypeOK, PC, Goal,
     Attempt, UnderSuperlock, AskUserAboutLock, Goto, At, locks, local, buffer, asked
<1>2. ASSUME NEW o \in Editor
      PROVE  (GoalFits(o) /\ FileIsOpen(o) /\ NamedInUse(o) /\ AtRest(o))'
  BY BoundsAssumption, ChoicesAssumption DEF Inductive, TypeOK, PC, GoalFits, FileIsOpen,
     NamedInUse, AtRest, InUse, Names, Locking, Unlocking, Attempt, UnderSuperlock, AskUserAboutLock, Goto, At,
     locks, local, buffer, asked
<1>3. QED BY <1>1, <1>2 DEF Inductive

LEMMA TakeSuperlockInductive ==
  ASSUME NEW e \in Editor, Inductive, TakeSuperlock(e)
  PROVE  Inductive'
<1>1. TypeOK'
  BY BoundsAssumption, ChoicesAssumption DEF Inductive, GoalFits, FileIsOpen, TypeOK, PC, Goal,
     Attempt, UnderSuperlock, TakeSuperlock, AfterSuperlock, Goto, At, locks, local, buffer, asked
<1>2. ASSUME NEW o \in Editor
      PROVE  (GoalFits(o) /\ FileIsOpen(o) /\ NamedInUse(o) /\ AtRest(o))'
  BY BoundsAssumption, ChoicesAssumption DEF Inductive, TypeOK, PC, GoalFits, FileIsOpen,
     NamedInUse, AtRest, InUse, Names, Locking, Unlocking, Attempt, UnderSuperlock, TakeSuperlock, AfterSuperlock, Goto, At,
     locks, local, buffer, asked
<1>3. QED BY <1>1, <1>2 DEF Inductive

LEMMA RetrySuperlockInductive ==
  ASSUME NEW e \in Editor, Inductive, RetrySuperlock(e)
  PROVE  Inductive'
<1>1. TypeOK'
  <2>1. tries[e] \in 0 .. Patience /\ tries[e] # Patience
    BY DEF Inductive, TypeOK, RetrySuperlock, Exhausted
  <2>2. PICK n \in 0 .. Patience : n = tries[e] + 1
    BY <2>1, BoundsAssumption
  <2>3. tries' = [tries EXCEPT ![e] = n]
    BY <2>2 DEF RetrySuperlock
  <2>4. tries' \in [Editor -> 0 .. Patience]
    BY <2>2, <2>3 DEF Inductive, TypeOK
  <2>5. QED
    BY <2>4 DEF Inductive, TypeOK, RetrySuperlock, locks, buffer, asked
<1>2. ASSUME NEW o \in Editor
      PROVE  (GoalFits(o) /\ FileIsOpen(o) /\ NamedInUse(o) /\ AtRest(o))'
  BY BoundsAssumption, ChoicesAssumption DEF Inductive, TypeOK, PC, GoalFits, FileIsOpen,
     NamedInUse, AtRest, InUse, Names, Locking, Unlocking, Attempt, UnderSuperlock, RetrySuperlock, Exhausted, Goto, At,
     locks, local, buffer, asked
<1>3. QED BY <1>1, <1>2 DEF Inductive

LEMMA GiveUpSuperlockInductive ==
  ASSUME NEW e \in Editor, Inductive, GiveUpSuperlock(e)
  PROVE  Inductive'
<1>1. TypeOK'
  BY BoundsAssumption, ChoicesAssumption DEF Inductive, GoalFits, FileIsOpen, TypeOK, PC, Goal,
     Attempt, UnderSuperlock, GiveUpSuperlock, Exhausted, GoOn, AfterSuperlock, Goto, At, locks, local, buffer, asked
<1>2. ASSUME NEW o \in Editor
      PROVE  (GoalFits(o) /\ FileIsOpen(o) /\ NamedInUse(o) /\ AtRest(o))'
  BY BoundsAssumption, ChoicesAssumption DEF Inductive, TypeOK, PC, GoalFits, FileIsOpen,
     NamedInUse, AtRest, InUse, Names, Locking, Unlocking, Attempt, UnderSuperlock, GiveUpSuperlock, Exhausted, GoOn, AfterSuperlock, Goto, At,
     locks, local, buffer, asked
<1>3. QED BY <1>1, <1>2 DEF Inductive

LEMMA SeizeInductive ==
  ASSUME NEW e \in Editor, Inductive, Seize(e)
  PROVE  Inductive'
<1>1. TypeOK'
  BY BoundsAssumption, ChoicesAssumption DEF Inductive, GoalFits, FileIsOpen, TypeOK, PC, Goal,
     Attempt, UnderSuperlock, Seize, Goto, At, locks, local, buffer, asked
<1>2. ASSUME NEW o \in Editor
      PROVE  (GoalFits(o) /\ FileIsOpen(o) /\ NamedInUse(o) /\ AtRest(o))'
  BY BoundsAssumption, ChoicesAssumption DEF Inductive, TypeOK, PC, GoalFits, FileIsOpen,
     NamedInUse, AtRest, InUse, Names, Locking, Unlocking, Attempt, UnderSuperlock, Seize, Goto, At,
     locks, local, buffer, asked
<1>3. QED BY <1>1, <1>2 DEF Inductive

LEMMA ChangeInductive ==
  ASSUME NEW e \in Editor, Inductive, Change(e)
  PROVE  Inductive'
<1>1. TypeOK'
  BY BoundsAssumption, ChoicesAssumption DEF Inductive, GoalFits, FileIsOpen, TypeOK, PC, Goal,
     Attempt, UnderSuperlock, Change, Goto, At, locks, local, buffer, asked
<1>2. ASSUME NEW o \in Editor
      PROVE  (GoalFits(o) /\ FileIsOpen(o) /\ NamedInUse(o) /\ AtRest(o))'
  BY BoundsAssumption, ChoicesAssumption DEF Inductive, TypeOK, PC, GoalFits, FileIsOpen,
     NamedInUse, AtRest, InUse, Names, Locking, Unlocking, Attempt, UnderSuperlock, Change, Goto, At,
     locks, local, buffer, asked
<1>3. QED BY <1>1, <1>2 DEF Inductive

LEMMA QuitBeforeChangeInductive ==
  ASSUME NEW e \in Editor, Inductive, QuitBeforeChange(e)
  PROVE  Inductive'
<1>1. TypeOK'
  BY BoundsAssumption, ChoicesAssumption DEF Inductive, GoalFits, FileIsOpen, TypeOK, PC, Goal,
     Attempt, UnderSuperlock, QuitBeforeChange, Goto, At, locks, local, buffer, asked
<1>2. ASSUME NEW o \in Editor
      PROVE  (GoalFits(o) /\ FileIsOpen(o) /\ NamedInUse(o) /\ AtRest(o))'
  BY BoundsAssumption, ChoicesAssumption DEF Inductive, TypeOK, PC, GoalFits, FileIsOpen,
     NamedInUse, AtRest, InUse, Names, Locking, Unlocking, Attempt, UnderSuperlock, QuitBeforeChange, Goto, At,
     locks, local, buffer, asked
<1>3. QED BY <1>1, <1>2 DEF Inductive

LEMMA WriteInductive ==
  ASSUME NEW e \in Editor, NEW failed \in BOOLEAN, Inductive, Write(e, failed)
  PROVE  Inductive'
<1>1. TypeOK'
  BY BoundsAssumption, ChoicesAssumption DEF Inductive, GoalFits, FileIsOpen, TypeOK, PC, Goal,
     Attempt, UnderSuperlock, Write, FreshAfterWrite, NearAfterWrite, Goto, At, locks, local, buffer, asked
<1>2. ASSUME NEW o \in Editor
      PROVE  (GoalFits(o) /\ FileIsOpen(o) /\ NamedInUse(o) /\ AtRest(o))'
  BY BoundsAssumption, ChoicesAssumption DEF Inductive, TypeOK, PC, GoalFits, FileIsOpen,
     NamedInUse, AtRest, InUse, Names, Locking, Unlocking, Attempt, UnderSuperlock, Write, FreshAfterWrite, NearAfterWrite, Goto, At,
     locks, local, buffer, asked
<1>3. QED BY <1>1, <1>2 DEF Inductive

LEMMA CannotCreateInductive ==
  ASSUME NEW e \in Editor, Inductive, CannotCreate(e)
  PROVE  Inductive'
<1>1. TypeOK'
  BY BoundsAssumption, ChoicesAssumption DEF Inductive, GoalFits, FileIsOpen, TypeOK, PC, Goal,
     Attempt, UnderSuperlock, CannotCreate, Goto, At, locks, local, buffer, asked
<1>2. ASSUME NEW o \in Editor
      PROVE  (GoalFits(o) /\ FileIsOpen(o) /\ NamedInUse(o) /\ AtRest(o))'
  BY BoundsAssumption, ChoicesAssumption DEF Inductive, TypeOK, PC, GoalFits, FileIsOpen,
     NamedInUse, AtRest, InUse, Names, Locking, Unlocking, Attempt, UnderSuperlock, CannotCreate, Goto, At,
     locks, local, buffer, asked
<1>3. QED BY <1>1, <1>2 DEF Inductive

LEMMA StatFileInductive ==
  ASSUME NEW e \in Editor, Inductive, StatFile(e)
  PROVE  Inductive'
<1>1. TypeOK'
  BY BoundsAssumption, ChoicesAssumption DEF Inductive, GoalFits, FileIsOpen, TypeOK, PC, Goal,
     Attempt, UnderSuperlock, StatFile, Goto, At, locks, local, buffer, asked
<1>2. ASSUME NEW o \in Editor
      PROVE  (GoalFits(o) /\ FileIsOpen(o) /\ NamedInUse(o) /\ AtRest(o))'
  BY BoundsAssumption, ChoicesAssumption DEF Inductive, TypeOK, PC, GoalFits, FileIsOpen,
     NamedInUse, AtRest, InUse, Names, Locking, Unlocking, Attempt, UnderSuperlock, StatFile, Goto, At,
     locks, local, buffer, asked
<1>3. QED BY <1>1, <1>2 DEF Inductive

LEMMA VisitInductive ==
  ASSUME NEW e \in Editor, Inductive, Visit(e)
  PROVE  Inductive'
<1>1. TypeOK'
  BY BoundsAssumption, ChoicesAssumption DEF Inductive, GoalFits, FileIsOpen, TypeOK, PC, Goal,
     Attempt, UnderSuperlock, Visit, Goto, At, locks, local, buffer, asked
<1>2. ASSUME NEW o \in Editor
      PROVE  (GoalFits(o) /\ FileIsOpen(o) /\ NamedInUse(o) /\ AtRest(o))'
  BY BoundsAssumption, ChoicesAssumption DEF Inductive, TypeOK, PC, GoalFits, FileIsOpen,
     NamedInUse, AtRest, InUse, Names, Locking, Unlocking, Attempt, UnderSuperlock, Visit, Goto, At,
     locks, local, buffer, asked
<1>3. QED BY <1>1, <1>2 DEF Inductive

LEMMA SetUnmodifiedInductive ==
  ASSUME NEW e \in Editor, Inductive, SetUnmodified(e)
  PROVE  Inductive'
<1>1. TypeOK'
  BY BoundsAssumption, ChoicesAssumption DEF Inductive, GoalFits, FileIsOpen, TypeOK, PC, Goal,
     Attempt, UnderSuperlock, SetUnmodified, Goto, At, locks, local, buffer, asked
<1>2. ASSUME NEW o \in Editor
      PROVE  (GoalFits(o) /\ FileIsOpen(o) /\ NamedInUse(o) /\ AtRest(o))'
  BY BoundsAssumption, ChoicesAssumption DEF Inductive, TypeOK, PC, GoalFits, FileIsOpen,
     NamedInUse, AtRest, InUse, Names, Locking, Unlocking, Attempt, UnderSuperlock, SetUnmodified, Goto, At,
     locks, local, buffer, asked
<1>3. QED BY <1>1, <1>2 DEF Inductive

LEMMA CheckOwnerInductive ==
  ASSUME NEW e \in Editor, Inductive, CheckOwner(e)
  PROVE  Inductive'
<1>1. TypeOK'
  BY BoundsAssumption, ChoicesAssumption DEF Inductive, GoalFits, FileIsOpen, TypeOK, PC, Goal,
     Attempt, UnderSuperlock, CheckOwner, Goto, At, locks, local, buffer, asked
<1>2. ASSUME NEW o \in Editor
      PROVE  (GoalFits(o) /\ FileIsOpen(o) /\ NamedInUse(o) /\ AtRest(o))'
  BY BoundsAssumption, ChoicesAssumption DEF Inductive, TypeOK, PC, GoalFits, FileIsOpen,
     NamedInUse, AtRest, InUse, Names, Locking, Unlocking, Attempt, UnderSuperlock, CheckOwner, Goto, At,
     locks, local, buffer, asked
<1>3. QED BY <1>1, <1>2 DEF Inductive

LEMMA RemoveLockInductive ==
  ASSUME NEW e \in Editor, Inductive, RemoveLock(e)
  PROVE  Inductive'
<1>1. TypeOK'
  BY BoundsAssumption, ChoicesAssumption DEF Inductive, GoalFits, FileIsOpen, TypeOK, PC, Goal,
     Attempt, UnderSuperlock, RemoveLock, Goto, At, locks, local, buffer, asked
<1>2. ASSUME NEW o \in Editor
      PROVE  (GoalFits(o) /\ FileIsOpen(o) /\ NamedInUse(o) /\ AtRest(o))'
  BY BoundsAssumption, ChoicesAssumption DEF Inductive, TypeOK, PC, GoalFits, FileIsOpen,
     NamedInUse, AtRest, InUse, Names, Locking, Unlocking, Attempt, UnderSuperlock, RemoveLock, Goto, At,
     locks, local, buffer, asked
<1>3. QED BY <1>1, <1>2 DEF Inductive

LEMMA RemoveSuperlockInductive ==
  ASSUME NEW e \in Editor, Inductive, RemoveSuperlock(e)
  PROVE  Inductive'
<1>1. TypeOK'
  <2>1. PICK d \in BOOLEAN, w \in BOOLEAN, t \in BOOLEAN :
          /\ d = (goal[e] = "failed")
          /\ w = (warned[e] /\ goal[e] # "saved")
          /\ t = (told[e] /\ goal[e] = "failed")
    OBVIOUS
  <2>2. \/ UNCHANGED <<dirty, warned, told>>
        \/ /\ dirty' = [dirty EXCEPT ![e] = d]
           /\ warned' = [warned EXCEPT ![e] = w]
           /\ told' = [told EXCEPT ![e] = t]
    BY <2>1, Zenon DEF RemoveSuperlock, buffer, asked
  <2>3. /\ dirty' \in [Editor -> BOOLEAN]
        /\ warned' \in [Editor -> BOOLEAN]
        /\ told' \in [Editor -> BOOLEAN]
    BY <2>1, <2>2 DEF Inductive, TypeOK
  <2>4. QED
    BY <2>3 DEF Inductive, TypeOK, PC, Goal, UnderSuperlock, Attempt, RemoveSuperlock, Goto, At,
       buffer, asked
<1>2. ASSUME NEW o \in Editor
      PROVE  (GoalFits(o) /\ FileIsOpen(o) /\ NamedInUse(o) /\ AtRest(o))'
  BY BoundsAssumption, ChoicesAssumption DEF Inductive, TypeOK, PC, GoalFits, FileIsOpen,
     NamedInUse, AtRest, InUse, Names, Locking, Unlocking, Attempt, UnderSuperlock, RemoveSuperlock, Goto, At,
     locks, local, buffer, asked
<1>3. QED BY <1>1, <1>2 DEF Inductive

LEMMA DieInductive ==
  ASSUME NEW e \in Editor, Inductive, Die(e)
  PROVE  Inductive'
<1>1. TypeOK'
  BY BoundsAssumption, ChoicesAssumption DEF Inductive, GoalFits, FileIsOpen, TypeOK, PC, Goal,
     Attempt, UnderSuperlock, Die, Goto, At, locks, local, buffer, asked
<1>2. ASSUME NEW o \in Editor
      PROVE  (GoalFits(o) /\ FileIsOpen(o) /\ NamedInUse(o) /\ AtRest(o))'
  BY BoundsAssumption, ChoicesAssumption DEF Inductive, TypeOK, PC, GoalFits, FileIsOpen,
     NamedInUse, AtRest, InUse, Names, Locking, Unlocking, Attempt, UnderSuperlock, Die, Goto, At,
     locks, local, buffer, asked
<1>3. QED BY <1>1, <1>2 DEF Inductive

(* Every step does.                                                         *)
LEMMA StepInductive == Inductive /\ [Next]_vars => Inductive'
<1>1. SUFFICES ASSUME Inductive, [Next]_vars PROVE Inductive'
  OBVIOUS
<1>2. CASE UNCHANGED vars
  <2>1. TypeOK'
    BY <1>1, <1>2 DEF Inductive, TypeOK, vars, locks, local, buffer, asked
  <2>2. ASSUME NEW o \in Editor
        PROVE  (GoalFits(o) /\ FileIsOpen(o) /\ NamedInUse(o) /\ AtRest(o))'
    BY <1>1, <1>2 DEF Inductive, GoalFits, FileIsOpen, NamedInUse, AtRest, InUse, Names,
       vars, locks, local, buffer, asked
  <2>3. QED
    BY <2>1, <2>2 DEF Inductive
<1>3. CASE NobodyLeft
  BY <1>2, <1>3 DEF NobodyLeft
<1>4. ASSUME NEW e \in Editor, Run(e) PROVE Inductive'
  BY <1>1, <1>4, CreateInductive, WritePidInductive, LookInductive, ReadInductive,
     JudgeInductive, UnlinkObsoleteInductive, TakeSuperlockInductive,
     RetrySuperlockInductive, GiveUpSuperlockInductive, SeizeInductive, ChangeInductive,
     StatFileInductive, WriteInductive, CheckOwnerInductive, RemoveLockInductive,
     RemoveSuperlockInductive, Zenon DEF Run
<1>5. ASSUME NEW e \in Editor,
             \/ \E why \in {"modify", "save"} : LockFile(e, why)
             \/ \E answer \in Answers : AskUserAboutLock(e, answer)
             \/ QuitBeforeChange(e)
             \/ WritesFail /\ (Write(e, TRUE) \/ CannotCreate(e))
             \/ Visit(e) \/ SetUnmodified(e)
             \/ Die(e)
      PROVE  Inductive'
  BY <1>1, <1>5, LockFileInductive, AskUserAboutLockInductive, QuitBeforeChangeInductive,
     WriteInductive, CannotCreateInductive, VisitInductive, SetUnmodifiedInductive,
     DieInductive, Zenon
<1>6. QED
  BY <1>1, <1>2, <1>3, <1>4, <1>5 DEF Next

(* Type correctness, for every number of processes. *)
THEOREM TypesAreKept == Spec => []TypeOK
<1>1. Inductive => TypeOK
  BY DEF Inductive
<1>2. QED
  BY <1>1, InitInductive, StepInductive, PTL DEF Spec

(* No lock is left behind by a process that has unlocked, however the       *)
(* processes interleave, steal from each other, fail to write and die.      *)
THEOREM UnlockingLeavesNoLock == Spec => []NoLockLeftBehind
<1>1. Inductive => NoLockLeftBehind
  BY DEF Inductive, NoLockLeftBehind, NamedInUse, AtRest, InUse, At, Locking
<1>2. QED
  BY <1>1, InitInductive, StepInductive, PTL DEF Spec
-----------------------------------------------------------------------------
(* When the calls of lock_if_free and unlock_file do not overlap.           *)

(* No call overlaps another, and nobody steals: a theft of a lock that has  *)
(* gone meanwhile would leave its thief without one.                        *)
SerialCalls == ~Overlap /\ "steal" \notin Answers

InCall(e) == pc[e] \in Attempt \union UnderSuperlock
Exclusive == \A a, b \in Editor : InCall(a) /\ InCall(b) => a = b

(* The dead have no buffer, and only unlock_file takes the superlock.       *)
Calm(e) ==
  /\ e \notin alive => pc[e] = "dead" /\ ~dirty[e]
  /\ pc[e] \notin {"seize", "overwrite"}
  /\ pc[e] \in {"superlock", "unsuper"} => goal[e] \in Unlocking

(* What a process has found out about the lock file is still true.          *)
LooksAtLock(e) ==
  /\ pc[e] = "write" => dir # NoFile /\ fd[e] = dir /\ content[dir] = Empty
  /\ pc[e] = "read" => dir # NoFile /\ fd[e] = dir
  /\ pc[e] = "judge" => dir # NoFile /\ clasher[e] = content[dir]
  /\ pc[e] = "unlink" => dir # NoFile /\ content[dir] \notin alive
  /\ pc[e] = "remove" => Names(e)
  /\ pc[e] = "return" => Names(e) \/ told[e]

Serial == Exclusive /\ \A e \in Editor : Calm(e) /\ LooksAtLock(e)

(* It holds at the start.                                                   *)
LEMMA InitSerial == Init => Serial
BY DEF Init, Serial, Exclusive, InCall, Calm, LooksAtLock, Attempt, UnderSuperlock

(* lock_file looks at the modtime and enters lock_if_free.                  *)
LEMMA LockFileSerial ==
  ASSUME NEW e \in Editor, NEW why \in {"modify", "save"}, SerialCalls, Inductive, Serial, LockFile(e, why)
  PROVE  Serial'
<1> USE DEF SerialCalls, Serial, Inductive, TypeOK, GoalFits, FileIsOpen, PC, Locking, Unlocking, Attempt, UnderSuperlock,
       Goto, At, locks, local, buffer, asked, Names, Alone, LockFile, Superseded
<1>1. Exclusive'
  BY DEF Exclusive, InCall
<1>2. ASSUME NEW o \in Editor PROVE Calm(o)'
  BY DEF Calm
<1>3. ASSUME NEW o \in Editor PROVE LooksAtLock(o)'
  BY DEF LooksAtLock, Exclusive, InCall, Calm
<1>4. QED BY <1>1, <1>2, <1>3

(* The open that makes the lock file, or finds one.                         *)
LEMMA CreateSerial ==
  ASSUME NEW e \in Editor, SerialCalls, Inductive, Serial, Create(e)
  PROVE  Serial'
<1> USE DEF SerialCalls, Serial, Inductive, TypeOK, GoalFits, FileIsOpen, PC, Locking, Unlocking, Attempt, UnderSuperlock,
       Goto, At, locks, local, buffer, asked, Names, Alone, Create
<1>1. Exclusive'
  BY DEF Exclusive, InCall
<1>2. ASSUME NEW o \in Editor PROVE Calm(o)'
  BY DEF Calm
<1>3. ASSUME NEW o \in Editor PROVE LooksAtLock(o)'
  <2>1. CASE dir # NoFile
    BY <2>1 DEF LooksAtLock, Exclusive, InCall
  <2>2. CASE dir = NoFile
    <3>1. PICK new : new = CHOOSE i \in Inode : Unused(i)
      OBVIOUS
    <3>2. new \in Inode /\ new # NoFile
      BY <2>2, <3>1, InodeForNewLock, BoundsAssumption
    <3>3. /\ dir' = new /\ content' = [content EXCEPT ![new] = Empty]
          /\ fd' = [fd EXCEPT ![e] = new] /\ pc' = [pc EXCEPT ![e] = "write"] /\ pc[e] = "create"
          /\ UNCHANGED <<alive, clasher, told>>
      BY <2>2, <3>1
    <3>4. CASE o = e
      BY <3>2, <3>3, <3>4 DEF LooksAtLock
    <3>5. CASE o # e
      <4>1. pc'[o] = pc[o] /\ ~InCall(o) /\ ~Names(o)
        BY <2>2, <3>3, <3>5 DEF Exclusive, InCall
      <4>2. QED BY <3>3, <4>1 DEF LooksAtLock, InCall
    <3>6. QED BY <3>4, <3>5
  <2>3. QED BY <2>1, <2>2
<1>4. QED BY <1>1, <1>2, <1>3

(* The pid is written into the lock file that was made.                     *)
LEMMA WritePidSerial ==
  ASSUME NEW e \in Editor, SerialCalls, Inductive, Serial, WritePid(e)
  PROVE  Serial'
<1> USE DEF SerialCalls, Serial, Inductive, TypeOK, GoalFits, FileIsOpen, PC, Locking, Unlocking, Attempt, UnderSuperlock,
       Goto, At, locks, local, buffer, asked, Names, Alone, WritePid
<1>1. Exclusive'
  BY DEF Exclusive, InCall
<1>2. ASSUME NEW o \in Editor PROVE Calm(o)'
  BY DEF Calm
<1>3. ASSUME NEW o \in Editor PROVE LooksAtLock(o)'
  BY DEF LooksAtLock, Exclusive, InCall, Calm
<1>4. QED BY <1>1, <1>2, <1>3

(* current_lock_owner_1 opens the lock file.                                *)
LEMMA LookSerial ==
  ASSUME NEW e \in Editor, SerialCalls, Inductive, Serial, Look(e)
  PROVE  Serial'
<1> USE DEF SerialCalls, Serial, Inductive, TypeOK, GoalFits, FileIsOpen, PC, Locking, Unlocking, Attempt, UnderSuperlock,
       Goto, At, locks, local, buffer, asked, Names, Alone, Look
<1>1. Exclusive'
  BY DEF Exclusive, InCall
<1>2. ASSUME NEW o \in Editor PROVE Calm(o)'
  BY DEF Calm
<1>3. ASSUME NEW o \in Editor PROVE LooksAtLock(o)'
  BY DEF LooksAtLock, Exclusive, InCall, Calm
<1>4. QED BY <1>1, <1>2, <1>3

(* It reads the pid.                                                        *)
LEMMA ReadSerial ==
  ASSUME NEW e \in Editor, SerialCalls, Inductive, Serial, Read(e)
  PROVE  Serial'
<1> USE DEF SerialCalls, Serial, Inductive, TypeOK, GoalFits, FileIsOpen, PC, Locking, Unlocking, Attempt, UnderSuperlock,
       Goto, At, locks, local, buffer, asked, Names, Alone, Read
<1>1. Exclusive'
  BY DEF Exclusive, InCall
<1>2. ASSUME NEW o \in Editor PROVE Calm(o)'
  BY DEF Calm
<1>3. ASSUME NEW o \in Editor PROVE LooksAtLock(o)'
  BY DEF LooksAtLock, Exclusive, InCall, Calm
<1>4. QED BY <1>1, <1>2, <1>3

(* The owner is this Emacs, another one, or dead.                           *)
LEMMA JudgeSerial ==
  ASSUME NEW e \in Editor, SerialCalls, Inductive, Serial, Judge(e)
  PROVE  Serial'
<1> USE DEF SerialCalls, Serial, Inductive, TypeOK, GoalFits, FileIsOpen, PC, Locking, Unlocking, Attempt, UnderSuperlock,
       Goto, At, locks, local, buffer, asked, Names, Alone, Judge, Mine, Exists
<1>1. Exclusive'
  BY DEF Exclusive, InCall
<1>2. ASSUME NEW o \in Editor PROVE Calm(o)'
  BY DEF Calm
<1>3. ASSUME NEW o \in Editor PROVE LooksAtLock(o)'
  BY DEF LooksAtLock, Exclusive, InCall, Calm
<1>4. QED BY <1>1, <1>2, <1>3

(* Only the lock of a dead Emacs is removed.                                *)
LEMMA UnlinkObsoleteSerial ==
  ASSUME NEW e \in Editor, SerialCalls, Inductive, Serial, UnlinkObsolete(e)
  PROVE  Serial'
<1> USE DEF SerialCalls, Serial, Inductive, TypeOK, GoalFits, FileIsOpen, PC, Locking, Unlocking, Attempt, UnderSuperlock,
       Goto, At, locks, local, buffer, asked, Names, Alone, UnlinkObsolete
<1>1. Exclusive'
  BY DEF Exclusive, InCall
<1>2. ASSUME NEW o \in Editor PROVE Calm(o)'
  BY DEF Calm
<1>3. ASSUME NEW o \in Editor PROVE LooksAtLock(o)'
  BY DEF LooksAtLock, Exclusive, InCall, Calm
<1>4. QED BY <1>1, <1>2, <1>3

(* The user proceeds or yields.                                             *)
LEMMA AskUserAboutLockSerial ==
  ASSUME NEW e \in Editor, NEW answer \in Answers, SerialCalls, Inductive, Serial, AskUserAboutLock(e, answer)
  PROVE  Serial'
<1> USE DEF SerialCalls, Serial, Inductive, TypeOK, GoalFits, FileIsOpen, PC, Locking, Unlocking, Attempt, UnderSuperlock,
       Goto, At, locks, local, buffer, asked, Names, Alone, AskUserAboutLock
<1>0. answer = "proceed" \/ answer = "yield"
  BY ChoicesAssumption
<1>1. Exclusive'
  BY <1>0 DEF Exclusive, InCall
<1>2. ASSUME NEW o \in Editor PROVE Calm(o)'
  BY <1>0 DEF Calm
<1>3. ASSUME NEW o \in Editor PROVE LooksAtLock(o)'
  <2>1. CASE answer = "proceed"
    BY <2>1 DEF LooksAtLock, Exclusive, InCall, Calm
  <2>2. CASE answer = "yield"
    BY <2>2 DEF LooksAtLock, Exclusive, InCall, Calm
  <2>3. QED BY <1>0, <2>1, <2>2
<1>4. QED BY <1>1, <1>2, <1>3

(* lock_superlock succeeds.                                                 *)
LEMMA TakeSuperlockSerial ==
  ASSUME NEW e \in Editor, SerialCalls, Inductive, Serial, TakeSuperlock(e)
  PROVE  Serial'
<1> USE DEF SerialCalls, Serial, Inductive, TypeOK, GoalFits, FileIsOpen, PC, Locking, Unlocking, Attempt, UnderSuperlock,
       Goto, At, locks, local, buffer, asked, Names, Alone, TakeSuperlock, AfterSuperlock
<1>1. Exclusive'
  BY DEF Exclusive, InCall
<1>2. ASSUME NEW o \in Editor PROVE Calm(o)'
  BY DEF Calm
<1>3. ASSUME NEW o \in Editor PROVE LooksAtLock(o)'
  BY DEF LooksAtLock, Exclusive, InCall, Calm
<1>4. QED BY <1>1, <1>2, <1>3

(* lock_superlock tries again.                                              *)
LEMMA RetrySuperlockSerial ==
  ASSUME NEW e \in Editor, SerialCalls, Inductive, Serial, RetrySuperlock(e)
  PROVE  Serial'
<1> USE DEF SerialCalls, Serial, Inductive, TypeOK, GoalFits, FileIsOpen, PC, Locking, Unlocking, Attempt, UnderSuperlock,
       Goto, At, locks, local, buffer, asked, Names, Alone, RetrySuperlock, Exhausted
<1>1. Exclusive'
  BY DEF Exclusive, InCall
<1>2. ASSUME NEW o \in Editor PROVE Calm(o)'
  BY DEF Calm
<1>3. ASSUME NEW o \in Editor PROVE LooksAtLock(o)'
  BY DEF LooksAtLock, Exclusive, InCall, Calm
<1>4. QED BY <1>1, <1>2, <1>3

(* lock_superlock gives up, and its caller goes on.                         *)
LEMMA GiveUpSuperlockSerial ==
  ASSUME NEW e \in Editor, SerialCalls, Inductive, Serial, GiveUpSuperlock(e)
  PROVE  Serial'
<1> USE DEF SerialCalls, Serial, Inductive, TypeOK, GoalFits, FileIsOpen, PC, Locking, Unlocking, Attempt, UnderSuperlock,
       Goto, At, locks, local, buffer, asked, Names, Alone, GiveUpSuperlock, Exhausted, GoOn, AfterSuperlock
<1>1. Exclusive'
  BY DEF Exclusive, InCall
<1>2. ASSUME NEW o \in Editor PROVE Calm(o)'
  BY DEF Calm
<1>3. ASSUME NEW o \in Editor PROVE LooksAtLock(o)'
  BY DEF LooksAtLock, Exclusive, InCall, Calm
<1>4. QED BY <1>1, <1>2, <1>3

(* Nobody steals.                                                           *)
LEMMA SeizeSerial ==
  ASSUME NEW e \in Editor, SerialCalls, Inductive, Serial, Seize(e)
  PROVE  Serial'
<1> USE DEF SerialCalls, Serial, Inductive, TypeOK, GoalFits, FileIsOpen, PC, Locking, Unlocking, Attempt, UnderSuperlock,
       Goto, At, locks, local, buffer, asked, Names, Alone, Seize
<1>1. Exclusive'
  BY DEF Exclusive, InCall
<1>2. ASSUME NEW o \in Editor PROVE Calm(o)'
  BY DEF Calm
<1>3. ASSUME NEW o \in Editor PROVE LooksAtLock(o)'
  BY DEF LooksAtLock, Exclusive, InCall, Calm
<1>4. QED BY <1>1, <1>2, <1>3

(* The change lock_file was called for.                                     *)
LEMMA ChangeSerial ==
  ASSUME NEW e \in Editor, SerialCalls, Inductive, Serial, Change(e)
  PROVE  Serial'
<1> USE DEF SerialCalls, Serial, Inductive, TypeOK, GoalFits, FileIsOpen, PC, Locking, Unlocking, Attempt, UnderSuperlock,
       Goto, At, locks, local, buffer, asked, Names, Alone, Change
<1>1. Exclusive'
  BY DEF Exclusive, InCall
<1>2. ASSUME NEW o \in Editor PROVE Calm(o)'
  BY DEF Calm
<1>3. ASSUME NEW o \in Editor PROVE LooksAtLock(o)'
  BY DEF LooksAtLock, Exclusive, InCall, Calm
<1>4. QED BY <1>1, <1>2, <1>3

(* A quit instead of it.                                                    *)
LEMMA QuitBeforeChangeSerial ==
  ASSUME NEW e \in Editor, SerialCalls, Inductive, Serial, QuitBeforeChange(e)
  PROVE  Serial'
<1> USE DEF SerialCalls, Serial, Inductive, TypeOK, GoalFits, FileIsOpen, PC, Locking, Unlocking, Attempt, UnderSuperlock,
       Goto, At, locks, local, buffer, asked, Names, Alone, QuitBeforeChange
<1>1. Exclusive'
  BY DEF Exclusive, InCall
<1>2. ASSUME NEW o \in Editor PROVE Calm(o)'
  BY DEF Calm
<1>3. ASSUME NEW o \in Editor PROVE LooksAtLock(o)'
  BY DEF LooksAtLock, Exclusive, InCall, Calm
<1>4. QED BY <1>1, <1>2, <1>3

(* The file is written, with or without an error.                           *)
LEMMA WriteSerial ==
  ASSUME NEW e \in Editor, NEW failed \in BOOLEAN, SerialCalls, Inductive, Serial, Write(e, failed)
  PROVE  Serial'
<1> USE DEF SerialCalls, Serial, Inductive, TypeOK, GoalFits, FileIsOpen, PC, Locking, Unlocking, Attempt, UnderSuperlock,
       Goto, At, locks, local, buffer, asked, Names, Alone, Write, FreshAfterWrite, NearAfterWrite
<1>1. Exclusive'
  BY DEF Exclusive, InCall
<1>2. ASSUME NEW o \in Editor PROVE Calm(o)'
  BY DEF Calm
<1>3. ASSUME NEW o \in Editor PROVE LooksAtLock(o)'
  BY DEF LooksAtLock, Exclusive, InCall, Calm
<1>4. QED BY <1>1, <1>2, <1>3

(* The file cannot be written.                                              *)
LEMMA CannotCreateSerial ==
  ASSUME NEW e \in Editor, SerialCalls, Inductive, Serial, CannotCreate(e)
  PROVE  Serial'
<1> USE DEF SerialCalls, Serial, Inductive, TypeOK, GoalFits, FileIsOpen, PC, Locking, Unlocking, Attempt, UnderSuperlock,
       Goto, At, locks, local, buffer, asked, Names, Alone, CannotCreate
<1>1. Exclusive'
  BY DEF Exclusive, InCall
<1>2. ASSUME NEW o \in Editor PROVE Calm(o)'
  BY DEF Calm
<1>3. ASSUME NEW o \in Editor PROVE LooksAtLock(o)'
  BY DEF LooksAtLock, Exclusive, InCall, Calm
<1>4. QED BY <1>1, <1>2, <1>3

(* The modtime after saving; then unlock_file.                              *)
LEMMA StatFileSerial ==
  ASSUME NEW e \in Editor, SerialCalls, Inductive, Serial, StatFile(e)
  PROVE  Serial'
<1> USE DEF SerialCalls, Serial, Inductive, TypeOK, GoalFits, FileIsOpen, PC, Locking, Unlocking, Attempt, UnderSuperlock,
       Goto, At, locks, local, buffer, asked, Names, Alone, StatFile
<1>1. Exclusive'
  BY DEF Exclusive, InCall
<1>2. ASSUME NEW o \in Editor PROVE Calm(o)'
  BY DEF Calm
<1>3. ASSUME NEW o \in Editor PROVE LooksAtLock(o)'
  BY DEF LooksAtLock, Exclusive, InCall, Calm
<1>4. QED BY <1>1, <1>2, <1>3

(* Visiting, which unlocks.                                                 *)
LEMMA VisitSerial ==
  ASSUME NEW e \in Editor, SerialCalls, Inductive, Serial, Visit(e)
  PROVE  Serial'
<1> USE DEF SerialCalls, Serial, Inductive, TypeOK, GoalFits, FileIsOpen, PC, Locking, Unlocking, Attempt, UnderSuperlock,
       Goto, At, locks, local, buffer, asked, Names, Alone, Visit
<1>1. Exclusive'
  BY DEF Exclusive, InCall
<1>2. ASSUME NEW o \in Editor PROVE Calm(o)'
  BY DEF Calm
<1>3. ASSUME NEW o \in Editor PROVE LooksAtLock(o)'
  BY DEF LooksAtLock, Exclusive, InCall, Calm
<1>4. QED BY <1>1, <1>2, <1>3

(* set-buffer-modified-p, which unlocks.                                    *)
LEMMA SetUnmodifiedSerial ==
  ASSUME NEW e \in Editor, SerialCalls, Inductive, Serial, SetUnmodified(e)
  PROVE  Serial'
<1> USE DEF SerialCalls, Serial, Inductive, TypeOK, GoalFits, FileIsOpen, PC, Locking, Unlocking, Attempt, UnderSuperlock,
       Goto, At, locks, local, buffer, asked, Names, Alone, SetUnmodified
<1>1. Exclusive'
  BY DEF Exclusive, InCall
<1>2. ASSUME NEW o \in Editor PROVE Calm(o)'
  BY DEF Calm
<1>3. ASSUME NEW o \in Editor PROVE LooksAtLock(o)'
  BY DEF LooksAtLock, Exclusive, InCall, Calm
<1>4. QED BY <1>1, <1>2, <1>3

(* unlock_file compares the owner.                                          *)
LEMMA CheckOwnerSerial ==
  ASSUME NEW e \in Editor, SerialCalls, Inductive, Serial, CheckOwner(e)
  PROVE  Serial'
<1> USE DEF SerialCalls, Serial, Inductive, TypeOK, GoalFits, FileIsOpen, PC, Locking, Unlocking, Attempt, UnderSuperlock,
       Goto, At, locks, local, buffer, asked, Names, Alone, CheckOwner
<1>1. Exclusive'
  BY DEF Exclusive, InCall
<1>2. ASSUME NEW o \in Editor PROVE Calm(o)'
  BY DEF Calm
<1>3. ASSUME NEW o \in Editor PROVE LooksAtLock(o)'
  BY DEF LooksAtLock, Exclusive, InCall, Calm
<1>4. QED BY <1>1, <1>2, <1>3

(* It removes its own lock.                                                 *)
LEMMA RemoveLockSerial ==
  ASSUME NEW e \in Editor, SerialCalls, Inductive, Serial, RemoveLock(e)
  PROVE  Serial'
<1> USE DEF SerialCalls, Serial, Inductive, TypeOK, GoalFits, FileIsOpen, PC, Locking, Unlocking, Attempt, UnderSuperlock,
       Goto, At, locks, local, buffer, asked, Names, Alone, RemoveLock
<1>1. Exclusive'
  BY DEF Exclusive, InCall
<1>2. ASSUME NEW o \in Editor PROVE Calm(o)'
  BY DEF Calm
<1>3. ASSUME NEW o \in Editor PROVE LooksAtLock(o)'
  BY DEF LooksAtLock, Exclusive, InCall, Calm
<1>4. QED BY <1>1, <1>2, <1>3

(* The return from unlock_file.                                             *)
LEMMA RemoveSuperlockSerial ==
  ASSUME NEW e \in Editor, SerialCalls, Inductive, Serial, RemoveSuperlock(e)
  PROVE  Serial'
<1> USE DEF SerialCalls, Serial, Inductive, TypeOK, GoalFits, FileIsOpen, PC, Locking, Unlocking, Attempt, UnderSuperlock,
       Goto, At, locks, local, buffer, asked, Names, Alone, RemoveSuperlock
<1>1. Exclusive'
  BY DEF Exclusive, InCall
<1>2. ASSUME NEW o \in Editor PROVE Calm(o)'
  BY DEF Calm
<1>3. ASSUME NEW o \in Editor PROVE LooksAtLock(o)'
  BY DEF LooksAtLock, Exclusive, InCall, Calm
<1>4. QED BY <1>1, <1>2, <1>3

(* A process dies; its files stay.                                          *)
LEMMA DieSerial ==
  ASSUME NEW e \in Editor, SerialCalls, Inductive, Serial, Die(e)
  PROVE  Serial'
<1> USE DEF SerialCalls, Serial, Inductive, TypeOK, GoalFits, FileIsOpen, PC, Locking, Unlocking, Attempt, UnderSuperlock,
       Goto, At, locks, local, buffer, asked, Names, Alone, Die
<1>1. Exclusive'
  BY DEF Exclusive, InCall
<1>2. ASSUME NEW o \in Editor PROVE Calm(o)'
  BY DEF Calm
<1>3. ASSUME NEW o \in Editor PROVE LooksAtLock(o)'
  BY DEF LooksAtLock, Exclusive, InCall, Calm
<1>4. QED BY <1>1, <1>2, <1>3

(* Every step keeps what serial calls have found out.                       *)
LEMMA StepSerial ==
  ASSUME SerialCalls
  PROVE  Inductive /\ Serial /\ [Next]_vars => Serial'
<1>1. SUFFICES ASSUME Inductive, Serial, [Next]_vars PROVE Serial'
  OBVIOUS
<1>2. CASE UNCHANGED vars
  BY <1>1, <1>2 DEF Serial, Exclusive, InCall, Calm, LooksAtLock, Names, vars, locks, local, buffer,
     asked
<1>3. CASE NobodyLeft
  BY <1>2, <1>3 DEF NobodyLeft
<1>4. ASSUME NEW e \in Editor, Run(e) PROVE Serial'
  BY <1>1, <1>4, CreateSerial, WritePidSerial, LookSerial, ReadSerial, JudgeSerial,
     UnlinkObsoleteSerial, TakeSuperlockSerial, RetrySuperlockSerial, GiveUpSuperlockSerial,
     SeizeSerial, ChangeSerial, StatFileSerial, WriteSerial, CheckOwnerSerial, RemoveLockSerial,
     RemoveSuperlockSerial, Zenon DEF Run
<1>5. ASSUME NEW e \in Editor,
             \/ \E why \in {"modify", "save"} : LockFile(e, why)
             \/ \E answer \in Answers : AskUserAboutLock(e, answer)
             \/ QuitBeforeChange(e)
             \/ WritesFail /\ (Write(e, TRUE) \/ CannotCreate(e))
             \/ Visit(e) \/ SetUnmodified(e)
             \/ Die(e)
      PROVE  Serial'
  BY <1>1, <1>5, LockFileSerial, AskUserAboutLockSerial, QuitBeforeChangeSerial, WriteSerial,
     CannotCreateSerial, VisitSerial, SetUnmodifiedSerial, DieSerial, Zenon
<1>6. QED
  BY <1>1, <1>2, <1>3, <1>4, <1>5 DEF Next

(* lock_file returns with the lock, or with the decision of its user to go  *)
(* ahead without, for any processes whose calls do not overlap, with        *)
(* crashes, failing writes and the leftovers of the dead.                   *)
THEOREM LockFileLocks ==
  ASSUME SerialCalls
  PROVE  Spec => LockedOrTold
<1>1. Serial' => \A e \in Editor : pc[e] # "return" /\ pc'[e] = "return" => Names(e)' \/ told'[e]
  BY DEF Serial, LooksAtLock
<1>2. Inductive /\ Serial /\ [Next]_vars => Serial'
  BY StepSerial
<1>3. QED
  BY InitInductive, InitSerial, StepInductive, <1>1, <1>2, PTL DEF Spec, LockedOrTold

(* Without failing writes, what was locked stays locked until unlock_file.  *)
Covered(e) ==
  /\ goal[e] # "failed"
  /\ dirty[e] /\ pc[e] # "unsuper" => Names(e) \/ told[e]

(* Every step leaves the modified buffers covered.                          *)
LEMMA StepCovered ==
  ASSUME SerialCalls, ~WritesFail, Inductive, Serial, \A e \in Editor : Covered(e), Next
  PROVE  \A e \in Editor : Covered(e)'
<1> SUFFICES ASSUME NEW o \in Editor PROVE Covered(o)'
  OBVIOUS
<1> USE DEF Covered, SerialCalls, Serial, Calm, LooksAtLock,
       Inductive, TypeOK, GoalFits, FileIsOpen, PC, Locking, Unlocking, Attempt, UnderSuperlock,
       Goto, At, locks, local, buffer, asked, Names, Alone
<1>1. ASSUME NEW e \in Editor, NEW why \in {"modify", "save"}, LockFile(e, why) PROVE Covered(o)'
  BY <1>1 DEF LockFile, Superseded
<1>2. ASSUME NEW e \in Editor, Create(e) PROVE Covered(o)'
  BY <1>2 DEF Create
<1>3. ASSUME NEW e \in Editor, WritePid(e) PROVE Covered(o)'
  BY <1>3 DEF WritePid
<1>4. ASSUME NEW e \in Editor, Look(e) PROVE Covered(o)'
  BY <1>4 DEF Look
<1>5. ASSUME NEW e \in Editor, Read(e) PROVE Covered(o)'
  BY <1>5 DEF Read
<1>6. ASSUME NEW e \in Editor, Judge(e) PROVE Covered(o)'
  BY <1>6 DEF Judge, Mine, Exists
<1>7. ASSUME NEW e \in Editor, UnlinkObsolete(e) PROVE Covered(o)'
  BY <1>7 DEF UnlinkObsolete
<1>8. ASSUME NEW e \in Editor, NEW answer \in Answers, AskUserAboutLock(e, answer) PROVE Covered(o)'
  <2>1. CASE answer = "proceed"
    BY <1>8, <2>1 DEF AskUserAboutLock
  <2>2. CASE answer = "yield"
    BY <1>8, <2>2 DEF AskUserAboutLock
  <2>3. QED BY <2>1, <2>2, ChoicesAssumption
<1>9. ASSUME NEW e \in Editor, TakeSuperlock(e) PROVE Covered(o)'
  BY <1>9 DEF TakeSuperlock, AfterSuperlock
<1>10. ASSUME NEW e \in Editor, RetrySuperlock(e) PROVE Covered(o)'
  BY <1>10 DEF RetrySuperlock, Exhausted
<1>11. ASSUME NEW e \in Editor, GiveUpSuperlock(e) PROVE Covered(o)'
  BY <1>11 DEF GiveUpSuperlock, Exhausted, GoOn, AfterSuperlock
<1>12. ASSUME NEW e \in Editor, Seize(e) PROVE Covered(o)'
  BY <1>12 DEF Seize
<1>13. ASSUME NEW e \in Editor, Change(e) PROVE Covered(o)'
  BY <1>13 DEF Change
<1>14. ASSUME NEW e \in Editor, QuitBeforeChange(e) PROVE Covered(o)'
  BY <1>14 DEF QuitBeforeChange
<1>15. ASSUME NEW e \in Editor, Write(e, FALSE) PROVE Covered(o)'
  BY <1>15 DEF Write, FreshAfterWrite, NearAfterWrite
<1>16. ASSUME NEW e \in Editor, StatFile(e) PROVE Covered(o)'
  BY <1>16 DEF StatFile
<1>17. ASSUME NEW e \in Editor, Visit(e) PROVE Covered(o)'
  BY <1>17 DEF Visit
<1>18. ASSUME NEW e \in Editor, SetUnmodified(e) PROVE Covered(o)'
  BY <1>18 DEF SetUnmodified
<1>19. ASSUME NEW e \in Editor, CheckOwner(e) PROVE Covered(o)'
  BY <1>19 DEF CheckOwner
<1>20. ASSUME NEW e \in Editor, RemoveLock(e) PROVE Covered(o)'
  BY <1>20 DEF RemoveLock
<1>21. ASSUME NEW e \in Editor, RemoveSuperlock(e) PROVE Covered(o)'
  BY <1>21 DEF RemoveSuperlock
<1>22. ASSUME NEW e \in Editor, Die(e) PROVE Covered(o)'
  BY <1>22 DEF Die
<1>23. CASE NobodyLeft
  BY <1>23 DEF NobodyLeft, vars
<1>24. ~WritesFail
  OBVIOUS
<1> HIDE DEF Covered, SerialCalls, Serial, Calm, LooksAtLock,
       Inductive, TypeOK, GoalFits, FileIsOpen, PC, Locking, Unlocking, Attempt, UnderSuperlock,
       Goto, At, locks, local, buffer, asked, Names, Alone
<1>25. ASSUME NEW e \in Editor, Run(e) PROVE Covered(o)'
  BY <1>25, <1>1, <1>2, <1>3, <1>4, <1>5, <1>6, <1>7, <1>8, <1>9, <1>10, <1>11, <1>12, <1>13,
       <1>14, <1>15, <1>16, <1>17, <1>18, <1>19, <1>20, <1>21, <1>22, <1>23, <1>24, Zenon DEF Run
<1>26. ASSUME NEW e \in Editor,
             \/ \E why \in {"modify", "save"} : LockFile(e, why)
             \/ \E answer \in Answers : AskUserAboutLock(e, answer)
             \/ QuitBeforeChange(e)
             \/ WritesFail /\ (Write(e, TRUE) \/ CannotCreate(e))
             \/ Visit(e) \/ SetUnmodified(e)
             \/ Die(e)
      PROVE  Covered(o)'
  BY <1>26, <1>1, <1>2, <1>3, <1>4, <1>5, <1>6, <1>7, <1>8, <1>9, <1>10, <1>11, <1>12, <1>13,
       <1>14, <1>15, <1>16, <1>17, <1>18, <1>19, <1>20, <1>21, <1>22, <1>23, <1>24, Zenon
<1>27. QED
  BY <1>23, <1>25, <1>26 DEF Next

(* Without failing writes too, a modified buffer with no call in progress   *)
(* has its file locked, or a user who went ahead without.                   *)
THEOREM ModifiedFilesAreLocked ==
  ASSUME SerialCalls, ~WritesFail
  PROVE  Spec => []ModifiedIsLocked
<1> DEFINE Cover == \A e \in Editor : Covered(e)
<1>1. Init => Cover
  BY DEF Init, Covered
<1>2. Inductive /\ Serial /\ [Next]_vars => Serial'
  BY StepSerial
<1>3. Inductive /\ Serial /\ Cover /\ [Next]_vars => Cover'
  <2>1. Cover /\ UNCHANGED vars => Cover'
    BY DEF Covered, Names, vars, locks, local, buffer, asked
  <2>2. QED BY <2>1, StepCovered
<1>4. Cover => ModifiedIsLocked
  BY DEF Covered, ModifiedIsLocked, At
<1> HIDE DEF Cover
<1>5. QED
  BY InitInductive, InitSerial, StepInductive, <1>1, <1>2, <1>3, <1>4, PTL DEF Spec

(* When users yield, what a process knows of the visited file stays true    *)
(* while it has the lock.                                                   *)
KnowsFile(e) ==
  /\ ~told[e]
  /\ pc[e] = "stat" => Names(e) /\ based[e]
  /\ fresh[e] => based[e]
  /\ goal[e] = "save" => based[e] \/ warned[e] \/ e \in near

(* Every step leaves them knowing the file.                                 *)
LEMMA StepKnows ==
  ASSUME Answers \subseteq {"yield"}, SerialCalls, ~WritesFail,
         \A e \in Editor : Covered(e), Inductive, Serial, \A e \in Editor : KnowsFile(e), Next
  PROVE  \A e \in Editor : KnowsFile(e)'
<1> SUFFICES ASSUME NEW o \in Editor PROVE KnowsFile(o)'
  OBVIOUS
<1> USE DEF KnowsFile, Covered, SerialCalls, Serial, Calm, LooksAtLock,
       Inductive, TypeOK, GoalFits, FileIsOpen, PC, Locking, Unlocking, Attempt, UnderSuperlock,
       Goto, At, locks, local, buffer, asked, Names, Alone
<1>1. ASSUME NEW e \in Editor, NEW why \in {"modify", "save"}, LockFile(e, why) PROVE KnowsFile(o)'
  BY <1>1 DEF LockFile, Superseded
<1>2. ASSUME NEW e \in Editor, Create(e) PROVE KnowsFile(o)'
  BY <1>2 DEF Create
<1>3. ASSUME NEW e \in Editor, WritePid(e) PROVE KnowsFile(o)'
  BY <1>3 DEF WritePid
<1>4. ASSUME NEW e \in Editor, Look(e) PROVE KnowsFile(o)'
  BY <1>4 DEF Look
<1>5. ASSUME NEW e \in Editor, Read(e) PROVE KnowsFile(o)'
  BY <1>5 DEF Read
<1>6. ASSUME NEW e \in Editor, Judge(e) PROVE KnowsFile(o)'
  BY <1>6 DEF Judge, Mine, Exists
<1>7. ASSUME NEW e \in Editor, UnlinkObsolete(e) PROVE KnowsFile(o)'
  BY <1>7 DEF UnlinkObsolete
<1>8. ASSUME NEW e \in Editor, NEW answer \in Answers, AskUserAboutLock(e, answer) PROVE KnowsFile(o)'
  BY <1>8 DEF AskUserAboutLock
<1>9. ASSUME NEW e \in Editor, TakeSuperlock(e) PROVE KnowsFile(o)'
  BY <1>9 DEF TakeSuperlock, AfterSuperlock
<1>10. ASSUME NEW e \in Editor, RetrySuperlock(e) PROVE KnowsFile(o)'
  BY <1>10 DEF RetrySuperlock, Exhausted
<1>11. ASSUME NEW e \in Editor, GiveUpSuperlock(e) PROVE KnowsFile(o)'
  BY <1>11 DEF GiveUpSuperlock, Exhausted, GoOn, AfterSuperlock
<1>12. ASSUME NEW e \in Editor, Seize(e) PROVE KnowsFile(o)'
  BY <1>12 DEF Seize
<1>13. ASSUME NEW e \in Editor, Change(e) PROVE KnowsFile(o)'
  BY <1>13 DEF Change
<1>14. ASSUME NEW e \in Editor, QuitBeforeChange(e) PROVE KnowsFile(o)'
  BY <1>14 DEF QuitBeforeChange
<1>15. ASSUME NEW e \in Editor, Write(e, FALSE) PROVE KnowsFile(o)'
  BY <1>15 DEF Write, FreshAfterWrite, NearAfterWrite
<1>16. ASSUME NEW e \in Editor, StatFile(e) PROVE KnowsFile(o)'
  BY <1>16 DEF StatFile
<1>17. ASSUME NEW e \in Editor, Visit(e) PROVE KnowsFile(o)'
  BY <1>17 DEF Visit
<1>18. ASSUME NEW e \in Editor, SetUnmodified(e) PROVE KnowsFile(o)'
  BY <1>18 DEF SetUnmodified
<1>19. ASSUME NEW e \in Editor, CheckOwner(e) PROVE KnowsFile(o)'
  BY <1>19 DEF CheckOwner
<1>20. ASSUME NEW e \in Editor, RemoveLock(e) PROVE KnowsFile(o)'
  BY <1>20 DEF RemoveLock
<1>21. ASSUME NEW e \in Editor, RemoveSuperlock(e) PROVE KnowsFile(o)'
  BY <1>21 DEF RemoveSuperlock
<1>22. ASSUME NEW e \in Editor, Die(e) PROVE KnowsFile(o)'
  BY <1>22 DEF Die
<1>23. CASE NobodyLeft
  BY <1>23 DEF NobodyLeft, vars
<1>24. ~WritesFail
  OBVIOUS
<1> HIDE DEF KnowsFile, Covered, SerialCalls, Serial, Calm, LooksAtLock,
       Inductive, TypeOK, GoalFits, FileIsOpen, PC, Locking, Unlocking, Attempt, UnderSuperlock,
       Goto, At, locks, local, buffer, asked, Names, Alone
<1>25. ASSUME NEW e \in Editor, Run(e) PROVE KnowsFile(o)'
  BY <1>25, <1>1, <1>2, <1>3, <1>4, <1>5, <1>6, <1>7, <1>8, <1>9, <1>10, <1>11, <1>12, <1>13,
       <1>14, <1>15, <1>16, <1>17, <1>18, <1>19, <1>20, <1>21, <1>22, <1>23, <1>24, Zenon DEF Run
<1>26. ASSUME NEW e \in Editor,
             \/ \E why \in {"modify", "save"} : LockFile(e, why)
             \/ \E answer \in Answers : AskUserAboutLock(e, answer)
             \/ QuitBeforeChange(e)
             \/ WritesFail /\ (Write(e, TRUE) \/ CannotCreate(e))
             \/ Visit(e) \/ SetUnmodified(e)
             \/ Die(e)
      PROVE  KnowsFile(o)'
  BY <1>26, <1>1, <1>2, <1>3, <1>4, <1>5, <1>6, <1>7, <1>8, <1>9, <1>10, <1>11, <1>12, <1>13,
       <1>14, <1>15, <1>16, <1>17, <1>18, <1>19, <1>20, <1>21, <1>22, <1>23, <1>24, Zenon
<1>27. QED
  BY <1>23, <1>25, <1>26 DEF Next

(* Saving is what takes a process from the return of lock_file to the stat. *)
LEMMA OnlySavingWrites ==
  ASSUME Inductive, Next, NEW e \in Editor, pc[e] = "return", pc'[e] = "stat"
  PROVE  goal[e] = "save"
<1> USE DEF Inductive, TypeOK, Goto, At
<1>1. ASSUME NEW o \in Editor, Run(o) PROVE goal[e] = "save"
  <2>1. CASE Create(o) \/ WritePid(o) \/ Look(o) \/ Read(o)
    BY <2>1 DEF Create, WritePid, Look, Read
  <2>2. CASE Judge(o) \/ UnlinkObsolete(o) \/ Change(o) \/ StatFile(o)
    BY <2>2 DEF Judge, UnlinkObsolete, Change, StatFile
  <2>3. CASE TakeSuperlock(o) \/ RetrySuperlock(o) \/ GiveUpSuperlock(o) \/ Seize(o)
    BY <2>3 DEF TakeSuperlock, RetrySuperlock, GiveUpSuperlock, GoOn, AfterSuperlock, Seize
  <2>4. CASE CheckOwner(o) \/ RemoveLock(o) \/ RemoveSuperlock(o)
    BY <2>4 DEF CheckOwner, RemoveLock, RemoveSuperlock
  <2>5. CASE Write(o, FALSE)
    BY <2>5 DEF Write
  <2>6. QED BY <1>1, <2>1, <2>2, <2>3, <2>4, <2>5 DEF Run
<1>2. ASSUME NEW o \in Editor, NEW why \in {"modify", "save"}, LockFile(o, why) PROVE FALSE
  BY <1>2 DEF LockFile
<1>3. ASSUME NEW o \in Editor, NEW answer \in Answers, AskUserAboutLock(o, answer) PROVE FALSE
  BY <1>3, ChoicesAssumption DEF AskUserAboutLock
<1>4. ASSUME NEW o \in Editor, QuitBeforeChange(o) \/ Visit(o) \/ SetUnmodified(o) \/ Die(o)
      PROVE  FALSE
  BY <1>4 DEF QuitBeforeChange, Visit, SetUnmodified, Die
<1>5. ASSUME NEW o \in Editor, Write(o, TRUE) \/ CannotCreate(o) PROVE goal[e] = "save"
  BY <1>5 DEF Write, CannotCreate
<1>6. ~NobodyLeft
  BY DEF NobodyLeft, vars
<1>7. PICK o \in Editor :
        \/ Run(o)
        \/ \E why \in {"modify", "save"} : LockFile(o, why)
        \/ \E answer \in Answers : AskUserAboutLock(o, answer)
        \/ QuitBeforeChange(o) \/ Visit(o) \/ SetUnmodified(o) \/ Die(o)
        \/ Write(o, TRUE) \/ CannotCreate(o)
  BY <1>6, Zenon DEF Next
<1>8. QED
  BY <1>1, <1>2, <1>3, <1>4, <1>5, <1>7, Zenon

(* When users yield, no process saves over contents its user has neither    *)
(* seen nor been asked about, unless they were written within a second of   *)
(* the modtime its buffer has.                                              *)
THEOREM SavingIsNotBlind ==
  ASSUME SerialCalls, ~WritesFail, Answers \subseteq {"yield"}
  PROVE  Spec => NoBlindOverwrite
<1> DEFINE Cover == \A e \in Editor : Covered(e)
           Know == \A e \in Editor : KnowsFile(e)
<1>1. Init => Cover /\ Know
  BY DEF Init, Covered, KnowsFile
<1>2. Inductive /\ Serial /\ [Next]_vars => Serial'
  BY StepSerial
<1>3. Inductive /\ Serial /\ Cover /\ [Next]_vars => Cover'
  <2>1. Cover /\ UNCHANGED vars => Cover'
    BY DEF Covered, Names, vars, locks, local, buffer, asked
  <2>2. QED BY <2>1, StepCovered
<1>4. Inductive /\ Serial /\ Cover /\ Know /\ [Next]_vars => Know'
  <2>1. Know /\ UNCHANGED vars => Know'
    BY DEF KnowsFile, Names, vars, locks, local, buffer, asked
  <2>2. QED BY <2>1, StepKnows
<1>5. Inductive /\ Know /\ [Next]_vars =>
        \A e \in Editor : pc[e] = "return" /\ pc'[e] = "stat"
          => based[e] \/ warned[e] \/ e \in near
  <2> SUFFICES ASSUME Inductive, Know, Next, NEW e \in Editor, pc[e] = "return", pc'[e] = "stat"
               PROVE  based[e] \/ warned[e] \/ e \in near
    BY DEF vars
  <2>1. QED BY OnlySavingWrites DEF KnowsFile
<1> HIDE DEF Cover, Know
<1>6. QED
  BY InitInductive, InitSerial, StepInductive, <1>1, <1>2, <1>3, <1>4, <1>5, PTL
     DEF Spec, NoBlindOverwrite
=============================================================================
