----------------------------- MODULE FileLock -----------------------------
(***************************************************************************)
(* The clash detection of filelock.c: several Emacs processes visit one    *)
(* file and keep a lock file for it in the lock directory.  The steps are  *)
(* system calls; between any two of them another process may run.          *)
(*                                                                         *)
(* The visited file is abstracted to what the detection is for: whether a  *)
(* buffer's modtime is that of the file as it is (fresh) or that of an     *)
(* earlier one but no more than a second off (near), whether its text      *)
(* takes the file's contents into account (based), and whether its user    *)
(* was told that somebody else works on the file (warned).                 *)
(***************************************************************************)
EXTENDS Naturals

CONSTANTS Editor,      \* the Emacs processes, named by their pids
          Empty,       \* what an empty lock file holds for a pid
          Old,         \* the pid of an Emacs that died in an earlier session
          Inode,       \* the inodes a lock file can have
          Patience,    \* attempts at the superlock; 20 in the code
          Answers,     \* what users may answer to ask-user-about-lock
          Overlap,     \* calls of lock_if_free and unlock_file may overlap
          WritesFail,  \* saving may fail
          SameSecond   \* a write may come within a second of an earlier one

NoFile == 0

ASSUME EditorAssumption == Old \notin Editor /\ Empty \notin Editor \union {Old}
ASSUME BoundsAssumption ==
  /\ Inode \subseteq Nat \ {NoFile} /\ Inode # {}
  /\ \A used \in [Editor -> Inode] : \E i \in Inode : \A e \in Editor : i # used[e]
  /\ Patience \in Nat \ {0}
ASSUME ChoicesAssumption ==
  /\ Answers \subseteq {"steal", "proceed", "yield"}
  /\ Overlap \in BOOLEAN /\ WritesFail \in BOOLEAN /\ SameSecond \in BOOLEAN

VARIABLES dir,        \* the inode of the lock file, or NoFile
          content,    \* content[i]: the pid written in inode i, or Empty
          super,      \* the superlock file exists
          alive,      \* the processes that have not died
          pc,         \* where each process is in the code
          goal,       \* what it locks or unlocks for
          fd,         \* the inode it has open
          clasher,    \* the pid it read in the lock file
          tries,      \* its failed attempts at the superlock
          dirty,      \* its buffer is modified: save_modified < MODIFF
          fresh,      \* the buffer's modtime is that of the last write
          near,       \* those whose modtime is not, but is at most a second off
          based,      \* the buffer's text takes the file's contents into account
          warned,     \* its user went ahead after a question about the file
          told,       \* its user chose to modify the buffer without the lock
          interrupted \* those whose change was quit after locking

locks  == <<dir, content, super>>
buffer == <<dirty, fresh, near, based, interrupted>>
asked  == <<warned, told>>
local  == <<goal, fd, clasher, tries>>
vars   == <<locks, alive, pc, local, buffer, asked>>

(* The program counters inside lock_if_free, and under the superlock. *)
Attempt == {"create", "write", "look", "read", "judge", "unlink"}
UnderSuperlock == {"superlock", "seize", "overwrite", "owner", "remove", "unsuper"}
PC == {"idle", "return", "ask", "stat", "dead"} \union Attempt \union UnderSuperlock
Goal == {"none", "modify", "save", "saved", "failed", "visit", "unmodify"}

TypeOK ==
  /\ dir \in Inode \union {NoFile}
  /\ content \in [Inode -> Editor \union {Old, Empty}]
  /\ super \in BOOLEAN
  /\ alive \subseteq Editor /\ interrupted \subseteq Editor /\ near \subseteq Editor
  /\ pc \in [Editor -> PC]
  /\ goal \in [Editor -> Goal]
  /\ fd \in [Editor -> Inode \union {NoFile}]
  /\ clasher \in [Editor -> Editor \union {Old, Empty}]
  /\ tries \in [Editor -> 0 .. Patience]
  /\ dirty \in [Editor -> BOOLEAN] /\ fresh \in [Editor -> BOOLEAN]
  /\ based \in [Editor -> BOOLEAN] /\ warned \in [Editor -> BOOLEAN]
  /\ told \in [Editor -> BOOLEAN]

(* Both kinds of leftover of a dead Emacs may be there from the start. *)
Init ==
  /\ \/ dir = NoFile /\ content = [i \in Inode |-> Empty]
     \/ \E i \in Inode : dir = i /\ content = [j \in Inode |-> IF j = i THEN Old ELSE Empty]
  /\ super \in BOOLEAN
  /\ alive = Editor /\ interrupted = {} /\ near = {}
  /\ pc = [e \in Editor |-> "idle"]
  /\ goal = [e \in Editor |-> "none"]
  /\ fd = [e \in Editor |-> NoFile]
  /\ clasher = [e \in Editor |-> Empty]
  /\ tries = [e \in Editor |-> 0]
  /\ dirty = [e \in Editor |-> FALSE] /\ fresh = [e \in Editor |-> TRUE]
  /\ based = [e \in Editor |-> TRUE] /\ warned = [e \in Editor |-> FALSE]
  /\ told = [e \in Editor |-> FALSE]

At(e, place) == e \in alive /\ pc[e] = place
Goto(e, place) == pc' = [pc EXCEPT ![e] = place]
Names(e) == dir # NoFile /\ content[dir] = e

(* The moment e enters one of the two calls. *)
Alone(e) == Overlap \/ \A o \in Editor \ {e} : pc[o] \notin Attempt \union UnderSuperlock

(***************************************************************************)
(* lock_file, called by prepare_to_modify_buffer for the first change of   *)
(* an unmodified buffer and by write-region.                               *)
(***************************************************************************)

(* Mutant of Superseded: the modtime is not looked at. *)
SupersededNever(e) == FALSE

(* verify-visited-file-modtime accepts one second more or less.            *)
Superseded(e) == ~fresh[e] /\ e \notin near

(* A user who does not go ahead after the question leaves the state alone. *)
(* A new decision to edit without the lock is for an unmodified buffer.    *)
LockFile(e, why) ==
  /\ At(e, "idle")
  /\ dirty[e] = (why = "save")
  /\ Alone(e)
  /\ goal' = [goal EXCEPT ![e] = why]
  /\ warned' = [warned EXCEPT ![e] = @ \/ Superseded(e)]
  /\ told' = [told EXCEPT ![e] = @ /\ why = "save"]
  /\ Goto(e, "create")
  /\ UNCHANGED <<locks, alive, fd, clasher, tries, buffer>>

Unused(i) == i # dir /\ \A e \in Editor : fd[e] # i

(* open (lfname, O_WRONLY | O_EXCL | O_CREAT); EEXIST when there is one. *)
Create(e) ==
  /\ At(e, "create")
  /\ IF dir = NoFile
     THEN LET new == CHOOSE i \in Inode : Unused(i)
          IN /\ dir' = new
             /\ content' = [content EXCEPT ![new] = Empty]
             /\ fd' = [fd EXCEPT ![e] = new]
             /\ Goto(e, "write")
     ELSE UNCHANGED <<dir, content, fd>> /\ Goto(e, "look")
  /\ UNCHANGED <<super, alive, goal, clasher, tries, buffer, asked>>

WritePid(e) ==
  /\ pc[e] \in {"write", "overwrite"} /\ e \in alive
  /\ content' = [content EXCEPT ![fd[e]] = e]
  /\ fd' = [fd EXCEPT ![e] = NoFile]
  /\ Goto(e, IF pc[e] = "write" THEN "return" ELSE "unsuper")
  /\ UNCHANGED <<dir, super, alive, goal, clasher, tries, buffer, asked>>

(* current_lock_owner_1: open for reading, then read. *)
Look(e) ==
  /\ At(e, "look")
  /\ fd' = [fd EXCEPT ![e] = dir]
  /\ Goto(e, IF dir = NoFile THEN "create" ELSE "read")
  /\ UNCHANGED <<locks, alive, goal, clasher, tries, buffer, asked>>

Read(e) ==
  /\ At(e, "read")
  /\ clasher' = [clasher EXCEPT ![e] = content[fd[e]]]
  /\ fd' = [fd EXCEPT ![e] = NoFile]
  /\ Goto(e, "judge")
  /\ UNCHANGED <<locks, alive, goal, tries, buffer, asked>>

(* Mutants of Exists: kill fails for every pid; for none. *)
ExistsNever(pid) == FALSE
ExistsAlways(pid) == TRUE

(* kill (owner, 0) *)
Exists(pid) == pid \in alive

(* Mutant of Mine: any owner will do. *)
MineAnyway(e) == clasher[e] # Empty

Mine(e) == clasher[e] = e

(* current_lock_owner, and what lock_if_free makes of it. *)
Judge(e) ==
  /\ At(e, "judge")
  /\ Goto(e, IF Mine(e) THEN "return"
             ELSE IF Exists(clasher[e]) THEN "ask" ELSE "unlink")
  /\ clasher' = [clasher EXCEPT ![e] = Empty]
  /\ UNCHANGED <<locks, alive, goal, fd, tries, buffer, asked>>

(* An unlink that fails makes lock_file return without the lock. *)
UnlinkObsolete(e) ==
  /\ At(e, "unlink")
  /\ dir' = NoFile
  /\ Goto(e, IF dir = NoFile THEN "return" ELSE "create")
  /\ UNCHANGED <<content, super, alive, local, buffer, asked>>

(* ask-user-about-lock; yielding signals an error out of lock_file. *)
AskUserAboutLock(e, answer) ==
  /\ At(e, "ask") /\ (answer = "steal" => Alone(e))
  /\ goal' = [goal EXCEPT ![e] = IF answer = "yield" THEN "none" ELSE @]
  /\ warned' = [warned EXCEPT ![e] = @ \/ answer # "yield"]
  /\ told' = [told EXCEPT ![e] = answer = "proceed" \/ (answer = "yield" /\ @)]
  /\ Goto(e, CASE answer = "yield" -> "idle"
               [] answer = "proceed" -> "return"
               [] answer = "steal" -> "superlock")
  /\ UNCHANGED <<locks, alive, fd, clasher, tries, buffer>>

(***************************************************************************)
(* lock_superlock, for a theft and for unlock_file.                        *)
(***************************************************************************)
AfterSuperlock(e) == IF goal[e] \in {"modify", "save"} THEN "seize" ELSE "owner"

Exhausted(e) == tries[e] = Patience

TakeSuperlock(e) ==
  /\ At(e, "superlock") /\ ~super
  /\ super' = TRUE
  /\ tries' = [tries EXCEPT ![e] = 0]
  /\ Goto(e, AfterSuperlock(e))
  /\ UNCHANGED <<dir, content, alive, goal, fd, clasher, buffer, asked>>

RetrySuperlock(e) ==
  /\ At(e, "superlock") /\ super /\ ~Exhausted(e)
  /\ tries' = [tries EXCEPT ![e] = @ + 1]
  /\ UNCHANGED <<locks, alive, pc, goal, fd, clasher, buffer, asked>>

(* Mutants of GoOn: give up unlocking; never stop trying. *)
GoOnWithout(e) == Goto(e, "unsuper")
GoOnNever(e) == FALSE /\ Goto(e, "superlock")

(* After the last attempt the caller goes on as if it had the superlock. *)
GoOn(e) == Goto(e, AfterSuperlock(e))

GiveUpSuperlock(e) ==
  /\ At(e, "superlock") /\ super /\ Exhausted(e)
  /\ tries' = [tries EXCEPT ![e] = 0]
  /\ GoOn(e)
  /\ UNCHANGED <<locks, alive, goal, fd, clasher, buffer, asked>>

(* lock_file_1 (lfname, O_WRONLY): does nothing when the lock has gone. *)
Seize(e) ==
  /\ At(e, "seize")
  /\ fd' = [fd EXCEPT ![e] = dir]
  /\ Goto(e, IF dir = NoFile THEN "unsuper" ELSE "overwrite")
  /\ UNCHANGED <<locks, alive, goal, clasher, tries, buffer, asked>>

(***************************************************************************)
(* What lock_file was called for.                                          *)
(***************************************************************************)
Change(e) ==
  /\ At(e, "return") /\ goal[e] = "modify"
  /\ Goto(e, "idle")
  /\ dirty' = [dirty EXCEPT ![e] = TRUE]
  /\ goal' = [goal EXCEPT ![e] = "none"]
  /\ interrupted' = interrupted \ {e}
  /\ UNCHANGED <<locks, alive, fd, clasher, tries, fresh, near, based, asked>>

(* C-g while the gap moves: the buffer stays unmodified and locked. *)
QuitBeforeChange(e) ==
  /\ At(e, "return") /\ goal[e] = "modify"
  /\ Goto(e, "idle")
  /\ goal' = [goal EXCEPT ![e] = "none"]
  /\ interrupted' = interrupted \union {e}
  /\ UNCHANGED <<locks, alive, fd, clasher, tries, dirty, fresh, near, based, asked>>

(* A write gives the file a modtime that no buffer has yet. *)
FreshAfterWrite(e) == [o \in Editor |-> FALSE]

(* The modtime of a write is whole seconds, so it may differ by no more    *)
(* than one from those that buffers have: from all that had the last one,  *)
(* and from any that were near, or from none of either.                    *)
NearAfterWrite(e) ==
  {{}} \union { { o \in Editor \ {e} : fresh[o] } \union n :
                 n \in IF SameSecond THEN SUBSET (near \ {e}) ELSE {} }

(* creat, write and close of write-region, with or without an error. *)
Write(e, failed) ==
  /\ At(e, "return") /\ goal[e] = "save"
  /\ goal' = [goal EXCEPT ![e] = IF failed THEN "failed" ELSE "saved"]
  /\ fresh' = FreshAfterWrite(e)
  /\ near' \in NearAfterWrite(e)
  /\ based' = [o \in Editor |-> o = e]
  /\ Goto(e, "stat")
  /\ UNCHANGED <<locks, alive, fd, clasher, tries, dirty, interrupted, asked>>

(* The creat of write-region fails: unlock, and signal the error. *)
CannotCreate(e) ==
  /\ At(e, "return") /\ goal[e] = "save" /\ Alone(e)
  /\ goal' = [goal EXCEPT ![e] = "failed"]
  /\ Goto(e, "superlock")
  /\ UNCHANGED <<locks, alive, fd, clasher, tries, buffer, asked>>

(* stat after close; the result becomes the modtime of the buffer. *)
StatFile(e) ==
  /\ At(e, "stat") /\ Alone(e)
  /\ fresh' = [fresh EXCEPT ![e] = TRUE]
  /\ near' = near \ {e}
  /\ Goto(e, "superlock")
  /\ UNCHANGED <<locks, alive, local, dirty, based, interrupted, asked>>

(***************************************************************************)
(* unlock_file, called by write-region, insert-file-contents when it       *)
(* visits, and set-buffer-modified-p.                                      *)
(***************************************************************************)
Visit(e) ==
  /\ At(e, "idle") /\ Alone(e) /\ (dirty[e] \/ ~fresh[e] \/ e \in interrupted)
  /\ goal' = [goal EXCEPT ![e] = "visit"]
  /\ dirty' = [dirty EXCEPT ![e] = FALSE]
  /\ fresh' = [fresh EXCEPT ![e] = TRUE]
  /\ near' = near \ {e}
  /\ based' = [based EXCEPT ![e] = TRUE]
  /\ warned' = [warned EXCEPT ![e] = FALSE]
  /\ Goto(e, "superlock")
  /\ UNCHANGED <<locks, alive, fd, clasher, tries, interrupted, told>>

SetUnmodified(e) ==
  /\ At(e, "idle") /\ Alone(e) /\ dirty[e]
  /\ goal' = [goal EXCEPT ![e] = "unmodify"]
  /\ Goto(e, "superlock")
  /\ UNCHANGED <<locks, alive, fd, clasher, tries, buffer, asked>>

(* current_lock_owner_1 (lfname) == getpid () *)
CheckOwner(e) ==
  /\ At(e, "owner")
  /\ Goto(e, IF Names(e) THEN "remove" ELSE "unsuper")
  /\ UNCHANGED <<locks, alive, local, buffer, asked>>

RemoveLock(e) ==
  /\ At(e, "remove")
  /\ dir' = NoFile
  /\ Goto(e, "unsuper")
  /\ UNCHANGED <<content, super, alive, local, buffer, asked>>

(* unlink (PATH_SUPERLOCK), and the return from unlock_file or lock_file. *)
RemoveSuperlock(e) ==
  /\ At(e, "unsuper")
  /\ super' = FALSE
  /\ IF goal[e] \in {"modify", "save"}
     THEN Goto(e, "return") /\ UNCHANGED <<goal, buffer, asked>>
     ELSE /\ Goto(e, "idle")
          /\ goal' = [goal EXCEPT ![e] = "none"]
          /\ dirty' = [dirty EXCEPT ![e] = goal[e] = "failed"]
          /\ warned' = [warned EXCEPT ![e] = @ /\ goal[e] # "saved"]
          /\ told' = [told EXCEPT ![e] = @ /\ goal[e] = "failed"]
          /\ interrupted' = interrupted \ {e}
          /\ UNCHANGED <<fresh, near, based>>
  /\ UNCHANGED <<dir, content, alive, fd, clasher, tries>>

(* Exit or crash at any point: the process's memory goes, its files stay.   *)
Die(e) ==
  /\ e \in alive
  /\ alive' = alive \ {e}
  /\ Goto(e, "dead")
  /\ goal' = [goal EXCEPT ![e] = "none"]
  /\ fd' = [fd EXCEPT ![e] = NoFile]
  /\ clasher' = [clasher EXCEPT ![e] = Empty]
  /\ tries' = [tries EXCEPT ![e] = 0]
  /\ dirty' = [dirty EXCEPT ![e] = FALSE] /\ fresh' = [fresh EXCEPT ![e] = FALSE]
  /\ based' = [based EXCEPT ![e] = FALSE] /\ warned' = [warned EXCEPT ![e] = FALSE]
  /\ told' = [told EXCEPT ![e] = FALSE]
  /\ interrupted' = interrupted \ {e} /\ near' = near \ {e}
  /\ UNCHANGED locks

(* The steps a running Emacs takes by itself. *)
Run(e) ==
  \/ Create(e) \/ WritePid(e) \/ Look(e) \/ Read(e) \/ Judge(e) \/ UnlinkObsolete(e)
  \/ TakeSuperlock(e) \/ RetrySuperlock(e) \/ GiveUpSuperlock(e) \/ Seize(e)
  \/ Change(e) \/ StatFile(e) \/ Write(e, FALSE)
  \/ CheckOwner(e) \/ RemoveLock(e) \/ RemoveSuperlock(e)

NobodyLeft == alive = {} /\ UNCHANGED vars

Next ==
  \/ NobodyLeft
  \/ \E e \in Editor :
    \/ Run(e)
    \/ \E why \in {"modify", "save"} : LockFile(e, why)
    \/ \E answer \in Answers : AskUserAboutLock(e, answer)
    \/ QuitBeforeChange(e)
    \/ WritesFail /\ (Write(e, TRUE) \/ CannotCreate(e))
    \/ Visit(e) \/ SetUnmodified(e)
    \/ Die(e)

Spec == Init /\ [][Next]_vars

(* An Emacs that is not waiting for its user does not stop by itself. *)
FairSpec == Spec /\ \A e \in Editor : WF_vars(Run(e))

-----------------------------------------------------------------------------
(* When lock_file returns, the lock is locked for us, or the user has said  *)
(* to go ahead without locking (the comment on lock_file).                  *)
LockedOrTold ==
  [][\A e \in Editor : pc[e] # "return" /\ pc'[e] = "return" => Names(e)' \/ told'[e]]_vars

(* A buffer that is modified, with no call in progress, has its file locked *)
(* or a user who decided to go ahead without: later changes do not lock.    *)
ModifiedIsLocked ==
  \A e \in Editor : At(e, "idle") /\ dirty[e] => Names(e) \/ told[e]

(* Saving overwrites contents that the user has neither seen nor been asked *)
(* about only where verify-visited-file-modtime cannot tell them from those *)
(* of the buffer, because they were written within a second of its modtime. *)
NoBlindOverwrite ==
  [][\A e \in Editor : pc[e] = "return" /\ pc'[e] = "stat"
       => based[e] \/ warned[e] \/ e \in near]_vars

(* The same without that exception: "the file has not been changed since it *)
(* was visited or saved" (the doc string of verify-visited-file-modtime).   *)
NoBlindOverwriteEver ==
  [][\A e \in Editor : pc[e] = "return" /\ pc'[e] = "stat" => based[e] \/ warned[e]]_vars

(* However the processes interleave, steal and fail, the lock file names no *)
(* living process that finished with the file: unlock_file leaves no lock   *)
(* behind, unless a quit came between the lock and the change.              *)
NoLockLeftBehind ==
  \A e \in Editor : At(e, "idle") /\ Names(e) => dirty[e] \/ e \in interrupted

(* Unlocking and stealing end even when a dead process left the superlock.  *)
SuperlockCallsEnd == \A e \in Editor : pc[e] \in UnderSuperlock ~> pc[e] \in {"idle", "return", "dead"}

(* Once all others have died, a change that is wanted gets the lock, and no *)
(* question is asked about a dead owner.                                    *)
DeadLocksYield ==
  \A e \in Editor : pc[e] \in Attempt /\ alive = {e} ~> pc[e] = "dead" \/ At(e, "return")
=============================================================================
