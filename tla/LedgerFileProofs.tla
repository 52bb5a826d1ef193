-------------------------- MODULE LedgerFileProofs --------------------------
(***************************************************************************)
(* Theorems about LedgerFile, for any number of processes and writes: the   *)
(* types, mutual exclusion and the writes kept while the lock excludes, and  *)
(* that the file implements LedgerStore.                                    *)
(***************************************************************************)
EXTENDS LedgerFile, TLAPS

USE DEF None

\* A step that only takes a process to another place.
LEMMA GotoMoves ==
    ASSUME TypeOK, NEW p \in Procs, NEW pc \in Place, Goto(p, pc),
           pc \in {"lock", "write", "written"} => proc[p].lock # None,
           pc \in {"idle", "unlink file", "unlink lock"} => proc[p].lock = None
    PROVE  /\ proc' \in [Procs -> Process]
           /\ \A q \in Procs : InPlace(proc'[q])
           /\ proc'[p].pc = pc /\ proc'[p].lock = proc[p].lock
           /\ proc'[p].doc = proc[p].doc /\ proc'[p].write = proc[p].write
           /\ \A q \in Procs : q # p => proc'[q] = proc[q]
<1> DEFINE moved == [proc[p] EXCEPT !.pc = pc]
<1>1. proc[p] \in Process /\ InPlace(proc[p])
    BY DEF TypeOK
<1>2. proc' = [proc EXCEPT ![p] = moved]
    BY DEF Goto
<1>3. /\ moved \in Process
      /\ moved.pc = pc /\ moved.lock = proc[p].lock
      /\ moved.doc = proc[p].doc /\ moved.write = proc[p].write
    BY <1>1 DEF Process
<1> HIDE DEF moved
<1>4. InPlace(moved)
    BY <1>1, <1>3 DEF InPlace
<1>5. /\ proc' \in [Procs -> Process]
      /\ proc'[p] = moved
      /\ \A q \in Procs : q # p => proc'[q] = proc[q]
    BY <1>2, <1>3 DEF TypeOK
<1>6. \A q \in Procs : InPlace(proc'[q])
    BY <1>4, <1>5 DEF TypeOK
<1> QED
    BY <1>3, <1>5, <1>6

\* A step that gives a process another record.
LEMMA Becomes ==
    ASSUME TypeOK, NEW p \in Procs, NEW r \in Process, InPlace(r),
           proc' = [proc EXCEPT ![p] = r]
    PROVE  /\ proc' \in [Procs -> Process]
           /\ \A q \in Procs : InPlace(proc'[q])
           /\ proc'[p] = r
           /\ \A q \in Procs : q # p => proc'[q] = proc[q]
BY DEF TypeOK

\* A read that succeeds.
LEMMA ReadReads ==
    ASSUME TypeOK, NEW p \in Procs, Read(p)
    PROVE  /\ proc' \in [Procs -> Process]
           /\ \A q \in Procs : InPlace(proc'[q])
           /\ proc'[p].pc = AfterRead(p) /\ proc'[p].lock = proc[p].lock
           /\ Open(p) => proc'[p].doc = Content
           /\ \A q \in Procs : q # p => proc'[q] = proc[q]
<1> DEFINE text == IF Open(p) THEN Content ELSE {}
           r == [proc[p] EXCEPT !.pc = AfterRead(p), !.doc = text]
<1>1. proc[p] \in Process /\ InPlace(proc[p])
    BY DEF TypeOK
<1>2. proc' = [proc EXCEPT ![p] = r]
    BY DEF Read
<1>3. text \in SUBSET Writes /\ AfterRead(p) \in Place
    BY DEF Content, TypeOK, File, AfterRead, Place
<1>4. Open(p) => text = Content
    OBVIOUS
<1> HIDE DEF text
<1>5. /\ r \in Process
      /\ r.pc = AfterRead(p) /\ r.lock = proc[p].lock /\ r.doc = text
      /\ r.write = proc[p].write
    BY <1>1, <1>3 DEF Process
<1> HIDE DEF r
<1>6. InPlace(r)
    BY <1>1, <1>5 DEF InPlace, AfterRead, Open
<1> QED
    BY <1>2, <1>4, <1>5, <1>6, Becomes

LEMMA IdleIsProcess == Idle \in Process /\ InPlace(Idle)
BY DEF Idle, Process, Place, InPlace

LEMMA InitTypes == Init => TypeOK
<1> SUFFICES ASSUME Init PROVE TypeOK
    OBVIOUS
<1>1. proc \in [Procs -> Process] /\ \A p \in Procs : InPlace(proc[p])
    BY IdleIsProcess DEF Init
<1>2. file \in File /\ next \in 1..(MaxWrites + 1)
    BY FileAssumption DEF Init, NoFile, File
<1> QED
    BY <1>1, <1>2 DEF Init, TypeOK

\* Each kind of step keeps the types.
LEMMA StepTypes == TypeOK /\ [Next]_vars => TypeOK'
<1> SUFFICES ASSUME TypeOK, [Next]_vars PROVE TypeOK'
    OBVIOUS
<1> NoFile \in File /\ Content \in SUBSET Writes /\ next \in Nat /\ MaxWrites \in Nat
    BY FileAssumption DEF NoFile, File, Content, TypeOK, Writes
<1>0. \A p \in Procs : proc[p] \in Process /\ InPlace(proc[p])
    BY DEF TypeOK
<1>1. ASSUME NEW p \in Procs, StartWrite(p) PROVE TypeOK'
  <2> DEFINE lock == IF lockFile = None THEN next ELSE lockFile
             r == [Idle EXCEPT !.pc = "lock", !.lock = lock, !.write = next]
  <2>1. next \in Writes /\ next # None /\ lock \in Writes /\ lockFile' = lock
    BY <1>1 DEF StartWrite, Writes, TypeOK
  <2> HIDE DEF lock
  <2>2. r \in Process /\ InPlace(r)
    <3>1. r.pc = "lock" /\ r.lock = lock /\ r.write = next
      BY DEF Idle
    <3>2. r \in Process
      BY <2>1 DEF Process, Place, Idle
    <3>3. lock # None
      BY <2>1 DEF Writes
    <3> QED
      BY <2>1, <3>1, <3>2, <3>3 DEF InPlace
  <2>3. proc' = [proc EXCEPT ![p] = r]
    BY <1>1 DEF StartWrite, lock
  <2> HIDE DEF r
  <2>4. proc' \in [Procs -> Process] /\ \A q \in Procs : InPlace(proc'[q])
    BY <2>2, <2>3, Becomes
  <2> QED
    BY <1>1, <2>1, <2>4 DEF StartWrite, TypeOK, Writes
<1>2. ASSUME NEW p \in Procs, StartRead(p) PROVE TypeOK'
    BY <1>0, <1>2, GotoMoves, "read" \in Place DEF StartRead, TypeOK, Place
<1>3. ASSUME NEW p \in Procs, Lock(p) PROVE TypeOK'
    BY <1>0, <1>3, GotoMoves DEF Lock, TypeOK, Place
<1>4. ASSUME NEW p \in Procs, Read(p) PROVE TypeOK'
  <2>1. proc' \in [Procs -> Process] /\ \A q \in Procs : InPlace(proc'[q])
    BY <1>4, ReadReads
  <2> QED
    BY <1>4, <2>1 DEF Read, TypeOK
<1>5. ASSUME NEW p \in Procs, ReadFails(p) PROVE TypeOK'
    BY <1>0, <1>5, GotoMoves DEF ReadFails, TypeOK, Place
<1>6. ASSUME NEW p \in Procs, SetAside(p) PROVE TypeOK'
  <2>1. /\ AfterRead(p) \in Place
        /\ AfterRead(p) = "write" <=> proc[p].lock # None
        /\ AfterRead(p) \in {"write", "idle"}
    BY DEF AfterRead, Place, Open
  <2>2. proc' \in [Procs -> Process] /\ \A q \in Procs : InPlace(proc'[q])
    BY <1>6, <2>1, GotoMoves DEF SetAside
  <2> QED
    BY <1>6, <2>2 DEF SetAside, TypeOK
<1>7. ASSUME NEW p \in Procs, Write(p) PROVE TypeOK'
  <2>1. proc[p].lock # None /\ proc[p].write \in Writes /\ proc[p].doc \subseteq Writes
    BY <1>0, <1>7 DEF Write, InPlace, Process
  <2>2. proc' \in [Procs -> Process] /\ \A q \in Procs : InPlace(proc'[q])
    BY <1>7, <2>1, GotoMoves DEF Write, Place
  <2>3. file' \in File
    BY <1>7, <2>1 DEF Write, File
  <2> QED
    BY <1>7, <2>1, <2>2, <2>3 DEF Write, TypeOK
<1>8. ASSUME NEW p \in Procs, WriteFails(p) PROVE TypeOK'
    BY <1>8, IdleIsProcess, Becomes DEF WriteFails, TypeOK
<1>9. ASSUME NEW p \in Procs, Unlock(p) PROVE TypeOK'
    BY <1>9, IdleIsProcess, Becomes DEF Unlock, TypeOK
<1>10. ASSUME NEW p \in Procs, FindOldFile(p) PROVE TypeOK'
    BY <1>0, <1>10, GotoMoves DEF FindOldFile, TypeOK, Place, InPlace
<1>11. ASSUME NEW p \in Procs, FindOldLock(p) PROVE TypeOK'
    BY <1>0, <1>11, GotoMoves DEF FindOldLock, TypeOK, Place, InPlace
<1>12. ASSUME NEW p \in Procs, UnlinkFile(p) PROVE TypeOK'
    BY <1>0, <1>12, GotoMoves DEF UnlinkFile, TypeOK, Place, InPlace
<1>13. ASSUME NEW p \in Procs, UnlinkLock(p) PROVE TypeOK'
    BY <1>0, <1>13, GotoMoves DEF UnlinkLock, TypeOK, Place, InPlace
<1>14. ASSUME NEW p \in Procs, Crash(p) PROVE TypeOK'
    BY <1>14, IdleIsProcess, Becomes DEF Crash, TypeOK
<1>15. ASSUME Damage PROVE TypeOK'
    BY <1>15 DEF Damage, TypeOK, File
<1>16. ASSUME FileAges PROVE TypeOK'
    BY <1>16 DEF FileAges, TypeOK, File
<1>17. ASSUME LockAges PROVE TypeOK'
    BY <1>17 DEF LockAges, TypeOK
<1>18. ASSUME UNCHANGED vars PROVE TypeOK'
    BY <1>18 DEF vars, TypeOK
<1> QED
    BY <1>1, <1>2, <1>3, <1>4, <1>5, <1>6, <1>7, <1>8, <1>9, <1>10, <1>11, <1>12, <1>13,
       <1>14, <1>15, <1>16, <1>17, <1>18
    DEF Next, Step

\* The types of LedgerFile hold throughout.
THEOREM FileTypeCorrect == Spec => []TypeOK
<1>1. Init => TypeOK
    BY InitTypes
<1>2. TypeOK /\ [Next]_vars => TypeOK'
    BY StepTypes
<1> QED
    BY <1>1, <1>2, PTL DEF Spec

-----------------------------------------------------------------------------
(* The writes that are kept.  KeptWrites alone is not inductive: a write     *)
(* keeps what its process read, so nobody may have written since.           *)

IInv == TypeOK /\ OneHolder /\ WritersKnow /\ KeptWrites

\* A step that adds nothing to the ledger, and by which one process at most
\* goes on, without coming into the lock.
LEMMA Quiet ==
    ASSUME IInv, NEW p \in Procs,
           \A q \in Procs : q # p => proc'[q] = proc[q],
           oneLock' = oneLock, lockFile' = lockFile,
           proc'[p].lock \in {proc[p].lock, None},
           proc'[p].lock # None /\ proc'[p].pc # "lock" => Holds(p),
           Content' \subseteq Content,
           (kept' = kept /\ Content' = Content) \/ kept' = {},
           proc'[p].pc = "write" => Content' \subseteq proc'[p].doc
    PROVE  OneHolder' /\ WritersKnow' /\ KeptWrites'
<1>1. OneHolder'
    BY DEF IInv, OneHolder, Holds, Open
<1>2. WritersKnow'
  <2> SUFFICES ASSUME oneLock, NEW q \in Procs
               PROVE  /\ proc'[q].lock # None => proc'[q].lock = lockFile
                      /\ proc'[q].pc = "write" => Content' \subseteq proc'[q].doc
      BY DEF WritersKnow, Open
  <2>1. CASE q = p
      BY <2>1 DEF IInv, WritersKnow, Open
  <2>2. CASE q # p
      BY <2>2 DEF IInv, WritersKnow, Open
  <2> QED
      BY <2>1, <2>2
<1>3. KeptWrites'
    BY DEF IInv, KeptWrites
<1> QED
    BY <1>1, <1>2, <1>3

\* A step that leaves the processes where they are.
LEMMA Outside ==
    ASSUME IInv, UNCHANGED <<proc, oneLock, lockFile>>,
           Content' \subseteq Content,
           (kept' = kept /\ Content' = Content) \/ kept' = {}
    PROVE  OneHolder' /\ WritersKnow' /\ KeptWrites'
BY DEF IInv, OneHolder, WritersKnow, KeptWrites, Holds, Open

LEMMA InitKept == Init => OneHolder /\ WritersKnow /\ KeptWrites
BY DEF Init, OneHolder, WritersKnow, KeptWrites, Idle, Open, Holds, NoFile, Content

LEMMA StepKept == IInv /\ [Next]_vars => OneHolder' /\ WritersKnow' /\ KeptWrites'
<1> SUFFICES ASSUME IInv, [Next]_vars PROVE OneHolder' /\ WritersKnow' /\ KeptWrites'
    OBVIOUS
<1> DEFINE Goal == OneHolder' /\ WritersKnow' /\ KeptWrites'
<1> HIDE DEF Goal
<1>a. TypeOK /\ \A p \in Procs : proc[p] \in Process /\ InPlace(proc[p])
    BY DEF IInv, TypeOK
<1>b. UNCHANGED file => Content' = Content
    BY DEF Content
<1>c. file' = NoFile => Content' = {}
    BY DEF Content, NoFile
<1>1. ASSUME NEW p \in Procs, StartWrite(p) PROVE Goal
  <2>1. PICK r \in Process : /\ proc'[p] = r /\ r.pc = "lock" /\ r.lock = lockFile'
                             /\ \A q \in Procs : q # p => proc'[q] = proc[q]
    <3> DEFINE lock == IF lockFile = None THEN next ELSE lockFile
               r == [Idle EXCEPT !.pc = "lock", !.lock = lock, !.write = next]
    <3>1. lock \in Writes /\ next \in Writes
      BY <1>1, <1>a DEF StartWrite, Writes, TypeOK
    <3> HIDE DEF lock
    <3>2. r.pc = "lock" /\ r.lock = lock
      BY DEF Idle
    <3>3. r \in Process
      BY <3>1 DEF Process, Place, Idle
    <3>4. proc' = [proc EXCEPT ![p] = r] /\ lockFile' = lock
      BY <1>1 DEF StartWrite, lock
    <3> HIDE DEF r
    <3> QED
      BY <1>a, <3>2, <3>3, <3>4 DEF TypeOK
  <2>2. oneLock' = oneLock /\ kept' = kept /\ Content' = Content
    BY <1>1, <1>b DEF StartWrite
  <2>3. \A q \in Procs : oneLock /\ Open(q) => lockFile' = lockFile
    BY <1>1 DEF StartWrite, IInv, WritersKnow, Open
  <2>4. OneHolder'
    BY <2>1, <2>2 DEF IInv, OneHolder, Holds, Open
  <2>5. WritersKnow'
    BY <2>1, <2>2, <2>3 DEF IInv, WritersKnow, Open
  <2>6. KeptWrites'
    BY <2>2 DEF IInv, KeptWrites
  <2> QED
    BY <2>4, <2>5, <2>6 DEF Goal
<1>2. ASSUME NEW p \in Procs, StartRead(p) PROVE Goal
  <2>1. /\ \A q \in Procs : q # p => proc'[q] = proc[q]
        /\ proc'[p].pc = "read" /\ proc'[p].lock = proc[p].lock /\ proc[p].lock = None
    BY <1>2, <1>a, GotoMoves DEF StartRead, Place, InPlace
  <2> QED
    BY <1>2, <1>b, <2>1, Quiet DEF StartRead, Goal
<1>3. ASSUME NEW p \in Procs, Lock(p) PROVE Goal
  <2>1. /\ \A q \in Procs : q # p => proc'[q] = proc[q]
        /\ proc'[p].pc = "read" /\ proc'[p].lock = proc[p].lock /\ proc[p].lock # None
    BY <1>3, <1>a, GotoMoves DEF Lock, Place, InPlace
  <2>2. oneLock => \A q \in Procs : ~Holds(q)
    BY <1>3, <2>1 DEF Lock, Holds, IInv, WritersKnow, Open
  <2>3. oneLock' = oneLock /\ kept' = kept /\ Content' = Content /\ lockFile' = lockFile
    BY <1>3, <1>b DEF Lock
  <2>4. OneHolder'
    BY <2>1, <2>2, <2>3 DEF OneHolder, Holds, Open
  <2>5. WritersKnow'
    BY <2>1, <2>3 DEF IInv, WritersKnow, Open
  <2>6. KeptWrites'
    BY <2>3 DEF IInv, KeptWrites
  <2> QED
    BY <2>4, <2>5, <2>6 DEF Goal
<1>4. ASSUME NEW p \in Procs, Read(p) PROVE Goal
  <2>1. /\ \A q \in Procs : q # p => proc'[q] = proc[q]
        /\ proc'[p].pc = AfterRead(p) /\ proc'[p].lock = proc[p].lock
        /\ Open(p) => proc'[p].doc = Content
    BY <1>4, <1>a, ReadReads
  <2>2. Open(p) => Holds(p)
    BY <1>4 DEF Read, Holds
  <2>3. proc'[p].lock # None => Holds(p)
    BY <2>1, <2>2 DEF Open
  <2>4. proc'[p].pc = "write" => Open(p)
    BY <2>1 DEF AfterRead
  <2>5. oneLock' = oneLock /\ lockFile' = lockFile /\ kept' = kept /\ Content' = Content
    BY <1>4, <1>b DEF Read
  <2> QED
    BY <2>1, <2>3, <2>4, <2>5, Quiet DEF Goal
<1>5. ASSUME NEW p \in Procs, ReadFails(p) PROVE Goal
  <2>1. /\ \A q \in Procs : q # p => proc'[q] = proc[q]
        /\ proc'[p].pc = "aside" /\ proc'[p].lock = proc[p].lock
    BY <1>5, <1>a, GotoMoves DEF ReadFails, Place
  <2>2. Open(p) => Holds(p)
    BY <1>5 DEF ReadFails, Holds
  <2> QED
    BY <1>5, <1>b, <2>1, <2>2, Quiet DEF ReadFails, Goal, Open
<1>6. ASSUME NEW p \in Procs, SetAside(p) PROVE Goal
  <2>1. AfterRead(p) \in Place /\ AfterRead(p) \in {"write", "idle"}
        /\ (AfterRead(p) = "write" <=> proc[p].lock # None)
    BY DEF AfterRead, Place, Open
  <2>2. /\ \A q \in Procs : q # p => proc'[q] = proc[q]
        /\ proc'[p].lock = proc[p].lock
    BY <1>6, <1>a, <2>1, GotoMoves DEF SetAside
  <2>3. Open(p) => Holds(p)
    BY <1>6 DEF SetAside, Holds
  <2> QED
    BY <1>6, <1>c, <2>2, <2>3, Quiet DEF SetAside, Goal, Open
<1>7. ASSUME NEW p \in Procs, Write(p) PROVE Goal
  <2>1. /\ \A q \in Procs : q # p => proc'[q] = proc[q]
        /\ proc'[p].pc = "written" /\ proc'[p].lock = proc[p].lock /\ proc[p].lock # None
    BY <1>7, <1>a, GotoMoves DEF Write, Place, InPlace
  <2>2. Content' = proc[p].doc \cup {proc[p].write}
    BY <1>7 DEF Write, Content
  <2>3. oneLock' = oneLock /\ lockFile' = lockFile /\ kept' = kept \cup {proc[p].write}
    BY <1>7 DEF Write
  <2>4. Holds(p)
    BY <1>7, <2>1 DEF Write, Holds, Open
  <2>5. oneLock => \A q \in Procs : q # p => proc[q].pc # "write"
    BY <2>4, <1>a DEF IInv, OneHolder, Holds, Open, InPlace
  <2>6. OneHolder'
    BY <2>1, <2>3, <2>4 DEF IInv, OneHolder, Holds, Open
  <2>7. WritersKnow'
    BY <2>1, <2>3, <2>5 DEF IInv, WritersKnow, Open
  <2>8. KeptWrites'
    BY <1>7, <2>2, <2>3 DEF Write, IInv, KeptWrites, WritersKnow
  <2> QED
    BY <2>6, <2>7, <2>8 DEF Goal
<1>8. ASSUME NEW p \in Procs, WriteFails(p) \/ Unlock(p) \/ Crash(p) PROVE Goal
  <2>1. /\ \A q \in Procs : q # p => proc'[q] = proc[q]
        /\ proc'[p] = Idle
    BY <1>8, <1>a, IdleIsProcess, Becomes DEF WriteFails, Unlock, Crash
  <2>2. oneLock' = oneLock /\ lockFile' = lockFile /\ kept' = kept /\ Content' = Content
    BY <1>8, <1>b DEF WriteFails, Unlock, Crash
  <2> QED
    BY <2>1, <2>2, Quiet DEF Goal, Idle
<1>9. ASSUME NEW p \in Procs, FindOldFile(p) \/ FindOldLock(p) \/ UnlinkFile(p) PROVE Goal
  <2>1. proc[p].lock = None
    BY <1>9, <1>a DEF FindOldFile, FindOldLock, UnlinkFile, InPlace
  <2>2. /\ \A q \in Procs : q # p => proc'[q] = proc[q]
        /\ proc'[p].lock = None /\ proc'[p].pc # "write"
    BY <1>9, <1>a, <2>1, GotoMoves DEF FindOldFile, FindOldLock, UnlinkFile, Place
  <2> QED
    BY <1>9, <1>b, <1>c, <2>2, Quiet DEF Goal, FindOldFile, FindOldLock, UnlinkFile
<1>10. ASSUME NEW p \in Procs, UnlinkLock(p) PROVE Goal
  <2>1. /\ \A q \in Procs : q # p => proc'[q] = proc[q]
        /\ proc'[p].lock = None /\ proc'[p].pc = "idle"
    BY <1>10, <1>a, GotoMoves DEF UnlinkLock, Place, InPlace
  <2>2. Content' = Content /\ kept' = kept
    BY <1>10, <1>b DEF UnlinkLock
  <2>3. oneLock' => oneLock /\ \A q \in Procs : ~Open(q)
    BY <1>10 DEF UnlinkLock
  <2>4. oneLock' => \A q \in Procs : proc'[q].lock = None /\ proc'[q].pc # "write"
    BY <1>a, <2>1, <2>3 DEF Open, InPlace
  <2> QED
    BY <2>2, <2>3, <2>4 DEF Goal, OneHolder, WritersKnow, KeptWrites, Holds, Open, IInv
<1>11. ASSUME Damage PROVE Goal
  <2>1. Content' = {}
    BY <1>11, <1>a DEF Damage, Content, TypeOK, File
  <2> QED
    BY <1>11, <2>1, Outside DEF Damage, Goal
<1>12. ASSUME FileAges PROVE Goal
  <2>1. Content' = Content
    BY <1>12, <1>a DEF FileAges, Content, TypeOK, File
  <2> QED
    BY <1>12, <2>1, Outside DEF FileAges, Goal
<1>13. ASSUME LockAges \/ UNCHANGED vars PROVE Goal
  <2>1. UNCHANGED <<proc, oneLock, lockFile, kept, file>>
    BY <1>13 DEF LockAges, vars
  <2> QED
    BY <1>b, <2>1, Outside DEF Goal
<1>14. Goal
    BY <1>1, <1>2, <1>3, <1>4, <1>5, <1>6, <1>7, <1>8, <1>9, <1>10, <1>11, <1>12, <1>13
    DEF Next, Step
<1> QED
    BY <1>14 DEF Goal

\* As long as no lock file is deleted under its holders, two processes never
\* write at once, and no write to the ledger is lost but with the whole ledger.
THEOREM WritesAreKept == Spec => [](OneHolder /\ KeptWrites)
<1>1. Init => IInv
    BY InitTypes, InitKept DEF IInv
<1>2. IInv /\ [Next]_vars => IInv'
    BY StepTypes, StepKept DEF IInv
<1>3. IInv => OneHolder /\ KeptWrites
    BY DEF IInv
<1> QED
    BY <1>1, <1>2, <1>3, PTL DEF Spec

\* As long as no lock file is deleted under its holders, two processes never
\* hold the lock at once.
THEOREM LockExcludes == Spec => []OneHolder
BY WritesAreKept, PTL

\* A process that is about to write knows the ledger as it is on disk.
THEOREM WritersHaveRead == Spec => []WritersKnow
<1>1. Init => IInv
    BY InitTypes, InitKept DEF IInv
<1>2. IInv /\ [Next]_vars => IInv'
    BY StepTypes, StepKept DEF IInv
<1>3. IInv => WritersKnow
    BY DEF IInv
<1> QED
    BY <1>1, <1>2, <1>3, PTL DEF Spec

-----------------------------------------------------------------------------
(* The file is a LedgerStore                                               *)

LEMMA StepImplements ==
    IInv /\ [Next]_vars => [Store!Next]_<<Content, oneLock>>
<1> SUFFICES ASSUME IInv, [Next]_vars, ~UNCHANGED <<Content, oneLock>>
             PROVE  Store!Next
    OBVIOUS
<1>a. TypeOK
    BY DEF IInv
<1>1. ASSUME NEW p \in Procs, Write(p) PROVE Store!Next
  <2>1. Content' = proc[p].doc \cup {proc[p].write}
    BY <1>1 DEF Write, Content
  <2>2. proc[p].write \in Writes /\ proc[p].doc \in SUBSET Writes
    <3>1. proc[p] \in Process /\ InPlace(proc[p])
      BY <1>a DEF TypeOK
    <3> QED
      BY <1>1, <3>1 DEF Write, InPlace, Process
  <2>3. oneLock => Content \subseteq proc[p].doc
    BY <1>1 DEF Write, IInv, WritersKnow
  <2>4. Store!Write(proc[p].write)
    BY <1>1, <2>1, <2>2, <2>3 DEF Store!Write, Write
  <2> QED
    BY <2>2, <2>4 DEF Store!Next
<1>2. ASSUME NEW p \in Procs, SetAside(p) \/ UnlinkFile(p) PROVE Store!Next
  <2>1. file' = NoFile /\ oneLock' = oneLock
    BY <1>2 DEF SetAside, UnlinkFile
  <2>2. Content' = {}
    BY <2>1 DEF Content, NoFile
  <2> QED
    BY <2>1, <2>2 DEF Store!Next, Store!Lose
<1>3. ASSUME Damage PROVE Store!Next
  <2>1. Content' = {}
    BY <1>3, <1>a DEF Damage, Content, TypeOK, File
  <2> QED
    BY <1>3, <2>1 DEF Damage, Store!Next, Store!Lose
<1>4. ASSUME NEW p \in Procs, UnlinkLock(p) PROVE Store!Next
  <2>1. Content' = Content
    BY <1>4 DEF UnlinkLock, Content
  <2>2. oneLock' = FALSE
    BY <1>4, <1>a, <2>1 DEF UnlinkLock, TypeOK
  <2> QED
    BY <2>1, <2>2 DEF Store!Next, Store!Break
<1>5. ASSUME FileAges PROVE FALSE
    BY <1>5, <1>a DEF FileAges, Content, TypeOK, File
<1>6. UNCHANGED <<file, oneLock>> => FALSE
    BY DEF Content
<1>7. ASSUME NEW p \in Procs,
             \/ StartWrite(p) \/ StartRead(p) \/ Lock(p) \/ Read(p) \/ ReadFails(p)
             \/ WriteFails(p) \/ Unlock(p) \/ FindOldFile(p) \/ FindOldLock(p) \/ Crash(p)
      PROVE  FALSE
    BY <1>6, <1>7 DEF StartWrite, StartRead, Lock, Read, ReadFails, WriteFails, Unlock,
                      FindOldFile, FindOldLock, Crash
<1>8. ~LockAges /\ ~UNCHANGED vars
    BY <1>6 DEF LockAges, vars
<1> QED
    BY <1>1, <1>2, <1>3, <1>4, <1>5, <1>7, <1>8 DEF Next, Step

\* The ledger's file keeps the promise of LedgerStore: every step of it is one
\* write that loses nothing, the loss of the whole ledger, or no change.
THEOREM FileImplementsStore == Spec => Implements
<1>1. Init => IInv
    BY InitTypes, InitKept DEF IInv
<1>2. IInv /\ [Next]_vars => IInv'
    BY StepTypes, StepKept DEF IInv
<1>3. Init => Store!Init
    BY DEF Init, Store!Init, Content, NoFile
<1>4. IInv /\ [Next]_vars => [Store!Next]_<<Content, oneLock>>
    BY StepImplements
<1> QED
    BY <1>1, <1>2, <1>3, <1>4, PTL DEF Spec, Implements, Store!Spec
=============================================================================
