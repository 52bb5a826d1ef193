----------------------------- MODULE LedgerFile -----------------------------
(***************************************************************************)
(* The file of a session's ledger (ledger.py: _locked, _read, _write and    *)
(* prune_sessions): processes of the session write it under a lock on a     *)
(* sibling file and read it without one, any command deletes the files      *)
(* nobody wrote for 30 days, a process may die between any two steps, and   *)
(* the file may be damaged.                                                *)
(*                                                                         *)
(* A write is known by its number; the ledger is the set of the writes      *)
(* whose effect is in it (SessionLedger has what each write does).  POSIX    *)
(* only: on Windows there is no lock.                                       *)
(***************************************************************************)
EXTENDS Naturals

CONSTANTS
    Procs,       \* processes of the session
    MaxWrites    \* bound: locked writes the session makes

ASSUME FileAssumption == MaxWrites \in Nat

Writes == 1..MaxWrites

None == 0   \* no file, no write

VARIABLES
    file,      \* the ledger: is it there, what it holds, is it 30 days old
    lockFile,  \* the lock file: the write that made it, None without one
    lockOld,   \* the lock file was made more than 30 days ago
    proc,      \* each process: its place in the code, the lock file it has
               \* open, what it read, and the write it is making
    next,      \* the next write
    kept,      \* history: the writes made since the ledger was last lost as a
               \* whole
    oneLock    \* history: no lock file was deleted while a process had it open

vars == <<file, lockFile, lockOld, proc, next, kept, oneLock>>

Idle == [pc |-> "idle", lock |-> None, doc |-> {}, write |-> None]

NoFile == [is |-> "none", has |-> {}, old |-> FALSE]

\* What a reader of the file gets.
Content == IF file.is = "good" THEN file.has ELSE {}

Open(p) == proc[p].lock # None

\* Past flock, up to its release.
Holds(p) == Open(p) /\ proc[p].pc # "lock"

Goto(p, pc) == proc' = [proc EXCEPT ![p].pc = pc]

Init ==
    /\ file = NoFile
    /\ lockFile = None
    /\ lockOld = FALSE
    /\ proc = [p \in Procs |-> Idle]
    /\ next = 1
    /\ kept = {}
    /\ oneLock = TRUE

-----------------------------------------------------------------------------
(* A locked write                                                          *)

\* mkdir and open(lock_path, "a+"): an existing lock file keeps its age.
StartWrite(p) ==
    LET lock == IF lockFile = None THEN next ELSE lockFile IN
    /\ proc[p].pc = "idle"
    /\ next <= MaxWrites
    /\ lockFile' = lock
    /\ lockOld' = (lockFile # None /\ lockOld)
    /\ proc' = [proc EXCEPT ![p] = [Idle EXCEPT !.pc = "lock", !.lock = lock,
                                                !.write = next]]
    /\ next' = next + 1
    /\ UNCHANGED <<file, kept, oneLock>>

\* Bug: the lock is not waited for.
LockAtOnce(p) ==
    /\ proc[p].pc = "lock"
    /\ Goto(p, "read")
    /\ UNCHANGED <<file, lockFile, lockOld, next, kept, oneLock>>

\* flock(LOCK_EX) excludes those who have the same file open, whatever its
\* name leads to by now.
Lock(p) ==
    /\ proc[p].pc = "lock"
    /\ \A q \in Procs : Holds(q) => proc[q].lock # proc[p].lock
    /\ Goto(p, "read")
    /\ UNCHANGED <<file, lockFile, lockOld, next, kept, oneLock>>

\* Ledger.objects, find, former and started read without the lock.
StartRead(p) ==
    /\ proc[p].pc = "idle"
    /\ Goto(p, "read")
    /\ UNCHANGED <<file, lockFile, lockOld, next, kept, oneLock>>

\* Where _read returns to.
AfterRead(p) == IF Open(p) THEN "write" ELSE "idle"

\* _read of a file that parses, or is not there.
Read(p) ==
    /\ proc[p].pc = "read"
    /\ file.is # "damaged"
    /\ proc' = [proc EXCEPT ![p].pc = AfterRead(p),
                            ![p].doc = IF Open(p) THEN Content ELSE {}]
    /\ UNCHANGED <<file, lockFile, lockOld, next, kept, oneLock>>

\* Bug: what cannot be read counts as empty and stays where it is.
ReadAsEmpty(p) ==
    /\ proc[p].pc = "read"
    /\ file.is # "none"
    /\ Goto(p, AfterRead(p))
    /\ UNCHANGED <<file, lockFile, lockOld, next, kept, oneLock>>

\* _read of a file that does not parse, or that could not be read (OSError).
ReadFails(p) ==
    /\ proc[p].pc = "read"
    /\ file.is # "none"
    /\ Goto(p, "aside")
    /\ UNCHANGED <<file, lockFile, lockOld, next, kept, oneLock>>

\* Whatever the path leads to by now is moved to .damaged; the read is empty.
SetAside(p) ==
    /\ proc[p].pc = "aside"
    /\ file' = NoFile
    /\ kept' = {}
    /\ Goto(p, AfterRead(p))
    /\ UNCHANGED <<lockFile, lockOld, next, oneLock>>

\* _write: the new file takes the place of the old one at once.
Write(p) ==
    /\ proc[p].pc = "write"
    /\ file' = [is |-> "good", has |-> proc[p].doc \cup {proc[p].write}, old |-> FALSE]
    /\ kept' = kept \cup {proc[p].write}
    /\ Goto(p, "written")
    /\ UNCHANGED <<lockFile, lockOld, next, oneLock>>

\* Bug: an exception leaves without the release of the lock.
WriteFailsLocked(p) ==
    /\ proc[p].pc = "write"
    /\ Goto(p, "failed")
    /\ UNCHANGED <<file, lockFile, lockOld, next, kept, oneLock>>

\* An exception in _write: the old file stays, the lock is released (finally).
WriteFails(p) ==
    /\ proc[p].pc = "write"
    /\ proc' = [proc EXCEPT ![p] = Idle]
    /\ UNCHANGED <<file, lockFile, lockOld, next, kept, oneLock>>

\* flock(LOCK_UN) and close: the write has returned.
Unlock(p) ==
    /\ proc[p].pc = "written"
    /\ proc' = [proc EXCEPT ![p] = Idle]
    /\ UNCHANGED <<file, lockFile, lockOld, next, kept, oneLock>>

-----------------------------------------------------------------------------
(* prune_sessions, after the first write of any command: a stat, then an    *)
(* unlink of what the name leads to by then                                *)

FindOldFile(p) ==
    /\ proc[p].pc = "idle"
    /\ file.old
    /\ Goto(p, "unlink file")
    /\ UNCHANGED <<file, lockFile, lockOld, next, kept, oneLock>>

FindOldLock(p) ==
    /\ proc[p].pc = "idle"
    /\ lockOld
    /\ Goto(p, "unlink lock")
    /\ UNCHANGED <<file, lockFile, lockOld, next, kept, oneLock>>

UnlinkFile(p) ==
    /\ proc[p].pc = "unlink file"
    /\ file' = NoFile
    /\ kept' = {}
    /\ Goto(p, "idle")
    /\ UNCHANGED <<lockFile, lockOld, next, oneLock>>

UnlinkLock(p) ==
    /\ proc[p].pc = "unlink lock"
    /\ lockFile' = None
    /\ lockOld' = FALSE
    /\ oneLock' = (oneLock /\ \A q \in Procs : ~Open(q))
    /\ Goto(p, "idle")
    /\ UNCHANGED <<file, next, kept>>

-----------------------------------------------------------------------------
(* What happens to the files and the processes                             *)

\* The kernel closes the files of a dead process, which releases its lock.
Crash(p) ==
    /\ proc[p].pc # "idle"
    /\ proc' = [proc EXCEPT ![p] = Idle]
    /\ UNCHANGED <<file, lockFile, lockOld, next, kept, oneLock>>

\* A power cut, a full disk, an editor.
Damage ==
    /\ file.is = "good"
    /\ file' = [file EXCEPT !.is = "damaged"]
    /\ kept' = {}
    /\ UNCHANGED <<lockFile, lockOld, proc, next, oneLock>>

\* 30 days without a write; no command takes that long.
FileAges ==
    /\ \A p \in Procs : proc[p].pc = "idle"
    /\ file.is # "none" /\ ~file.old
    /\ file' = [file EXCEPT !.old = TRUE]
    /\ UNCHANGED <<lockFile, lockOld, proc, next, kept, oneLock>>

\* 30 days since the lock file was made: nothing ever writes into it.
LockAges ==
    /\ lockFile # None /\ ~lockOld
    /\ lockOld' = TRUE
    /\ UNCHANGED <<file, lockFile, proc, next, kept, oneLock>>

Step(p) ==
    \/ Lock(p)
    \/ Read(p)
    \/ ReadFails(p)
    \/ SetAside(p)
    \/ Write(p)
    \/ WriteFails(p)
    \/ Unlock(p)

Next ==
    \/ \E p \in Procs :
        \/ StartWrite(p)
        \/ StartRead(p)
        \/ Step(p)
        \/ FindOldFile(p)
        \/ FindOldLock(p)
        \/ UnlinkFile(p)
        \/ UnlinkLock(p)
        \/ Crash(p)
    \/ Damage
    \/ FileAges
    \/ LockAges

Spec == Init /\ [][Next]_vars

\* The system schedules every live process, and wakes one that waits for a
\* lock nobody holds.  Nothing else is fair: no command has to start.
FairSpec == Spec /\ \A p \in Procs : WF_vars(Step(p))

-----------------------------------------------------------------------------
(* Properties                                                              *)

Place == {"idle", "lock", "read", "aside", "write", "written",
          "unlink file", "unlink lock"}

Process == [pc: Place, lock: Writes \cup {None}, doc: SUBSET Writes,
            write: Writes \cup {None}]

File == [is: {"none", "good", "damaged"}, has: SUBSET Writes, old: BOOLEAN]

\* A process has the lock file open exactly while it makes a write.
InPlace(r) ==
    /\ r.lock # None <=> r.write # None
    /\ r.pc \in {"lock", "write", "written"} => r.lock # None
    /\ r.pc \in {"idle", "unlink file", "unlink lock"} => r.lock = None

TypeOK ==
    /\ file \in File
    /\ lockFile \in Writes \cup {None}
    /\ lockOld \in BOOLEAN
    /\ proc \in [Procs -> Process]
    /\ \A p \in Procs : InPlace(proc[p])
    /\ next \in 1..(MaxWrites + 1)
    /\ kept \subseteq Writes
    /\ oneLock \in BOOLEAN

\* Two processes never hold the lock of the same file (flock), and as long as
\* no lock file was deleted while it was open there is only one.
OneHolder ==
    oneLock => \A p, q \in Procs : Holds(p) /\ Holds(q) => p = q

\* "so parallel subagents of one session do not lose each other's entries":
\* as long as the lock excludes, a write stays in the ledger until the whole
\* ledger is lost, whatever readers, deaths and failed writes come between.
KeptWrites == oneLock => kept \subseteq Content

\* The file is a LedgerStore: each write one step of it, at its replace.
Store == INSTANCE LedgerStore WITH content <- Content

Implements == Store!Spec

\* A write that has opened the lock file returns or fails, unless its process
\* dies: whoever holds the lock releases it, on an error and by dying too.
WriteEnds == \A p \in Procs : Open(p) ~> ~Open(p)

\* What makes KeptWrites inductive: one lock file for all, and nobody between
\* its read and its write misses what the ledger holds.
WritersKnow ==
    oneLock => \A p \in Procs :
        /\ Open(p) => proc[p].lock = lockFile
        /\ proc[p].pc = "write" => Content \subseteq proc[p].doc
=============================================================================
