-------------------------- MODULE OutcomeRunProofs --------------------------
(***************************************************************************)
(* Theorems about OutcomeRun, for every fixture, command line and bound.    *)
(*                                                                         *)
(* The properties of a run speak of single moments: the start of an agent,  *)
(* the grading, the end.  What makes them hold is carried through all the   *)
(* steps before: which agents may still act (Alive), what the verify the    *)
(* runner waits for is (JobFits), what it has already removed or built       *)
(* (Swept, Standing), and what is on the record of the command (Counted).   *)
(***************************************************************************)
EXTENDS OutcomeRun, TLAPS

\* An agent acts only while its turn is waited for, or as a stray.
Alive ==
    \A a \in Agents :
        life[a] # "off" =>
            a \in stray \/ (cmd.pc = "agent" /\ a = agents /\ life[a] = "on")

\* The verify the runner waits for is of the kind it started there; none is
\* left running unless one was cut off.
JobFits ==
    /\ ~Listening(cmd) => job = NoJob
    /\ cmd.pc = "building" => job.mode = "keep" /\ job.pos # "drop"
    /\ cmd.pc \in {"cleaning", "t-cleaning"} => job.mode = "cleanup-only" /\ job.pos \notin Fixture
    /\ cmd.pc = "t-cleaning" => job.flag = (Gated /\ cmd.tflag)
    /\ job.pos \in {"read", "sync"} => job.flag /\ (job.mode = "cleanup-only" => job.ran)
    /\ job.mode = "cleanup-only" /\ job.pos = "done" => job.ran \/ job.failed
    /\ ~cutoff => orphans = {}

\* The cleanup has run its statements, and all went well so far.
Dropped == job.mode = "cleanup-only" /\ job.pos # "drop" /\ job.ran /\ ~job.failed

\* What of agents may be left: past the drop no view, past the deletion no tag.
Swept ==
    /\ cmd.pc \in {"build", "building", "start"} \/ (Listening(cmd) /\ Dropped) => views \subseteq stray
    /\ cmd.pc \in {"agent", "check"} => views \subseteq stray \cup {agents}
    /\ cmd.pc \in {"clean", "cleaning", "build", "building", "start"} => tag \in stray \cup {NoAgent}
    /\ cmd.pc \in {"t-gate", "t-clean", "t-cleaning"} /\ ~cmd.told => tag \in stray \cup {NoAgent}
    /\ cmd.pc \in {"agent", "check"} => tag \in stray \cup {agents, NoAgent}

\* What of the fixture stands, unless a verify was cut off.
Standing ==
    ~cutoff =>
        /\ cmd.pc = "building" /\ job.pos = "views" => "database" \in db
        /\ cmd.pc = "building" /\ job.pos \notin Fixture /\ ~job.failed => db = Fixture
        /\ cmd.pc \in {"start", "agent", "check"} => db = Fixture
        /\ Listening(cmd) /\ Dropped => db = {} /\ views = {}
        /\ Listening(cmd) /\ Dropped /\ job.pos = "done" /\ job.flag => ~shown
        /\ cmd.heard /\ ~cmd.told =>
              /\ db = {} /\ views = {}
              /\ tag \in stray \cup {NoAgent}
              /\ Gated /\ cmd.tflag => ~shown

\* The flag of the teardown goes only at a gate, after which nothing of the
\* command synchronises.
Flagged ==
    /\ Gated /\ cmd.args.flag /\ cmd.pc \in InTry => cmd.tflag
    /\ cmd.heard => cmd.pc \in {"report", "ended"}
    /\ Gated /\ cmd.args.flag /\ ~cmd.tflag => ~cmd.synced

Bad == {"fixture-failed", "broken", "failed"}

\* What went wrong is on the record, and every run is counted.
Counted ==
    /\ cmd.pc # "ended" /\ cmd.amiss =>
          cmd.interrupted \/ cmd.error \/ cmd.results \cap Bad # {}
    /\ cmd.error => cmd.pc = "check"  \/ cmd.interrupted
    /\ cmd.pc = "next" => cmd.graded = cmd.n
    /\ cmd.pc \in {"leave", "t-lookup", "t-delete", "t-gate", "t-clean", "t-cleaning", "report"} =>
          \/ cmd.graded = cmd.args.runs \/ "skipped" \in cmd.results
          \/ cmd.interrupted \/ cmd.results \cap Bad # {}
    /\ cmd.pc \in InTry \ {"next"} => cmd.graded + 1 = cmd.n
    /\ cmd.pc = "ended" /\ cmd.code = 0 =>
          /\ ~cmd.amiss
          /\ cmd.graded = cmd.args.runs \/ "skipped" \in cmd.results

-----------------------------------------------------------------------------
(* Types                                                                   *)

LEMMA ConstantTypes ==
    /\ Gated \in BOOLEAN /\ Turns \in Nat \ {0}
    /\ Commands \subseteq Command
    /\ MaxCommands \in Nat /\ MaxAgents \in Nat /\ MaxTroubles \in Nat
BY OutcomeAssumption

LEMMA StageNames ==
    /\ \A p \in InTry : p \in Stages
    /\ \A p \in InFinally : p \in Stages
    /\ "next" \in Stages /\ "lookup" \in Stages /\ "delete" \in Stages /\ "gate" \in Stages
    /\ "clean" \in Stages /\ "cleaning" \in Stages /\ "build" \in Stages /\ "building" \in Stages
    /\ "start" \in Stages /\ "agent" \in Stages /\ "check" \in Stages
    /\ "t-lookup" \in Stages /\ "t-delete" \in Stages /\ "t-gate" \in Stages
    /\ "t-clean" \in Stages /\ "t-cleaning" \in Stages
    /\ "leave" \in Stages /\ "report" \in Stages /\ "ended" \in Stages
BY DEF Stages, InTry, InFinally

LEMMA FreshType ==
    ASSUME NEW args \in Command, NEW first \in Nat
    PROVE  Fresh(args, first) \in Cmd
BY DEF Fresh, Cmd, Command, Stages, InTry, NoAgent

LEMMA VerifyType ==
    ASSUME NEW mode \in {"cleanup-only", "keep"}, NEW flag \in BOOLEAN
    PROVE  Verify(mode, flag) \in Job
BY ConstantTypes DEF Verify, NoJob, Job

LEMMA ListedType == ("database" \in db) \in BOOLEAN
<1>1. CASE "database" \in db
    BY <1>1
<1>2. CASE "database" \notin db
    BY <1>2
<1>3. QED
    BY <1>1, <1>2

\* What a verify does keeps the server's types, and it stays a verify.
LEMMA DoesType ==
    ASSUME TypeOK, NEW j \in Job, NEW out \in Outcomes, Does(j, out)
    PROVE  /\ db' \subseteq Fixture /\ views' \subseteq Agents
           /\ tag' \in Agents \cup {NoAgent}
           /\ shown' \in BOOLEAN /\ pending' \subseteq Changes
           /\ After(j, out) \in Job
<1>1. After(j, out) \in Job
    <2>1. Tail(j) \in {"read", "done"}
        BY DEF Tail, Job
    <2> DEFINE p == IF Stops(j, out) THEN "done"
                    ELSE CASE j.pos = "database" -> "views"
                           [] j.pos \in {"views", "drop"} -> Tail(j)
                           [] j.pos = "read" -> "sync"
                           [] OTHER -> "done"
               r == j.ran \/ (j.mode = "cleanup-only" /\ out # "gave-up")
               k == j.mode = "keep" /\ out = "held"
               f == j.failed \/ (out # "ok" /\ ~(j.mode = "keep" /\ out = "held"))
    <2>2. p \in {"drop", "database", "views", "read", "sync", "done"}
        BY <2>1
    <2>3. r \in BOOLEAN /\ k \in BOOLEAN /\ f \in BOOLEAN
        BY Zenon
    <2>4. After(j, out) = [j EXCEPT !.pos = p, !.ran = r, !.skip = k, !.failed = f]
        BY Zenon DEF After
    <2> HIDE DEF p, r, k, f
    <2>5. QED
        BY <2>2, <2>3, <2>4 DEF Job
<1>2. Does(j, out) => UNCHANGED shown \/ shown' = ("database" \in db)
    BY DEF Does, GivesUp, Drops, Builds, Reads, Syncs, Synchronised, server
<1>3. shown' \in BOOLEAN
    BY <1>2, ListedType DEF TypeOK
<1>4. QED
    BY <1>1, <1>3 DEF TypeOK, Does, GivesUp, Drops, Builds, Reads, Syncs, Synchronised, server, Fixture

\* Assignments to the record of a command.
LEMMA ResultNames ==
    /\ "skipped" \in Results /\ "fixture-failed" \in Results /\ "passed" \in Results
    /\ "failed" \in Results /\ "broken" \in Results
BY DEF Results

LEMMA AtType ==
    ASSUME NEW c \in Cmd, NEW p \in Stages
    PROVE  [c EXCEPT !.pc = p] \in Cmd
BY DEF Cmd

LEMMA ResultType ==
    ASSUME NEW c \in Cmd, NEW d \in Cmd, NEW r \in Results
    PROVE  [c EXCEPT !.results = d.results \cup {r}] \in Cmd
BY DEF Cmd

LEMMA GradedType ==
    ASSUME NEW c \in Cmd, NEW k \in Nat
    PROVE  [c EXCEPT !.graded = k] \in Cmd
BY DEF Cmd

LEMMA CodeType ==
    ASSUME NEW c \in Cmd, NEW k \in {0, 1, 2, 130}
    PROVE  [c EXCEPT !.code = k] \in Cmd
BY DEF Cmd

LEMMA IdType ==
    ASSUME NEW c \in Cmd, NEW i \in Agents \cup {NoAgent}
    PROVE  [c EXCEPT !.id = i] \in Cmd
BY DEF Cmd

LEMMA FlagTypes ==
    ASSUME NEW c \in Cmd, NEW b \in BOOLEAN
    PROVE  /\ [c EXCEPT !.tflag = b] \in Cmd /\ [c EXCEPT !.error = b] \in Cmd
           /\ [c EXCEPT !.told = b] \in Cmd /\ [c EXCEPT !.heard = b] \in Cmd
           /\ [c EXCEPT !.amiss = b] \in Cmd /\ [c EXCEPT !.synced = b] \in Cmd
           /\ [c EXCEPT !.interrupted = b] \in Cmd
BY DEF Cmd

LEMMA LeavesType ==
    ASSUME NEW c \in Cmd, NEW r \in Results
    PROVE  Leaves(c, r) \in Cmd
<1> DEFINE at == [c EXCEPT !.pc = "leave"]
           told == [at EXCEPT !.results = @ \cup {r}]
           b == IF r = "skipped" THEN c.amiss ELSE TRUE
<1>1. at \in Cmd
    BY StageNames, AtType
<1>2. told \in Cmd
    <2> HIDE DEF at
    <2>1. QED
        BY <1>1, ResultType
<1>3. b \in BOOLEAN
    BY DEF Cmd
<1>4. Leaves(c, r) = [told EXCEPT !.amiss = b]
    BY DEF Leaves, Cmd
<1> HIDE DEF told, b
<1>5. QED
    BY <1>2, <1>3, <1>4, FlagTypes

LEMMA ProblemType ==
    ASSUME NEW c \in Cmd, NEW p \in Stages
    PROVE  Problem(c, p) \in Cmd
<1>1. [c EXCEPT !.told = TRUE, !.pc = p] \in Cmd
    BY DEF Cmd
<1>2. QED
    BY <1>1, LeavesType, ResultNames DEF Problem

LEMMA InitType == Init => TypeOK
<1>1. [flag |-> FALSE, keep |-> FALSE, runs |-> 1] \in Command /\ 0 \in Nat
    BY DEF Command
<1>2. Fresh([flag |-> FALSE, keep |-> FALSE, runs |-> 1], 0) \in Cmd
    BY <1>1, FreshType
<1>3. [Fresh([flag |-> FALSE, keep |-> FALSE, runs |-> 1], 0) EXCEPT !.pc = "ended"] \in Cmd
    BY <1>2, StageNames DEF Cmd
<1>4. NoJob \in Job
    BY DEF NoJob, Job
<1>5. ASSUME Init
      PROVE  /\ life \in [Agents -> {"off", "on", "last"}]
             /\ agents \in 0..MaxAgents /\ commands \in 0..MaxCommands /\ troubles \in 0..MaxTroubles
    BY <1>5, ConstantTypes DEF Init
<1>6. ASSUME Init
      PROVE  shown \in BOOLEAN /\ cutoff \in BOOLEAN /\ pending \subseteq Changes
    BY <1>6 DEF Init
<1>7. QED
    BY <1>3, <1>4, <1>5, <1>6 DEF Init, TypeOK

LEMMA TypeStep == TypeOK /\ [Next]_vars => TypeOK'
<1> SUFFICES ASSUME TypeOK, [Next]_vars PROVE TypeOK'
    OBVIOUS
<1> USE ConstantTypes
<1>0. cmd \in Cmd /\ job \in Job
    BY DEF TypeOK
<1>1. ASSUME NEW args \in Commands, Begin(args) PROVE TypeOK'
    <2>1. Fresh(args, agents) \in Cmd
        BY FreshType DEF TypeOK
    <2>2. /\ [Fresh(args, agents) EXCEPT !.pc = "ended", !.amiss = TRUE] \in Cmd
          /\ [Fresh(args, agents) EXCEPT !.pc = "report", !.results = {"skipped"}] \in Cmd
        BY <2>1, StageNames, ResultNames DEF Cmd
    <2>3. cmd' \in Cmd
        BY <1>1, <2>1, <2>2 DEF Begin
    <2>4. QED
        BY <1>1, <2>3 DEF Begin, TypeOK, server
<1>2. CASE NextRun
    <2>1. cmd' \in Cmd
        <3>1. [cmd EXCEPT !.pc = "leave"] \in Cmd
            BY <1>0, AtType, StageNames
        <3>2. [cmd EXCEPT !.n = @ + 1, !.pc = IF Gated THEN "gate" ELSE "lookup"] \in Cmd
            <4>1. (IF Gated THEN "gate" ELSE "lookup") \in Stages
                BY StageNames
            <4>2. [cmd EXCEPT !.n = @ + 1] \in Cmd
                BY <1>0 DEF Cmd
            <4>3. QED
                BY <4>1, <4>2, AtType
        <3>3. QED
            BY <1>2, <3>1, <3>2 DEF NextRun
    <2>2. QED
        BY <1>2, <2>1 DEF NextRun, TypeOK, server, Job, NoJob, NoAgent
<1>3. CASE Gate
    <2>1. cmd' \in Cmd
        <3>1. [cmd EXCEPT !.pc = "lookup", !.synced = FALSE] \in Cmd
            BY <1>0, StageNames DEF Cmd
        <3>2. Leaves(cmd, "skipped") \in Cmd
            BY <1>0, LeavesType, ResultNames
        <3>3. [Leaves(cmd, "skipped") EXCEPT !.tflag = FALSE, !.synced = FALSE] \in Cmd
            BY <3>2 DEF Cmd
        <3>4. PICK answered \in BOOLEAN :
                cmd' = IF NonePending(answered)
                       THEN [cmd EXCEPT !.pc = "lookup", !.synced = FALSE]
                       ELSE [Leaves(cmd, "skipped") EXCEPT !.tflag = FALSE, !.synced = FALSE]
            BY <1>3 DEF Gate
        <3>5. CASE NonePending(answered)
            BY <3>1, <3>4, <3>5
        <3>6. CASE ~NonePending(answered)
            BY <3>3, <3>4, <3>6
        <3>7. QED
            BY <3>5, <3>6
    <2>2. QED
        BY <1>3, <2>1 DEF Gate, TypeOK, server, Job, NoJob, NoAgent
<1>4. CASE TeardownGate
    <2>1. cmd' \in Cmd
        <3> DEFINE at == [cmd EXCEPT !.pc = "t-clean"]
                   synced == [at EXCEPT !.synced = FALSE]
                   flag == [synced EXCEPT !.tflag = FALSE]
        <3>a. at \in Cmd
            BY <1>0, StageNames, AtType
        <3>b. synced \in Cmd
            <4> HIDE DEF at
            <4>1. QED
                BY <3>a, FlagTypes
        <3>c. flag \in Cmd
            <4> HIDE DEF synced
            <4>1. QED
                BY <3>b, FlagTypes
        <3>d. [flag EXCEPT !.told = TRUE] \in Cmd
            <4> HIDE DEF flag
            <4>1. QED
                BY <3>c, FlagTypes
        <3>e. /\ [cmd EXCEPT !.pc = "t-clean", !.synced = FALSE] = synced
              /\ [cmd EXCEPT !.pc = "t-clean", !.synced = FALSE, !.tflag = FALSE, !.told = TRUE]
                    = [flag EXCEPT !.told = TRUE]
            OBVIOUS
        <3>1. /\ [cmd EXCEPT !.pc = "t-clean"] \in Cmd
              /\ [cmd EXCEPT !.pc = "t-clean", !.synced = FALSE] \in Cmd
              /\ [cmd EXCEPT !.pc = "t-clean", !.synced = FALSE, !.tflag = FALSE, !.told = TRUE] \in Cmd
            BY <3>a, <3>b, <3>d, <3>e
        <3>2. cmd' \in {[cmd EXCEPT !.pc = "t-clean"],
                        [cmd EXCEPT !.pc = "t-clean", !.synced = FALSE],
                        [cmd EXCEPT !.pc = "t-clean", !.synced = FALSE, !.tflag = FALSE, !.told = TRUE]}
            <4>1. CASE Gated /\ cmd.tflag
                <5>1. PICK answered \in BOOLEAN :
                        cmd' = IF NonePending(answered)
                               THEN [cmd EXCEPT !.pc = "t-clean", !.synced = FALSE]
                               ELSE [cmd EXCEPT !.pc = "t-clean", !.synced = FALSE,
                                                !.tflag = FALSE, !.told = TRUE]
                    BY Zenon, <1>4, <4>1 DEF TeardownGate
                <5>2. CASE NonePending(answered)
                    BY <5>1, <5>2
                <5>3. CASE ~NonePending(answered)
                    BY <5>1, <5>3
                <5>4. QED
                    BY <5>2, <5>3
            <4>2. CASE ~(Gated /\ cmd.tflag)
                BY Zenon, <1>4, <4>2 DEF TeardownGate
            <4>3. QED
                BY <4>1, <4>2
        <3>3. QED
            BY <3>1, <3>2
    <2>2. QED
        BY <1>4, <2>1 DEF TeardownGate, TypeOK, server, Job, NoJob, NoAgent
<1>5. CASE Lookup
    <2>1. cmd' \in Cmd
        <3>1. AfterTag \in Stages
            BY StageNames DEF AfterTag
        <3>2. /\ Problem(cmd, AfterTag) \in Cmd
              /\ [cmd EXCEPT !.pc = AfterTag] \in Cmd
            BY <1>0, <3>1, ProblemType, AtType
        <3>3. tag \in Agents \cup {NoAgent}
            BY DEF TypeOK
        <3>4. [cmd EXCEPT !.id = tag, !.pc = IF cmd.pc = "lookup" THEN "delete" ELSE "t-delete"] \in Cmd
            <4> DEFINE q == IF cmd.pc = "lookup" THEN "delete" ELSE "t-delete"
            <4>1. q \in Stages
                BY StageNames
            <4> HIDE DEF q
            <4> DEFINE c == [cmd EXCEPT !.id = tag]
            <4>2. c \in Cmd
                BY <1>0, <3>3, IdType
            <4>3. [cmd EXCEPT !.id = tag, !.pc = q] = [c EXCEPT !.pc = q]
                OBVIOUS
            <4> HIDE DEF c
            <4>4. [c EXCEPT !.pc = q] \in Cmd
                BY <4>1, <4>2, AtType
            <4>5. QED
                BY <4>3, <4>4 DEF q
        <3>5. QED
            BY <1>5, <3>2, <3>4 DEF Lookup
    <2>2. QED
        BY <1>5, <2>1 DEF Lookup, TypeOK, server, Job, NoJob, NoAgent
<1>6. CASE Delete
    <2>1. cmd' \in Cmd
        <3>1. AfterTag \in Stages
            BY StageNames DEF AfterTag
        <3>2. PICK ok \in BOOLEAN :
                cmd' = [IF ok THEN [cmd EXCEPT !.pc = AfterTag] ELSE Problem(cmd, AfterTag)
                        EXCEPT !.id = NoAgent]
            BY <1>6 DEF Delete
        <3>3. (IF ok THEN [cmd EXCEPT !.pc = AfterTag] ELSE Problem(cmd, AfterTag)) \in Cmd
            BY <1>0, <3>1, ProblemType, AtType
        <3>4. QED
            BY <3>2, <3>3, IdType
    <2>2. QED
        BY <1>6, <2>1 DEF Delete, TypeOK, server, Job, NoJob, NoAgent
<1>7. CASE Cleaned
    <2>1. cmd' \in Cmd
        <3>1. [cmd EXCEPT !.pc = "build"] \in Cmd /\ Leaves(cmd, "fixture-failed") \in Cmd
            BY <1>0, AtType, LeavesType, ResultNames, StageNames
        <3>2. QED
            BY <1>7, <3>1 DEF Cleaned
    <2>2. QED
        BY <1>7, <2>1 DEF Cleaned, TypeOK, server, Job, NoJob, NoAgent
<1>8. CASE Built
    <2>1. cmd' \in Cmd
        <3>1. /\ [cmd EXCEPT !.pc = "start"] \in Cmd
              /\ Leaves(cmd, "fixture-failed") \in Cmd /\ Leaves(cmd, "skipped") \in Cmd
            BY <1>0, AtType, LeavesType, ResultNames, StageNames
        <3>2. QED
            BY <1>8, <3>1 DEF Built
    <2>2. QED
        BY <1>8, <2>1 DEF Built, TypeOK, server, Job, NoJob, NoAgent
<1>9. CASE TornDown
    <2>1. cmd' \in Cmd
        <3>1. /\ job.ran \in BOOLEAN
              /\ (IF job.ran /\ job.failed THEN TRUE ELSE cmd.told) \in BOOLEAN
            BY <1>0 DEF Job, Cmd
        <3>2. [cmd EXCEPT !.pc = "report"] \in Cmd
            BY <1>0, AtType, StageNames
        <3>3. [cmd EXCEPT !.pc = "report", !.heard = job.ran] \in Cmd
            BY <3>1, <3>2, FlagTypes
        <3>4. QED
            BY <1>9, <3>1, <3>3, FlagTypes DEF TornDown
    <2>2. QED
        BY <1>9, <2>1 DEF TornDown, TypeOK, server, Job, NoJob, NoAgent
<1>10. CASE TurnEnds
    <2>1. cmd' \in Cmd
        <3>1. [cmd EXCEPT !.turn = @ + 1] \in Cmd
            BY <1>0 DEF Cmd
        <3>2. [cmd EXCEPT !.pc = "check"] \in Cmd
            BY <1>0, AtType, StageNames
        <3>3. [cmd EXCEPT !.pc = "check", !.error = TRUE, !.amiss = TRUE] \in Cmd
            BY <3>2, FlagTypes
        <3>4. QED
            BY <1>10, <3>1, <3>2, <3>3 DEF TurnEnds
    <2>2. QED
        BY <1>10, <2>1 DEF TurnEnds, TypeOK, server, Job, NoJob, NoAgent
<1>11. CASE Grade
    <2>1. cmd' \in Cmd
        <3>1. PICK passed \in BOOLEAN :
                cmd' = [cmd EXCEPT !.pc = "next", !.turn = 0, !.error = FALSE,
                           !.graded = @ + 1, !.amiss = IF passed THEN @ ELSE TRUE,
                           !.results = @ \cup {IF cmd.error THEN "broken"
                                               ELSE IF passed THEN "passed" ELSE "failed"}]
            BY <1>11 DEF Grade
        <3>2. (IF cmd.error THEN "broken" ELSE IF passed THEN "passed" ELSE "failed") \in Results
            BY ResultNames
        <3>3. [cmd EXCEPT !.pc = "next", !.turn = 0, !.error = FALSE, !.graded = @ + 1] \in Cmd
            <4>1. [cmd EXCEPT !.pc = "next", !.turn = 0, !.error = FALSE] \in Cmd
                BY <1>0, StageNames DEF Cmd
            <4>2. cmd.graded + 1 \in Nat
                BY <1>0 DEF Cmd
            <4>3. QED
                BY <4>1, <4>2, GradedType
        <3>4. (IF passed THEN cmd.amiss ELSE TRUE) \in BOOLEAN
            BY <1>0 DEF Cmd
        <3>5. [cmd EXCEPT !.pc = "next", !.turn = 0, !.error = FALSE, !.graded = @ + 1,
                          !.amiss = IF passed THEN @ ELSE TRUE] \in Cmd
            BY <3>3, <3>4, FlagTypes
        <3>6. QED
            BY <1>0, <3>1, <3>2, <3>5, ResultType
    <2>2. QED
        BY <1>11, <2>1 DEF Grade, TypeOK, server, Job, NoJob, NoAgent
<1>12. CASE Leave
    <2>1. cmd' \in Cmd
        BY <1>12, <1>0, StageNames DEF Leave, Cmd, Results, NoAgent
    <2>2. QED
        BY <1>12, <2>1 DEF Leave, TypeOK, server, Job, NoJob, NoAgent
<1>13. CASE StartVerify
    <2>1. cmd.args.flag \in BOOLEAN /\ cmd.tflag \in BOOLEAN
        BY DEF TypeOK, Cmd, Command
    <2>2. job' \in Job
        BY <1>13, <2>1, VerifyType DEF StartVerify
    <2>3. cmd' \in Cmd
        BY <1>13, <1>0, StageNames DEF StartVerify, Cmd, Results, NoAgent
    <2>4. QED
        BY <1>13, <2>2, <2>3 DEF StartVerify, TypeOK, server
<1>14. CASE VerifyTimesOut
    <2>1. cmd' \in Cmd
        <3>1. [cmd EXCEPT !.pc = "report"] \in Cmd /\ Leaves(cmd, "fixture-failed") \in Cmd
            BY <1>0, AtType, LeavesType, ResultNames, StageNames
        <3>2. QED
            BY <1>14, <3>1 DEF VerifyTimesOut
    <2>2. QED
        BY <1>14, <2>1 DEF VerifyTimesOut, TypeOK, server, Job, NoJob, Agents, Acting
<1>15. CASE StartAgent
    <2>1. cmd' \in Cmd
        BY <1>15, <1>0, StageNames DEF StartAgent, Cmd, Results, NoAgent
    <2>2. QED
        BY <1>15, <2>1 DEF StartAgent, TypeOK, server, Job, NoJob, Agents, Acting
<1>16. CASE TurnTimesOut
    <2>1. cmd' \in Cmd
        BY <1>16, <1>0, StageNames DEF TurnTimesOut, Cmd, Results, NoAgent
    <2>2. PICK left \in {"off", "last"} :
            /\ life' = [life EXCEPT ![agents] = left]
            /\ stray' = IF left = "last" THEN stray \cup {agents} ELSE stray
        BY <1>16 DEF TurnTimesOut
    <2>3. life' \in [Agents -> {"off", "on", "last"}]
        BY <2>2 DEF TypeOK
    <2>4. QED
        BY <1>16, <2>1, <2>2, <2>3 DEF TurnTimesOut, TypeOK, server, Agents
<1>17. CASE Report
    <2>1. cmd' \in Cmd
        <3>1. (IF cmd.interrupted THEN 130 ELSE Code(cmd.results)) \in {0, 1, 2, 130}
            BY DEF Code
        <3>2. [cmd EXCEPT !.pc = "ended", !.code = IF cmd.interrupted THEN 130 ELSE Code(cmd.results)] \in Cmd
            <4>1. [cmd EXCEPT !.pc = "ended"] \in Cmd
                BY <1>0, AtType, StageNames
            <4>2. QED
                BY <3>1, <4>1, CodeType
        <3>3. QED
            BY <1>17, <3>2 DEF Report
    <2>2. QED
        BY <1>17, <2>1 DEF Report, TypeOK, server, Job, NoJob, Agents, Acting
<1>18. CASE Interrupt
    <2>1. cmd' \in Cmd
        <3>1. (IF cmd.pc \in InTry THEN "leave" ELSE "report") \in Stages
            BY StageNames
        <3>2. [cmd EXCEPT !.pc = IF cmd.pc \in InTry THEN "leave" ELSE "report",
                          !.interrupted = TRUE, !.results = {}, !.amiss = TRUE] \in Cmd
            BY <1>0, <3>1 DEF Cmd
        <3>3. QED
            BY <1>18, <3>2 DEF Interrupt
    <2>2. [job EXCEPT !.last = TRUE] \in Job /\ NoJob \in Job
        BY <1>0 DEF Job, NoJob
    <2>3. orphans' \subseteq Job /\ cutoff' \in BOOLEAN
        BY <1>18, <2>2 DEF Interrupt, TypeOK
    <2>4. QED
        BY <1>18, <2>1, <2>2, <2>3 DEF Interrupt, TypeOK, server
<1>19. CASE Killed
    <2>1. cmd' \in Cmd
        BY <1>19, <1>0, StageNames DEF Killed, Cmd, Results, NoAgent
    <2>2. QED
        BY <1>19, <2>1 DEF Killed, TypeOK, server, Job, NoJob, Agents, Acting
<1>20. CASE JobStep
    <2>1. PICK out \in Outcomes : Does(job, out) /\ job' = After(job, out)
        BY <1>20 DEF JobStep
    <2>2. job \in Job
        BY DEF TypeOK
    <2>3. cmd' \in Cmd
        BY <1>20 DEF JobStep, TypeOK, Cmd
    <2>4. QED
        BY <1>20, <2>1, <2>2, <2>3, DoesType DEF JobStep, TypeOK
<1>21. ASSUME NEW o \in orphans, OrphanStep(o) PROVE TypeOK'
    <2>1. PICK out \in Outcomes :
            /\ Does(o, out)
            /\ orphans' = (orphans \ {o}) \cup {k \in {After(o, out)} : ~o.last /\ k.pos # "done"}
        BY <1>21 DEF OrphanStep
    <2>2. o \in Job
        BY DEF TypeOK
    <2>3. QED
        BY <1>21, <2>1, <2>2, DoesType DEF OrphanStep, TypeOK
<1>22. ASSUME NEW o \in orphans, OrphanEnds(o) PROVE TypeOK'
    BY <1>22 DEF OrphanEnds, TypeOK, server
<1>23. ASSUME NEW a \in Agents, AgentActs(a) PROVE TypeOK'
    <2>1. shown' \in BOOLEAN
        <3>1. UNCHANGED shown \/ shown' = ("database" \in db)
            BY <1>23 DEF AgentActs, Synchronised
        <3>2. QED
            BY <3>1, ListedType DEF TypeOK
    <2>2. QED
        BY <1>23, <2>1 DEF AgentActs, TypeOK, Synchronised
<1>24. ASSUME NEW a \in Agents, StrayEnds(a) PROVE TypeOK'
    BY <1>24 DEF StrayEnds, TypeOK, server
<1>25. CASE Others
    <2>1. shown' \in BOOLEAN
        <3>1. UNCHANGED shown \/ shown' = ("database" \in db)
            BY <1>25 DEF Others, Synchronised
        <3>2. QED
            BY <3>1, ListedType DEF TypeOK
    <2>2. QED
        BY <1>25, <2>1 DEF Others, TypeOK, Synchronised
<1>26. CASE UNCHANGED vars
    BY <1>26 DEF vars, TypeOK
<1>27. QED
    BY <1>1, <1>2, <1>3, <1>4, <1>5, <1>6, <1>7, <1>8, <1>9, <1>10, <1>11, <1>12, <1>13, <1>14, <1>15, <1>16, <1>17, <1>18, <1>19, <1>20, <1>21, <1>22, <1>23, <1>24, <1>25, <1>26 DEF Next, RunnerStep

\* The types are kept, for every fixture, command line and bound.
THEOREM TypeCorrect == Spec => []TypeOK
BY InitType, TypeStep, PTL DEF Spec

-----------------------------------------------------------------------------
(* What each step of the runner does to the record of its command          *)

KeepsFlags == cmd'.args = cmd.args /\ cmd'.tflag = cmd.tflag /\ cmd'.synced = cmd.synced
KeepsTold == cmd'.told = cmd.told /\ cmd'.heard = cmd.heard
KeepsEnd == cmd'.interrupted = cmd.interrupted /\ cmd'.code = cmd.code
KeepsRuns == cmd'.n = cmd.n /\ cmd'.graded = cmd.graded
KeepsMarks == cmd'.results = cmd.results /\ cmd'.error = cmd.error /\ cmd'.amiss = cmd.amiss

\* A reset or a fixture fails, or the scenario is skipped.
Marks(result) ==
    /\ cmd'.results = cmd.results \cup {result}
    /\ cmd'.error = cmd.error
    /\ cmd'.amiss = IF result = "skipped" THEN cmd.amiss ELSE TRUE

LEMMA LeavesFields ==
    ASSUME NEW r \in Results, NEW d \in {Leaves(cmd, r)}, cmd \in Cmd
    PROVE  /\ d.pc = "leave" /\ d.results = cmd.results \cup {r}
           /\ d.error = cmd.error /\ d.amiss = (IF r = "skipped" THEN cmd.amiss ELSE TRUE)
           /\ d.args = cmd.args /\ d.tflag = cmd.tflag /\ d.synced = cmd.synced
           /\ d.told = cmd.told /\ d.heard = cmd.heard
           /\ d.interrupted = cmd.interrupted /\ d.code = cmd.code
           /\ d.n = cmd.n /\ d.graded = cmd.graded /\ d.id = cmd.id
BY DEF Leaves, Cmd

LEMMA LeavesNext ==
    ASSUME NEW r \in Results, cmd' = Leaves(cmd, r), cmd \in Cmd
    PROVE  /\ cmd'.pc = "leave" /\ Marks(r) /\ KeepsFlags /\ KeepsTold /\ KeepsEnd /\ KeepsRuns
           /\ cmd'.id = cmd.id
BY LeavesFields DEF Marks, KeepsFlags, KeepsTold, KeepsEnd, KeepsRuns

LEMMA NextRunFields ==
    ASSUME cmd \in Cmd, NextRun
    PROVE  /\ cmd.pc = "next" /\ KeepsFlags /\ KeepsTold /\ KeepsEnd /\ KeepsMarks
           /\ cmd'.graded = cmd.graded
           /\ \/ cmd.n = cmd.args.runs /\ cmd'.n = cmd.n /\ cmd'.pc = "leave"
              \/ cmd'.n = cmd.n + 1 /\ cmd'.pc = (IF Gated THEN "gate" ELSE "lookup")
<1>1. CASE cmd.n = cmd.args.runs
    <2>1. cmd' = [cmd EXCEPT !.pc = "leave"]
        BY <1>1 DEF NextRun
    <2>2. QED
        BY <1>1, <2>1 DEF NextRun, Cmd, KeepsFlags, KeepsTold, KeepsEnd, KeepsMarks
<1>2. CASE cmd.n # cmd.args.runs
    <2>1. cmd' = [cmd EXCEPT !.n = @ + 1, !.pc = IF Gated THEN "gate" ELSE "lookup"]
        BY <1>2 DEF NextRun
    <2>2. QED
        BY <2>1 DEF NextRun, Cmd, KeepsFlags, KeepsTold, KeepsEnd, KeepsMarks
<1>3. QED
    BY <1>1, <1>2

LEMMA GateFields ==
    ASSUME cmd \in Cmd, Gate
    PROVE  /\ cmd.pc = "gate" /\ KeepsTold /\ KeepsEnd /\ KeepsRuns
           /\ cmd'.args = cmd.args /\ ~cmd'.synced
           /\ \/ cmd'.pc = "lookup" /\ cmd'.tflag = cmd.tflag /\ KeepsMarks
              \/ cmd'.pc = "leave" /\ ~cmd'.tflag /\ Marks("skipped")
<1>1. CASE cmd' = [cmd EXCEPT !.pc = "lookup", !.synced = FALSE]
    BY <1>1 DEF Gate, Cmd, KeepsTold, KeepsEnd, KeepsRuns, KeepsMarks
<1>2. CASE cmd' = [Leaves(cmd, "skipped") EXCEPT !.tflag = FALSE, !.synced = FALSE]
    <2> DEFINE d == Leaves(cmd, "skipped")
    <2>1. d \in Cmd
        BY LeavesType, ResultNames
    <2>2. /\ d.pc = "leave" /\ d.results = cmd.results \cup {"skipped"}
          /\ d.error = cmd.error /\ d.amiss = cmd.amiss /\ d.args = cmd.args
          /\ d.told = cmd.told /\ d.heard = cmd.heard
          /\ d.interrupted = cmd.interrupted /\ d.code = cmd.code
          /\ d.n = cmd.n /\ d.graded = cmd.graded
        BY LeavesFields, ResultNames
    <2>3. cmd' = [d EXCEPT !.tflag = FALSE, !.synced = FALSE]
        BY <1>2
    <2> HIDE DEF d
    <2>4. /\ cmd'.pc = d.pc /\ cmd'.results = d.results /\ cmd'.error = d.error
          /\ cmd'.amiss = d.amiss /\ cmd'.args = d.args /\ cmd'.told = d.told
          /\ cmd'.heard = d.heard /\ cmd'.interrupted = d.interrupted /\ cmd'.code = d.code
          /\ cmd'.n = d.n /\ cmd'.graded = d.graded /\ cmd'.tflag = FALSE /\ cmd'.synced = FALSE
        BY <2>1, <2>3 DEF Cmd
    <2>5. QED
        BY <2>2, <2>4 DEF Gate, Marks, KeepsTold, KeepsEnd, KeepsRuns
<1>3. QED
    BY <1>1, <1>2 DEF Gate

LEMMA TeardownGateFields ==
    ASSUME cmd \in Cmd, TeardownGate
    PROVE  /\ cmd.pc = "t-gate" /\ cmd'.pc = "t-clean"
           /\ KeepsEnd /\ KeepsRuns /\ KeepsMarks
           /\ cmd'.args = cmd.args /\ cmd'.heard = cmd.heard
           /\ \/ cmd'.tflag = cmd.tflag /\ cmd'.synced = cmd.synced /\ cmd'.told = cmd.told
              \/ cmd'.tflag = cmd.tflag /\ ~cmd'.synced /\ cmd'.told = cmd.told
              \/ ~cmd'.tflag /\ ~cmd'.synced /\ cmd'.told
<1>1. CASE cmd' = [cmd EXCEPT !.pc = "t-clean"]
    BY <1>1 DEF TeardownGate, Cmd, KeepsEnd, KeepsRuns, KeepsMarks
<1>2. CASE cmd' = [cmd EXCEPT !.pc = "t-clean", !.synced = FALSE]
    BY <1>2 DEF TeardownGate, Cmd, KeepsEnd, KeepsRuns, KeepsMarks
<1>3. CASE cmd' = [cmd EXCEPT !.pc = "t-clean", !.synced = FALSE, !.tflag = FALSE, !.told = TRUE]
    BY <1>3 DEF TeardownGate, Cmd, KeepsEnd, KeepsRuns, KeepsMarks
<1>4. QED
    BY <1>1, <1>2, <1>3 DEF TeardownGate

\* A problem ends a reset, and is told by a teardown.
LEMMA ProblemFields ==
    ASSUME cmd \in Cmd, NEW p \in Stages, NEW d \in {Problem(cmd, p)}
    PROVE  /\ d \in Cmd
           /\ d.error = cmd.error /\ d.args = cmd.args /\ d.tflag = cmd.tflag
           /\ d.synced = cmd.synced /\ d.heard = cmd.heard
           /\ d.interrupted = cmd.interrupted /\ d.code = cmd.code
           /\ d.n = cmd.n /\ d.graded = cmd.graded
           /\ cmd.pc \in InTry =>
                /\ d.pc = "leave" /\ d.told = cmd.told
                /\ d.results = cmd.results \cup {"fixture-failed"} /\ d.amiss = TRUE
           /\ cmd.pc \notin InTry =>
                /\ d.pc = p /\ d.told = TRUE
                /\ d.results = cmd.results /\ d.amiss = cmd.amiss
<1>1. CASE cmd.pc \in InTry
    <2>1. d = Leaves(cmd, "fixture-failed")
        BY <1>1 DEF Problem
    <2>2. /\ d \in Cmd /\ "fixture-failed" \in Results /\ d \in {Leaves(cmd, "fixture-failed")}
          /\ "fixture-failed" # "skipped"
        BY <2>1, LeavesType, ResultNames
    <2>3. QED
        BY <1>1, <2>2, LeavesFields
<1>2. CASE cmd.pc \notin InTry
    <2>1. d = [cmd EXCEPT !.told = TRUE, !.pc = p]
        BY <1>2 DEF Problem
    <2>2. QED
        BY <1>2, <2>1 DEF Cmd
<1>3. QED
    BY <1>1, <1>2

\* Looking a tag up, and deleting it: on to `yes`, or a problem.
TagStep(yes, after) ==
    /\ KeepsFlags /\ KeepsEnd /\ KeepsRuns /\ cmd'.heard = cmd.heard
    /\ \/ cmd'.pc \in {yes, after} /\ KeepsMarks /\ cmd'.told = cmd.told
       \/ cmd.pc \in InTry /\ cmd'.pc = "leave" /\ Marks("fixture-failed") /\ cmd'.told = cmd.told
       \/ cmd.pc \notin InTry /\ cmd'.pc = after /\ KeepsMarks /\ cmd'.told

LEMMA TagNames ==
    ASSUME cmd \in Cmd
    PROVE  /\ AfterTag \in Stages
           /\ cmd.pc \in {"lookup", "delete"} => cmd.pc \in InTry /\ AfterTag = "clean"
           /\ cmd.pc \in {"t-lookup", "t-delete"} => cmd.pc \notin InTry /\ AfterTag = "t-gate"
BY DEF AfterTag, InTry, Stages, InFinally

LEMMA LookupFields ==
    ASSUME cmd \in Cmd, Lookup
    PROVE  /\ cmd.pc \in {"lookup", "t-lookup"}
           /\ TagStep(IF cmd.pc = "lookup" THEN "delete" ELSE "t-delete", AfterTag)
           /\ cmd'.pc = AfterTag /\ ~(cmd.pc = "t-lookup" /\ cmd'.told) => tag = NoAgent
<1> DEFINE yes == IF cmd.pc = "lookup" THEN "delete" ELSE "t-delete"
<1>0. cmd.pc \in {"lookup", "t-lookup"} /\ AfterTag \in Stages
    BY TagNames DEF Lookup
<1>1. CASE cmd' = Problem(cmd, AfterTag)
    <2> DEFINE d == Problem(cmd, AfterTag)
    <2>1. /\ d.error = cmd.error /\ d.args = cmd.args /\ d.tflag = cmd.tflag
          /\ d.synced = cmd.synced /\ d.heard = cmd.heard
          /\ d.interrupted = cmd.interrupted /\ d.code = cmd.code
          /\ d.n = cmd.n /\ d.graded = cmd.graded
          /\ cmd.pc \in InTry =>
                /\ d.pc = "leave" /\ d.told = cmd.told
                /\ d.results = cmd.results \cup {"fixture-failed"} /\ d.amiss = TRUE
          /\ cmd.pc \notin InTry =>
                /\ d.pc = AfterTag /\ d.told = TRUE
                /\ d.results = cmd.results /\ d.amiss = cmd.amiss
        BY <1>0, ProblemFields
    <2>2. cmd' = d
        BY <1>1
    <2> HIDE DEF d
    <2>3. QED
        BY <1>0, <2>1, <2>2, TagNames DEF TagStep, KeepsFlags, KeepsEnd, KeepsRuns, KeepsMarks, Marks
<1>2. CASE tag = NoAgent /\ cmd' = [cmd EXCEPT !.pc = AfterTag]
    BY <1>0, <1>2 DEF TagStep, KeepsFlags, KeepsEnd, KeepsRuns, KeepsMarks, Marks, Cmd
<1>3. CASE cmd' = [cmd EXCEPT !.id = tag, !.pc = yes]
    <2>1. cmd'.pc = yes /\ KeepsFlags /\ KeepsEnd /\ KeepsRuns /\ KeepsMarks /\ KeepsTold
        BY <1>3 DEF KeepsFlags, KeepsEnd, KeepsRuns, KeepsMarks, KeepsTold, Cmd
    <2>2. cmd'.pc # AfterTag
        BY <1>0, <2>1, TagNames
    <2>3. QED
        BY <1>0, <2>1, <2>2 DEF TagStep, KeepsTold
<1>4. QED
    BY <1>1, <1>2, <1>3 DEF Lookup

LEMMA DeleteFields ==
    ASSUME cmd \in Cmd, Delete
    PROVE  /\ cmd.pc \in {"delete", "t-delete"}
           /\ TagStep(AfterTag, AfterTag)
           /\ tag' \in {tag, NoAgent}
           /\ cmd'.pc = AfterTag /\ ~(cmd.pc = "t-delete" /\ cmd'.told) => tag' = NoAgent
<1>0. cmd.pc \in {"delete", "t-delete"} /\ AfterTag \in Stages
    BY TagNames DEF Delete
<1>1. PICK landed \in BOOLEAN, ok \in BOOLEAN :
        /\ ok => landed
        /\ tag' = IF landed THEN NoAgent ELSE tag
        /\ cmd' = [IF ok THEN [cmd EXCEPT !.pc = AfterTag] ELSE Problem(cmd, AfterTag)
                   EXCEPT !.id = NoAgent]
    BY DEF Delete
<1>2. CASE ok
    <2>1. cmd' = [[cmd EXCEPT !.pc = AfterTag] EXCEPT !.id = NoAgent]
        BY <1>1, <1>2
    <2>2. QED
        BY <1>0, <1>1, <1>2, <2>1 DEF TagStep, KeepsFlags, KeepsEnd, KeepsRuns, KeepsMarks, Cmd
<1>3. CASE ~ok
    <2> DEFINE d == Problem(cmd, AfterTag)
    <2>1. /\ d \in Cmd
          /\ d.error = cmd.error /\ d.args = cmd.args /\ d.tflag = cmd.tflag
          /\ d.synced = cmd.synced /\ d.heard = cmd.heard
          /\ d.interrupted = cmd.interrupted /\ d.code = cmd.code
          /\ d.n = cmd.n /\ d.graded = cmd.graded
          /\ cmd.pc \in InTry =>
                /\ d.pc = "leave" /\ d.told = cmd.told
                /\ d.results = cmd.results \cup {"fixture-failed"} /\ d.amiss = TRUE
          /\ cmd.pc \notin InTry =>
                /\ d.pc = AfterTag /\ d.told = TRUE
                /\ d.results = cmd.results /\ d.amiss = cmd.amiss
        BY <1>0, ProblemFields
    <2>2. cmd' = [d EXCEPT !.id = NoAgent]
        BY <1>1, <1>3
    <2> HIDE DEF d
    <2>3. /\ cmd'.error = d.error /\ cmd'.args = d.args /\ cmd'.tflag = d.tflag
          /\ cmd'.synced = d.synced /\ cmd'.heard = d.heard /\ cmd'.pc = d.pc
          /\ cmd'.interrupted = d.interrupted /\ cmd'.code = d.code /\ cmd'.told = d.told
          /\ cmd'.n = d.n /\ cmd'.graded = d.graded
          /\ cmd'.results = d.results /\ cmd'.amiss = d.amiss
        BY <2>1, <2>2 DEF Cmd
    <2>4. QED
        BY <1>0, <1>1, <2>1, <2>3, TagNames DEF TagStep, KeepsFlags, KeepsEnd, KeepsRuns, KeepsMarks, Marks
<1>4. QED
    BY <1>2, <1>3

LEMMA StartVerifyFields ==
    ASSUME cmd \in Cmd, StartVerify
    PROVE  /\ KeepsFlags /\ KeepsTold /\ KeepsEnd /\ KeepsRuns /\ KeepsMarks
           /\ \/ cmd.pc = "clean" /\ cmd'.pc = "cleaning" /\ job' = Verify("cleanup-only", cmd.args.flag)
              \/ cmd.pc = "build" /\ cmd'.pc = "building" /\ job' = Verify("keep", cmd.args.flag)
              \/ cmd.pc = "t-clean" /\ cmd'.pc = "t-cleaning" /\ job' = Verify("cleanup-only", cmd.tflag)
<1>1. CASE cmd.pc = "clean" /\ job' = Verify("cleanup-only", cmd.args.flag)
           /\ cmd' = [cmd EXCEPT !.pc = "cleaning"]
    BY <1>1 DEF Cmd, KeepsFlags, KeepsTold, KeepsEnd, KeepsRuns, KeepsMarks
<1>2. CASE cmd.pc = "build" /\ job' = Verify("keep", cmd.args.flag)
           /\ cmd' = [cmd EXCEPT !.pc = "building"]
    BY <1>2 DEF Cmd, KeepsFlags, KeepsTold, KeepsEnd, KeepsRuns, KeepsMarks
<1>3. CASE cmd.pc = "t-clean" /\ job' = Verify("cleanup-only", cmd.tflag)
           /\ cmd' = [cmd EXCEPT !.pc = "t-cleaning"]
    BY <1>3 DEF Cmd, KeepsFlags, KeepsTold, KeepsEnd, KeepsRuns, KeepsMarks
<1>4. QED
    BY <1>1, <1>2, <1>3 DEF StartVerify

\* The end of a verify of the reset or of the fixture.
LEMMA ResetFields ==
    ASSUME cmd \in Cmd, JobFits, Cleaned \/ Built
    PROVE  /\ KeepsFlags /\ KeepsTold /\ KeepsEnd /\ KeepsRuns
           /\ job.pos = "done" /\ job' = NoJob
           /\ cmd.pc \in {"cleaning", "building"}
           /\ \/ cmd'.pc = "leave" /\ \E r \in {"skipped", "fixture-failed"} : Marks(r)
              \/ cmd.pc = "cleaning" /\ cmd'.pc = "build" /\ KeepsMarks /\ job.ran /\ ~job.failed
              \/ cmd.pc = "building" /\ cmd'.pc = "start" /\ KeepsMarks /\ ~job.skip /\ ~job.failed
<1>0. job.pos = "done" /\ job' = NoJob /\ cmd.pc \in {"cleaning", "building"}
    BY DEF Cleaned, Built
<1>1. ASSUME NEW r \in {"skipped", "fixture-failed"}, cmd' = Leaves(cmd, r) PROVE
           /\ KeepsFlags /\ KeepsTold /\ KeepsEnd /\ KeepsRuns /\ cmd'.pc = "leave" /\ Marks(r)
    BY <1>1, LeavesNext, ResultNames
<1>2. CASE cmd.pc = "cleaning" /\ job.ran /\ ~job.failed /\ cmd' = [cmd EXCEPT !.pc = "build"]
    BY <1>0, <1>2 DEF Cmd, KeepsFlags, KeepsTold, KeepsEnd, KeepsRuns, KeepsMarks
<1>3. CASE cmd.pc = "building" /\ ~job.skip /\ ~job.failed /\ cmd' = [cmd EXCEPT !.pc = "start"]
    BY <1>0, <1>3 DEF Cmd, KeepsFlags, KeepsTold, KeepsEnd, KeepsRuns, KeepsMarks
<1>4. \/ \E r \in {"skipped", "fixture-failed"} : cmd' = Leaves(cmd, r)
      \/ cmd.pc = "cleaning" /\ job.ran /\ ~job.failed /\ cmd' = [cmd EXCEPT !.pc = "build"]
      \/ cmd.pc = "building" /\ ~job.skip /\ ~job.failed /\ cmd' = [cmd EXCEPT !.pc = "start"]
    BY DEF Cleaned, Built, CleanupError, FixtureError, FixtureSkip, JobFits
<1>5. QED
    BY <1>0, <1>1, <1>2, <1>3, <1>4

LEMMA TornDownFields ==
    ASSUME cmd \in Cmd, TornDown
    PROVE  /\ KeepsFlags /\ KeepsEnd /\ KeepsRuns /\ KeepsMarks
           /\ cmd.pc = "t-cleaning" /\ cmd'.pc = "report" /\ job.pos = "done" /\ job' = NoJob
           /\ cmd'.heard = job.ran
           /\ cmd'.told = IF job.ran /\ job.failed THEN TRUE ELSE cmd.told
BY DEF TornDown, CleanupError, Cmd, KeepsFlags, KeepsEnd, KeepsRuns, KeepsMarks

LEMMA TimesOutFields ==
    ASSUME cmd \in Cmd, VerifyTimesOut
    PROVE  /\ KeepsFlags /\ KeepsTold /\ KeepsEnd /\ KeepsRuns
           /\ Listening(cmd) /\ job' = NoJob /\ cutoff'
           /\ \/ cmd.pc \in InTry /\ cmd'.pc = "leave" /\ Marks("fixture-failed")
              \/ cmd.pc \notin InTry /\ cmd'.pc = "report" /\ KeepsMarks
<1>0. Listening(cmd) /\ job' = NoJob /\ cutoff'
    BY DEF VerifyTimesOut
<1>1. CASE cmd.pc \in InTry /\ cmd' = Leaves(cmd, "fixture-failed")
    BY <1>0, <1>1, LeavesNext, ResultNames
<1>2. CASE cmd.pc \notin InTry /\ cmd' = [cmd EXCEPT !.pc = "report"]
    BY <1>0, <1>2 DEF Cmd, KeepsFlags, KeepsTold, KeepsEnd, KeepsRuns, KeepsMarks
<1>3. QED
    BY <1>1, <1>2 DEF VerifyTimesOut

LEMMA StartAgentFields ==
    ASSUME cmd \in Cmd, StartAgent
    PROVE  /\ KeepsFlags /\ KeepsTold /\ KeepsEnd /\ KeepsRuns
           /\ cmd.pc = "start" /\ cmd'.pc = "agent"
           /\ cmd'.results = cmd.results /\ cmd'.amiss = cmd.amiss /\ cmd'.error = FALSE
BY DEF StartAgent, Cmd, KeepsFlags, KeepsTold, KeepsEnd, KeepsRuns

LEMMA TurnFields ==
    ASSUME cmd \in Cmd, TurnEnds \/ TurnTimesOut
    PROVE  /\ KeepsFlags /\ KeepsTold /\ KeepsEnd /\ KeepsRuns
           /\ cmd.pc = "agent" /\ cmd'.results = cmd.results
           /\ \/ cmd'.pc \in {"agent", "check"} /\ KeepsMarks
              \/ cmd'.pc = "check" /\ cmd'.error = TRUE /\ cmd'.amiss = TRUE
<1>0. cmd.pc = "agent"
    BY DEF TurnEnds, TurnTimesOut
<1>1. CASE cmd' = [cmd EXCEPT !.turn = @ + 1]
    BY <1>0, <1>1 DEF Cmd, KeepsFlags, KeepsTold, KeepsEnd, KeepsRuns, KeepsMarks
<1>2. CASE cmd' = [cmd EXCEPT !.pc = "check"]
    BY <1>0, <1>2 DEF Cmd, KeepsFlags, KeepsTold, KeepsEnd, KeepsRuns, KeepsMarks
<1>3. CASE cmd' = [cmd EXCEPT !.pc = "check", !.error = TRUE, !.amiss = TRUE]
    BY <1>0, <1>3 DEF Cmd, KeepsFlags, KeepsTold, KeepsEnd, KeepsRuns, KeepsMarks
<1>4. QED
    BY <1>1, <1>2, <1>3 DEF TurnEnds, TurnTimesOut

LEMMA GradeFields ==
    ASSUME cmd \in Cmd, Grade
    PROVE  /\ KeepsFlags /\ KeepsTold /\ KeepsEnd
           /\ cmd.pc = "check" /\ cmd'.pc = "next"
           /\ cmd'.n = cmd.n /\ cmd'.graded = cmd.graded + 1 /\ cmd'.error = FALSE
           /\ \/ cmd'.results = cmd.results \cup {"passed"} /\ ~cmd.error /\ cmd'.amiss = cmd.amiss
              \/ \E r \in {"failed", "broken"} : cmd'.results = cmd.results \cup {r}
<1>0. cmd.pc = "check"
    BY DEF Grade
<1>1. PICK passed \in BOOLEAN :
        cmd' = [cmd EXCEPT !.pc = "next", !.turn = 0, !.error = FALSE,
                           !.graded = @ + 1, !.amiss = IF passed THEN @ ELSE TRUE,
                           !.results = @ \cup {IF cmd.error THEN "broken"
                                               ELSE IF passed THEN "passed" ELSE "failed"}]
    BY Zenon DEF Grade
<1>2. /\ KeepsFlags /\ KeepsTold /\ KeepsEnd
      /\ cmd'.pc = "next" /\ cmd'.n = cmd.n /\ cmd'.error = FALSE
    BY <1>1 DEF Cmd, KeepsFlags, KeepsTold, KeepsEnd
<1>3. cmd'.graded = cmd.graded + 1
    BY <1>1 DEF Cmd
<1>4. cmd'.amiss = IF passed THEN cmd.amiss ELSE TRUE
    BY <1>1 DEF Cmd
<1>5. cmd'.results = cmd.results \cup {IF cmd.error THEN "broken"
                                       ELSE IF passed THEN "passed" ELSE "failed"}
    BY <1>1 DEF Cmd
<1>6. CASE cmd.error
    BY <1>0, <1>2, <1>3, <1>5, <1>6
<1>7. CASE ~cmd.error
    BY <1>0, <1>2, <1>3, <1>4, <1>5, <1>7
<1>8. QED
    BY <1>6, <1>7

LEMMA LeaveFields ==
    ASSUME cmd \in Cmd, Leave
    PROVE  /\ KeepsFlags /\ KeepsTold /\ KeepsEnd /\ KeepsRuns /\ KeepsMarks
           /\ cmd.pc = "leave" /\ cmd'.pc \in {"report", "t-lookup"}
BY DEF Leave, Cmd, KeepsFlags, KeepsTold, KeepsEnd, KeepsRuns, KeepsMarks

LEMMA ReportFields ==
    ASSUME cmd \in Cmd, Report
    PROVE  /\ KeepsFlags /\ KeepsTold /\ KeepsRuns /\ KeepsMarks
           /\ cmd'.interrupted = cmd.interrupted
           /\ cmd.pc = "report" /\ cmd'.pc = "ended"
           /\ cmd'.code = IF cmd.interrupted THEN 130 ELSE Code(cmd.results)
<1>1. cmd.pc = "report" /\ cmd' = [cmd EXCEPT !.pc = "ended",
                          !.code = IF cmd.interrupted THEN 130 ELSE Code(cmd.results)]
    BY DEF Report
<1>2. QED
    BY <1>1 DEF Cmd, KeepsFlags, KeepsTold, KeepsRuns, KeepsMarks

LEMMA CutFields ==
    ASSUME cmd \in Cmd, Interrupt \/ Killed
    PROVE  /\ KeepsFlags /\ KeepsTold /\ KeepsRuns
           /\ cmd.pc # "ended" /\ cmd'.pc \in {"leave", "report", "ended"}
           /\ cmd'.pc \in InTry => FALSE
           /\ cmd'.interrupted = TRUE
           /\ cmd'.pc = "ended" => cmd'.code = 130
           /\ job' = NoJob
<1>1. CASE Interrupt
    <2>1. /\ cmd' = [cmd EXCEPT !.pc = IF cmd.pc \in InTry THEN "leave" ELSE "report",
                          !.interrupted = TRUE, !.results = {}, !.amiss = TRUE]
          /\ cmd.pc \in InTry \cup InFinally \cup {"leave"} /\ job' = NoJob
        BY <1>1 DEF Interrupt
    <2>2. /\ KeepsFlags /\ KeepsTold /\ KeepsRuns /\ cmd'.interrupted = TRUE
          /\ cmd'.pc = IF cmd.pc \in InTry THEN "leave" ELSE "report"
        BY <2>1 DEF Cmd, KeepsFlags, KeepsTold, KeepsRuns
    <2>3. cmd.pc # "ended"
        BY <2>1 DEF InTry, InFinally
    <2>4. QED
        BY <2>1, <2>2, <2>3 DEF InTry
<1>2. CASE Killed
    <2>1. /\ cmd' = [cmd EXCEPT !.pc = "ended", !.interrupted = TRUE, !.amiss = TRUE, !.code = 130]
          /\ cmd.pc # "ended" /\ job' = NoJob
        BY <1>2 DEF Killed
    <2>2. QED
        BY <2>1 DEF Cmd, KeepsFlags, KeepsTold, KeepsRuns, InTry
<1>3. QED
    BY <1>1, <1>2

LEMMA BeginFields ==
    ASSUME NEW args \in Commands, Begin(args)
    PROVE  /\ cmd.pc = "ended" /\ cmd'.args = args
           /\ cmd'.tflag = args.flag /\ ~cmd'.synced /\ ~cmd'.told /\ ~cmd'.heard
           /\ ~cmd'.interrupted /\ ~cmd'.error /\ cmd'.code = 2
           /\ cmd'.n = 0 /\ cmd'.graded = 0
           /\ \/ cmd'.pc = "ended"
              \/ cmd'.pc = "report" /\ cmd'.results = {"skipped"} /\ ~cmd'.amiss
              \/ cmd'.pc = "next" /\ ~cmd'.amiss /\ cmd'.results = {}
BY DEF Begin, Fresh

LEMMA JobStepFields ==
    ASSUME cmd \in Cmd, JobStep
    PROVE  /\ KeepsTold /\ KeepsEnd /\ KeepsRuns /\ KeepsMarks
           /\ cmd'.pc = cmd.pc /\ cmd'.args = cmd.args /\ cmd'.tflag = cmd.tflag
           /\ job.pos # "sync" => cmd'.synced = cmd.synced
BY DEF JobStep, Cmd, KeepsTold, KeepsEnd, KeepsRuns, KeepsMarks

-----------------------------------------------------------------------------
(* Who may act                                                             *)

\* A step that starts and ends no agent, and leaves no turn.
LEMMA AliveKept ==
    ASSUME Alive, UNCHANGED <<life, stray>>,
           cmd.pc = "agent" => cmd'.pc = "agent" /\ agents' = agents
    PROVE  Alive'
BY DEF Alive

LEMMA AliveStep == TypeOK /\ Alive /\ [Next]_vars => Alive'
<1> SUFFICES ASSUME TypeOK, Alive, [Next]_vars PROVE Alive'
    OBVIOUS
<1>0. cmd \in Cmd /\ agents \in 0..MaxAgents /\ MaxAgents \in Nat /\ life \in [Agents -> {"off", "on", "last"}]
    BY ConstantTypes DEF TypeOK
<1>1. ASSUME NEW args \in Commands, Begin(args) PROVE Alive'
    BY <1>1, AliveKept DEF Begin
<1>2. CASE NextRun \/ Gate \/ TeardownGate \/ Lookup \/ Delete \/ StartVerify
    BY <1>2, AliveKept DEF NextRun, Gate, TeardownGate, Lookup, Delete, StartVerify
<1>3. CASE Cleaned \/ Built \/ TornDown \/ VerifyTimesOut \/ Grade \/ Leave
    BY <1>3, AliveKept DEF Cleaned, Built, TornDown, VerifyTimesOut, Listening, Grade, Leave
<1>4. CASE StartAgent
    <2>1. cmd'.pc = "agent"
        BY <1>0, <1>4 DEF StartAgent, Cmd
    <2>2. QED
        BY <1>0, <1>4, <2>1 DEF StartAgent, Alive, Agents
<1>5. CASE TurnEnds
    <2>1. CASE cmd.turn < Turns /\ cmd' = [cmd EXCEPT !.turn = @ + 1] /\ UNCHANGED life
        <3>1. cmd'.pc = "agent"
            BY <1>0, <1>5, <2>1 DEF TurnEnds, Cmd
        <3>2. QED
            BY <1>5, <2>1, <3>1, AliveKept DEF TurnEnds
    <2>2. CASE life' = [life EXCEPT ![agents] = "off"]
        BY <1>0, <1>5, <2>2 DEF TurnEnds, Alive
    <2>3. QED
        BY <1>5, <2>1, <2>2 DEF TurnEnds
<1>6. CASE TurnTimesOut
    <2>1. PICK left \in {"off", "last"} :
            /\ life' = [life EXCEPT ![agents] = left]
            /\ stray' = IF left = "last" THEN stray \cup {agents} ELSE stray
        BY <1>6 DEF TurnTimesOut
    <2>2. QED
        BY <1>0, <1>6, <2>1 DEF Alive
<1>7. CASE Report
    BY <1>0, <1>7 DEF Report, Alive, Acting
<1>8. CASE Interrupt \/ Killed
    <2>1. stray' = stray \cup {a \in Agents : life[a] = "on"} /\ UNCHANGED life
        BY <1>8 DEF Interrupt, Killed
    <2>2. QED
        BY <2>1 DEF Alive
<1>9. CASE JobStep
    <2>1. cmd'.pc = cmd.pc
        BY <1>0, <1>9 DEF JobStep, Cmd
    <2>2. QED
        BY <1>9, <2>1, AliveKept DEF JobStep
<1>10. ASSUME NEW o \in orphans, OrphanStep(o) \/ OrphanEnds(o) PROVE Alive'
    BY <1>10, AliveKept DEF OrphanStep, OrphanEnds
<1>11. ASSUME NEW a \in Agents, AgentActs(a) PROVE Alive'
    BY <1>0, <1>11 DEF AgentActs, Alive
<1>12. ASSUME NEW a \in Agents, StrayEnds(a) PROVE Alive'
    BY <1>0, <1>12 DEF StrayEnds, Alive
<1>13. CASE Others \/ UNCHANGED vars
    BY <1>13, AliveKept DEF Others, vars
<1>14. QED
    BY <1>1, <1>2, <1>3, <1>4, <1>5, <1>6, <1>7, <1>8, <1>9, <1>10, <1>11, <1>12, <1>13 DEF Next, RunnerStep

-----------------------------------------------------------------------------
(* The verify a runner waits for                                           *)

\* Steps that leave the verifies alone, and wait for none before or after.
LEMMA JobKept ==
    ASSUME JobFits, UNCHANGED <<job, orphans, cutoff>>, ~Listening(cmd), ~Listening(cmd')
    PROVE  JobFits'
BY DEF JobFits, Listening

\* Steps that leave them and the command alone.
LEMMA JobUntouched ==
    ASSUME JobFits, UNCHANGED <<job, orphans, cutoff, cmd>>
    PROVE  JobFits'
BY DEF JobFits, Listening

\* Where a verify is after a step of it.
LEMMA AfterFits ==
    ASSUME NEW j \in Job, NEW out \in Outcomes, Does(j, out),
           j.mode = "keep" => j.pos # "drop",
           j.mode = "cleanup-only" => j.pos \notin Fixture,
           j.pos \in {"read", "sync"} => j.flag /\ (j.mode = "cleanup-only" => j.ran)
    PROVE  /\ After(j, out).mode = j.mode /\ After(j, out).flag = j.flag
           /\ After(j, out).pos \in {"views", "read", "sync", "done"}
           /\ After(j, out).pos = "views" => j.pos = "database"
           /\ After(j, out).pos \in {"read", "sync"} =>
                 j.flag /\ (j.mode = "cleanup-only" => After(j, out).ran)
           /\ j.mode = "cleanup-only" => After(j, out).ran \/ After(j, out).failed
<1>1. /\ After(j, out).mode = j.mode /\ After(j, out).flag = j.flag
      /\ After(j, out).pos \in {"views", "read", "sync", "done"}
    BY DEF After, Job, Tail, Outcomes
<1>2. /\ After(j, out).pos = "views" => j.pos = "database"
      /\ After(j, out).pos \in {"read", "sync"} => j.flag
    BY DEF After, Job, Tail, Outcomes, Does, GivesUp, Drops, Builds, Reads, Syncs, Fixture
<1>3. CASE out = "gave-up"
    <2>1. After(j, out).pos = "done"
        BY <1>3 DEF After, Job, Stops
    <2>2. j.mode = "cleanup-only" => After(j, out).failed
        BY <1>3 DEF After, Job
    <2>3. QED
        BY <1>1, <1>2, <2>1, <2>2
<1>4. CASE out # "gave-up"
    <2>1. j.mode = "cleanup-only" => After(j, out).ran
        BY <1>4 DEF After, Job
    <2>2. QED
        BY <1>1, <1>2, <2>1
<1>5. QED
    BY <1>3, <1>4

LEMMA JobFitsStep == TypeOK /\ JobFits /\ [Next]_vars => JobFits'
<1> SUFFICES ASSUME TypeOK, JobFits, [Next]_vars PROVE JobFits'
    OBVIOUS
<1>0. cmd \in Cmd /\ job \in Job /\ Gated \in BOOLEAN
    BY ConstantTypes DEF TypeOK
<1>1. ASSUME NEW args \in Commands, Begin(args) PROVE JobFits'
    <2>1. cmd'.pc \in {"ended", "report", "next"}
        BY <1>1 DEF Begin, Fresh
    <2>2. QED
        BY <1>1, <2>1, JobKept DEF Begin, Listening
<1>2. CASE NextRun \/ Gate \/ TeardownGate \/ Lookup \/ Delete \/ Grade \/ Leave
    <2>1. ~Listening(cmd) /\ UNCHANGED <<job, orphans, cutoff>>
        <3>1. cmd.pc \in {"next", "gate", "t-gate", "lookup", "t-lookup", "delete", "t-delete", "check", "leave"}
            BY <1>0, <1>2, NextRunFields, GateFields, TeardownGateFields, LookupFields, DeleteFields,
               GradeFields, LeaveFields
        <3>2. NextRun \/ Gate \/ TeardownGate \/ Lookup \/ Delete => UNCHANGED <<job, orphans, cutoff>>
            BY DEF NextRun, Gate, TeardownGate, Lookup, Delete
        <3>3. Grade \/ Leave => UNCHANGED <<job, orphans, cutoff>>
            BY Zenon DEF Grade, Leave
        <3>4. QED
            BY <1>2, <3>1, <3>2, <3>3 DEF Listening
    <2>2. CASE NextRun \/ Gate \/ TeardownGate \/ Grade \/ Leave
        <3>1. cmd'.pc \in {"leave", "gate", "lookup", "t-clean", "next", "report", "t-lookup"}
            BY <1>0, <2>2, NextRunFields, GateFields, TeardownGateFields, GradeFields, LeaveFields
        <3>2. QED
            BY <2>1, <3>1, JobKept DEF Listening
    <2>3. CASE Lookup \/ Delete
        <3>1. cmd'.pc \in {"leave", "clean", "t-gate", "delete", "t-delete"}
            BY <1>0, <2>3, LookupFields, DeleteFields, TagNames DEF TagStep
        <3>2. QED
            BY <2>1, <3>1, JobKept DEF Listening
    <2>4. QED
        BY <1>2, <2>2, <2>3
<1>3. CASE StartVerify
    <2>1. UNCHANGED <<orphans, cutoff>>
        BY <1>3 DEF StartVerify
    <2>2. CASE cmd'.pc = "cleaning" /\ job' = Verify("cleanup-only", cmd.args.flag)
        BY <2>1, <2>2 DEF JobFits, Listening, Verify, NoJob, Fixture
    <2>3. CASE cmd'.pc = "building" /\ job' = Verify("keep", cmd.args.flag)
        BY <2>1, <2>3 DEF JobFits, Listening, Verify, NoJob, Fixture
    <2>4. CASE cmd'.pc = "t-cleaning" /\ job' = Verify("cleanup-only", cmd.tflag) /\ cmd'.tflag = cmd.tflag
        BY <2>1, <2>4 DEF JobFits, Listening, Verify, NoJob, Fixture
    <2>5. QED
        BY <1>0, <1>3, <2>2, <2>3, <2>4, StartVerifyFields DEF KeepsFlags
<1>4. CASE Cleaned \/ Built \/ TornDown
    <2>1. cmd'.pc \in {"leave", "build", "start", "report"}
        BY <1>0, <1>4, ResetFields, TornDownFields
    <2>2. job' = NoJob /\ UNCHANGED <<orphans, cutoff>>
        BY <1>4 DEF Cleaned, Built, TornDown
    <2>3. QED
        BY <2>1, <2>2 DEF JobFits, Listening, NoJob
<1>5. CASE VerifyTimesOut
    <2>1. cmd'.pc \in {"leave", "report"}
        BY <1>0, <1>5 DEF VerifyTimesOut, Leaves, Cmd
    <2>2. QED
        BY <1>5, <2>1 DEF VerifyTimesOut, JobFits, Listening, NoJob
<1>6. CASE StartAgent \/ TurnEnds \/ TurnTimesOut \/ Report
    <2>1. ~Listening(cmd) /\ UNCHANGED <<job, orphans, cutoff>>
        BY <1>6 DEF StartAgent, TurnEnds, TurnTimesOut, Report, Listening
    <2>2. cmd'.pc \in {"agent", "check", "ended"}
        BY <1>0, <1>6 DEF StartAgent, TurnEnds, TurnTimesOut, Report, Cmd
    <2>3. QED
        BY <2>1, <2>2, JobKept DEF Listening
<1>7. CASE Interrupt \/ Killed
    <2>1. cmd'.pc \in {"leave", "report", "ended"} /\ job' = NoJob
        BY <1>0, <1>7 DEF Interrupt, Killed, Cmd
    <2>2. ~cutoff' => ~cutoff /\ orphans' = orphans
        BY <1>7 DEF Interrupt, Killed
    <2>3. QED
        BY <2>1, <2>2 DEF JobFits, Listening, NoJob
<1>8. CASE JobStep
    <2>1. PICK out \in Outcomes : Does(job, out) /\ job' = After(job, out)
        BY <1>8 DEF JobStep
    <2>2. job.pos # "done"
        BY <2>1 DEF Does, GivesUp, Drops, Builds, Reads, Syncs, Fixture
    <2>3. Listening(cmd)
        BY <2>2 DEF JobFits, NoJob
    <2>4. cmd'.pc = cmd.pc /\ cmd'.tflag = cmd.tflag /\ UNCHANGED <<orphans, cutoff>>
        BY <1>0, <1>8 DEF JobStep, Cmd
    <2>5. /\ job.mode = "keep" => job.pos # "drop"
          /\ job.mode = "cleanup-only" => job.pos \notin Fixture
          /\ job.pos \in {"read", "sync"} => job.flag /\ (job.mode = "cleanup-only" => job.ran)
        BY <2>3 DEF JobFits, Listening
    <2>6. /\ job'.mode = job.mode /\ job'.flag = job.flag
          /\ job'.pos \in {"views", "read", "sync", "done"}
          /\ job'.pos = "views" => job.pos = "database"
          /\ job'.pos \in {"read", "sync"} => job.flag /\ (job.mode = "cleanup-only" => job'.ran)
          /\ job.mode = "cleanup-only" => job'.ran \/ job'.failed
        BY <1>0, <2>1, <2>5, AfterFits
    <2>7. QED
        BY <2>3, <2>4, <2>5, <2>6 DEF JobFits, Listening, Fixture
<1>9. ASSUME NEW o \in orphans, OrphanStep(o) \/ OrphanEnds(o) PROVE JobFits'
    BY <1>9 DEF OrphanStep, OrphanEnds, JobFits, Listening
<1>10. ASSUME NEW a \in Agents, AgentActs(a) \/ StrayEnds(a) PROVE JobFits'
    BY <1>10, JobUntouched DEF AgentActs, StrayEnds
<1>11. CASE Others \/ UNCHANGED vars
    BY <1>11, JobUntouched DEF Others, vars
<1>12. QED
    BY <1>1, <1>2, <1>3, <1>4, <1>5, <1>6, <1>7, <1>8, <1>9, <1>10, <1>11 DEF Next, RunnerStep

-----------------------------------------------------------------------------
(* What is left of agents                                                  *)

\* Where nothing is said of what agents left.
Unsaid == {"next", "gate", "lookup", "delete", "leave", "t-lookup", "t-delete", "report", "ended"}

LEMMA SweptUnsaid ==
    ASSUME cmd'.pc \in Unsaid
    PROVE  Swept'
BY DEF Swept, Unsaid, Listening

LEMMA SweptKept ==
    ASSUME Swept, UNCHANGED <<tag, cmd, job, agents, stray>>, views' \subseteq views
    PROVE  Swept'
BY DEF Swept, Listening, Dropped

\* What a verify does to views and tags, and when its cleanup is through.
LEMMA DropsViews ==
    ASSUME NEW j \in Job, NEW out \in Outcomes, Does(j, out)
    PROVE  /\ UNCHANGED tag
           /\ views' = views \/ views' = {}
           /\ j.mode = "cleanup-only" /\ j.pos = "drop" /\ ~After(j, out).failed => db' = {} /\ views' = {}
           /\ j.pos # "drop" => views' = views
           /\ j.pos \notin {"drop", "database", "views"} => db' = db
           /\ After(j, out).mode = j.mode /\ (j.failed => After(j, out).failed)
<1>1. UNCHANGED tag /\ (views' = views \/ views' = {}) /\ (j.pos # "drop" => views' = views)
      /\ (j.pos \notin {"drop", "database", "views"} => db' = db)
    BY DEF Does, GivesUp, Drops, Builds, Reads, Syncs, Synchronised, server, Fixture
<1>2. After(j, out).mode = j.mode /\ (j.failed => After(j, out).failed)
    BY DEF After, Job
<1>3. ASSUME j.mode = "cleanup-only", j.pos = "drop", ~After(j, out).failed
      PROVE  db' = {} /\ views' = {}
    <2>1. out = "ok"
        BY <1>3 DEF After, Job
    <2>2. QED
        BY <1>3, <2>1 DEF Does, GivesUp, Drops, Builds, Reads, Syncs, Fixture
<1>4. QED
    BY <1>1, <1>2, <1>3

LEMMA DroppedStep ==
    ASSUME TypeOK, JobFits, JobStep, Dropped', Listening(cmd)
    PROVE  /\ ~Dropped => db' = {} /\ views' = {}
           /\ Dropped => views' = views /\ db' = db
<1>0. job \in Job
    BY DEF TypeOK
<1>1. PICK out \in Outcomes : Does(job, out) /\ job' = After(job, out)
    BY DEF JobStep
<1>2. /\ job'.mode = job.mode /\ (job.failed => job'.failed)
      /\ job.mode = "cleanup-only" /\ job.pos = "drop" /\ ~job'.failed => db' = {} /\ views' = {}
      /\ job.pos # "drop" => views' = views
      /\ job.pos \notin {"drop", "database", "views"} => db' = db
    BY <1>0, <1>1, DropsViews
<1>3. job.mode = "cleanup-only" /\ ~job.failed /\ ~job'.failed
    BY <1>2 DEF Dropped
<1>4. job.pos \in {"drop", "read", "sync"}
    <2>1. job.pos # "done"
        BY <1>1 DEF Does, GivesUp, Drops, Builds, Reads, Syncs, Fixture
    <2>2. job.pos \notin Fixture
        BY <1>3 DEF JobFits, Listening
    <2>3. QED
        BY <1>0, <2>1, <2>2 DEF Job, Fixture
<1>5. CASE job.pos = "drop"
    BY <1>2, <1>3, <1>5 DEF Dropped
<1>6. CASE job.pos \in {"read", "sync"}
    <2>1. Dropped
        BY <1>3, <1>6 DEF Dropped, JobFits
    <2>2. QED
        BY <1>2, <1>6, <2>1
<1>7. QED
    BY <1>4, <1>5, <1>6

LEMMA SweptStep == TypeOK /\ Alive /\ JobFits /\ Swept /\ [Next]_vars => Swept'
<1> SUFFICES ASSUME TypeOK, Alive, JobFits, Swept, [Next]_vars PROVE Swept'
    OBVIOUS
<1>0. cmd \in Cmd /\ job \in Job
    BY DEF TypeOK
<1>1. ASSUME NEW args \in Commands, Begin(args) PROVE Swept'
    BY <1>1, BeginFields, SweptUnsaid DEF Unsaid
<1>2. CASE NextRun \/ Gate \/ Grade \/ Leave \/ Report \/ TornDown
    BY <1>0, <1>2, NextRunFields, GateFields, GradeFields, LeaveFields, ReportFields, TornDownFields,
       SweptUnsaid DEF Unsaid
<1>3. CASE VerifyTimesOut \/ Interrupt \/ Killed
    BY <1>0, <1>3, TimesOutFields, CutFields, SweptUnsaid DEF Unsaid
<1>4. CASE TeardownGate
    <2>1. UNCHANGED <<views, tag, stray>>
        BY <1>4 DEF TeardownGate, server
    <2>2. cmd.pc = "t-gate" /\ cmd'.pc = "t-clean" /\ (~cmd'.told => ~cmd.told)
        BY <1>0, <1>4, TeardownGateFields
    <2>3. QED
        BY <2>1, <2>2 DEF Swept, Listening
<1>5. CASE Lookup
    <2>1. UNCHANGED <<views, tag, stray>>
        BY <1>5 DEF Lookup, server
    <2>2. \/ cmd'.pc \in {"delete", "t-delete", "leave"}
          \/ cmd'.pc = "clean" /\ tag = NoAgent
          \/ cmd'.pc = "t-gate" /\ (cmd'.told \/ tag = NoAgent)
        BY <1>0, <1>5, LookupFields, TagNames DEF TagStep
    <2>3. QED
        BY <2>1, <2>2 DEF Swept, Listening
<1>6. CASE Delete
    <2>1. UNCHANGED <<views, stray>>
        BY <1>6 DEF Delete
    <2>2. \/ cmd'.pc = "leave"
          \/ cmd'.pc = "clean" /\ tag' = NoAgent
          \/ cmd'.pc = "t-gate" /\ (cmd'.told \/ tag' = NoAgent)
        BY <1>0, <1>6, DeleteFields, TagNames DEF TagStep
    <2>3. QED
        BY <2>1, <2>2 DEF Swept, Listening
<1>7. CASE StartVerify
    <2>1. UNCHANGED <<views, tag, stray>> /\ cmd'.told = cmd.told
        BY <1>0, <1>7, StartVerifyFields DEF StartVerify, server, KeepsTold
    <2>2. \/ cmd.pc = "clean" /\ cmd'.pc = "cleaning" /\ job'.ran = FALSE
          \/ cmd.pc = "build" /\ cmd'.pc = "building" /\ job'.ran = FALSE
          \/ cmd.pc = "t-clean" /\ cmd'.pc = "t-cleaning" /\ job'.ran = FALSE
        BY <1>0, <1>7, StartVerifyFields DEF Verify, NoJob
    <2>3. QED
        BY <2>1, <2>2 DEF Swept, Listening, Dropped
<1>8. CASE Cleaned \/ Built
    <2>1. UNCHANGED <<views, tag, stray>>
        BY <1>8 DEF Cleaned, Built, server
    <2>2. \/ cmd'.pc = "leave"
          \/ cmd.pc = "cleaning" /\ cmd'.pc = "build" /\ job.ran /\ ~job.failed /\ job.pos = "done"
          \/ cmd.pc = "building" /\ cmd'.pc = "start"
        BY <1>0, <1>8, ResetFields
    <2>3. cmd.pc = "cleaning" => job.mode = "cleanup-only"
        BY DEF JobFits
    <2>4. QED
        BY <2>1, <2>2, <2>3 DEF Swept, Listening, Dropped
<1>9. CASE StartAgent
    <2>1. UNCHANGED <<views, tag, stray>>
        BY <1>9 DEF StartAgent, server
    <2>2. cmd.pc = "start" /\ cmd'.pc = "agent"
        BY <1>0, <1>9, StartAgentFields
    <2>3. QED
        BY <2>1, <2>2 DEF Swept, Listening
<1>10. CASE TurnEnds \/ TurnTimesOut
    <2>1. UNCHANGED <<views, tag, agents>> /\ stray \subseteq stray'
        BY <1>10 DEF TurnEnds, TurnTimesOut, server
    <2>2. cmd.pc = "agent" /\ cmd'.pc \in {"agent", "check"}
        BY <1>0, <1>10, TurnFields
    <2>3. QED
        BY <2>1, <2>2 DEF Swept, Listening
<1>11. CASE JobStep
    <2>1. PICK out \in Outcomes : Does(job, out)
        BY <1>11 DEF JobStep
    <2>2. UNCHANGED <<tag, agents, stray>> /\ (views' = views \/ views' = {})
        BY <1>0, <1>11, <2>1, DropsViews DEF JobStep
    <2>3. cmd'.pc = cmd.pc /\ cmd'.told = cmd.told
        BY <1>0, <1>11, JobStepFields DEF KeepsTold
    <2>4. Listening(cmd) /\ Dropped' => views' \subseteq stray
        BY <1>11, <2>2, DroppedStep DEF Swept
    <2>5. QED
        BY <2>2, <2>3, <2>4 DEF Swept, Listening
<1>12. ASSUME NEW o \in orphans, OrphanStep(o) \/ OrphanEnds(o) PROVE Swept'
    <2>1. o \in Job
        BY DEF TypeOK
    <2>2. UNCHANGED tag /\ views' \subseteq views
        BY <1>12, <2>1, DropsViews DEF OrphanStep, OrphanEnds, server
    <2>3. QED
        BY <1>12, <2>2, SweptKept DEF OrphanStep, OrphanEnds
<1>13. ASSUME NEW a \in Agents, AgentActs(a) PROVE Swept'
    <2>1. a \in stray \/ (cmd.pc = "agent" /\ a = agents)
        BY <1>13 DEF AgentActs, Alive
    <2>2. UNCHANGED <<cmd, job, agents, stray>> /\ views' \subseteq views \cup {a} /\ tag' \in {tag, a}
        BY <1>13 DEF AgentActs, Synchronised
    <2>3. QED
        BY <2>1, <2>2 DEF Swept, Listening, Dropped
<1>14. ASSUME NEW a \in Agents, StrayEnds(a) PROVE Swept'
    BY <1>14, SweptKept DEF StrayEnds, server
<1>15. CASE Others \/ UNCHANGED vars
    BY <1>15, SweptKept DEF Others, Synchronised, vars
<1>16. QED
    BY <1>1, <1>2, <1>3, <1>4, <1>5, <1>6, <1>7, <1>8, <1>9, <1>10, <1>11, <1>12, <1>13, <1>14, <1>15
       DEF Next, RunnerStep

-----------------------------------------------------------------------------
(* What may be synchronised                                                *)

LEMMA FlaggedKept ==
    ASSUME Flagged, cmd'.args = cmd.args, cmd'.tflag = cmd.tflag, cmd'.heard = cmd.heard,
           cmd'.synced => cmd.synced,
           cmd'.pc \in InTry => cmd.pc \in InTry,
           cmd.heard => cmd'.pc \in {"report", "ended"}
    PROVE  Flagged'
BY DEF Flagged

LEMMA Apart ==
    /\ InTry \cap {"report", "ended", "leave"} = {} /\ InTry \cap InFinally = {}
    /\ InFinally \cap {"report", "ended", "leave"} = {}
    /\ {"next", "gate", "lookup", "delete", "clean", "cleaning", "build", "building", "start",
        "agent", "check"} = InTry
    /\ {"t-lookup", "t-delete", "t-gate", "t-clean", "t-cleaning"} = InFinally
BY DEF InTry, InFinally

LEMMA FlaggedStep == TypeOK /\ JobFits /\ Flagged /\ [Next]_vars => Flagged'
<1> SUFFICES ASSUME TypeOK, JobFits, Flagged, [Next]_vars PROVE Flagged'
    OBVIOUS
<1>0. cmd \in Cmd /\ job \in Job
    BY DEF TypeOK
<1>h. cmd.heard => cmd.pc \in {"report", "ended"}
    BY DEF Flagged
<1>1. ASSUME NEW args \in Commands, Begin(args) PROVE Flagged'
    BY <1>1, BeginFields DEF Flagged
<1>2. CASE NextRun \/ Grade \/ StartAgent \/ Leave \/ Report
    <2>1. KeepsFlags /\ KeepsTold /\ (cmd'.pc \in InTry => cmd.pc \in InTry)
        BY <1>0, <1>2, NextRunFields, GradeFields, StartAgentFields, LeaveFields, ReportFields, Apart
    <2>2. cmd.heard => cmd'.pc \in {"report", "ended"}
        BY <1>0, <1>h, <1>2, NextRunFields, GradeFields, StartAgentFields, LeaveFields, ReportFields
    <2>3. QED
        BY <2>1, <2>2, FlaggedKept DEF KeepsFlags, KeepsTold
<1>3. CASE StartVerify \/ Cleaned \/ Built
    <2>1. KeepsFlags /\ KeepsTold /\ (cmd'.pc \in InTry => cmd.pc \in InTry)
        BY <1>0, <1>3, StartVerifyFields, ResetFields, Apart
    <2>2. ~cmd.heard
        BY <1>0, <1>h, <1>3, StartVerifyFields, ResetFields
    <2>3. QED
        BY <2>1, <2>2, FlaggedKept DEF KeepsFlags, KeepsTold
<1>4. CASE VerifyTimesOut \/ TurnEnds \/ TurnTimesOut
    <2>1. KeepsFlags /\ KeepsTold /\ (cmd'.pc \in InTry => cmd.pc \in InTry)
        BY <1>0, <1>4, TimesOutFields, TurnFields, Apart
    <2>2. ~cmd.heard
        BY <1>0, <1>h, <1>4, TimesOutFields, TurnFields DEF Listening
    <2>3. QED
        BY <2>1, <2>2, FlaggedKept DEF KeepsFlags, KeepsTold
<1>5. CASE Gate
    <2>1. cmd.pc = "gate" /\ cmd'.heard = cmd.heard /\ cmd'.args = cmd.args /\ ~cmd'.synced
          /\ ((cmd'.pc = "lookup" /\ cmd'.tflag = cmd.tflag) \/ cmd'.pc = "leave")
        BY <1>0, <1>5, GateFields DEF KeepsTold
    <2>2. QED
        BY <1>h, <2>1, Apart DEF Flagged
<1>6. CASE TeardownGate
    <2>1. cmd.pc = "t-gate" /\ cmd'.heard = cmd.heard /\ cmd'.args = cmd.args
          /\ cmd'.pc = "t-clean"
          /\ ((cmd'.tflag = cmd.tflag /\ cmd'.synced = cmd.synced) \/ ~cmd'.synced)
        BY <1>0, <1>6, TeardownGateFields
    <2>2. QED
        BY <1>h, <2>1, Apart DEF Flagged
<1>7. CASE Lookup \/ Delete
    <2>1. KeepsFlags /\ cmd'.heard = cmd.heard
        BY <1>0, <1>7, LookupFields, DeleteFields DEF TagStep
    <2>2. cmd'.pc \in InTry => cmd.pc \in InTry
        BY <1>0, <1>7, LookupFields, DeleteFields, TagNames, Apart DEF TagStep
    <2>3. ~cmd.heard
        BY <1>0, <1>h, <1>7, LookupFields, DeleteFields
    <2>4. QED
        BY <2>1, <2>2, <2>3, FlaggedKept DEF KeepsFlags
<1>8. CASE TornDown
    <2>1. KeepsFlags /\ cmd'.pc = "report"
        BY <1>0, <1>8, TornDownFields
    <2>2. QED
        BY <2>1, Apart DEF Flagged, KeepsFlags
<1>9. CASE Interrupt \/ Killed
    <2>1. KeepsFlags /\ KeepsTold /\ cmd'.pc \notin InTry
        BY <1>0, <1>9, CutFields
    <2>2. CASE Interrupt
        <3>1. ~cmd.heard
            BY <1>h, <2>2, Apart DEF Interrupt
        <3>2. QED
            BY <2>1, <3>1, FlaggedKept DEF KeepsFlags, KeepsTold
    <2>3. CASE Killed
        <3>1. cmd'.pc = "ended"
            BY <1>0, <2>3 DEF Killed, Cmd
        <3>2. QED
            BY <2>1, <3>1, FlaggedKept DEF KeepsFlags, KeepsTold
    <2>4. QED
        BY <1>9, <2>2, <2>3
<1>10. CASE JobStep
    <2>1. cmd'.pc = cmd.pc /\ cmd'.args = cmd.args /\ cmd'.tflag = cmd.tflag
          /\ cmd'.heard = cmd.heard /\ (job.pos # "sync" => cmd'.synced = cmd.synced)
        BY <1>0, <1>10, JobStepFields DEF KeepsTold
    <2>2. CASE job.pos # "sync"
        BY <1>h, <2>1, <2>2, FlaggedKept
    <2>3. CASE job.pos = "sync"
        <3>1. Listening(cmd) /\ job.flag
            BY <2>3 DEF JobFits, NoJob
        <3>2. cmd.pc = "t-cleaning" => Gated /\ cmd.tflag
            BY <3>1 DEF JobFits
        <3>3. cmd.pc # "t-cleaning" => cmd.pc \in InTry
            BY <3>1, Apart DEF Listening
        <3>4. Gated /\ cmd.args.flag => cmd.tflag
            BY <3>2, <3>3 DEF Flagged
        <3>5. QED
            BY <2>1, <3>4 DEF Flagged
    <2>4. QED
        BY <2>2, <2>3
<1>11. ASSUME NEW o \in orphans, OrphanStep(o) \/ OrphanEnds(o) PROVE Flagged'
    BY <1>11, <1>h, FlaggedKept DEF OrphanStep, OrphanEnds
<1>12. ASSUME NEW a \in Agents, AgentActs(a) \/ StrayEnds(a) PROVE Flagged'
    BY <1>12, <1>h, FlaggedKept DEF AgentActs, StrayEnds
<1>13. CASE Others \/ UNCHANGED vars
    BY <1>13, <1>h, FlaggedKept DEF Others, vars
<1>14. QED
    BY <1>1, <1>2, <1>3, <1>4, <1>5, <1>6, <1>7, <1>8, <1>9, <1>10, <1>11, <1>12, <1>13
       DEF Next, RunnerStep

-----------------------------------------------------------------------------
(* What is on the record of a command                                      *)

\* What went wrong so far is on the record.
Recorded == cmd.amiss => cmd.interrupted \/ cmd.error \/ cmd.results \cap Bad # {}

\* Why a command may be done with its runs.
Accounted ==
    \/ cmd.graded = cmd.args.runs \/ "skipped" \in cmd.results
    \/ cmd.interrupted \/ cmd.results \cap Bad # {}

Done == {"leave", "t-lookup", "t-delete", "t-gate", "t-clean", "t-cleaning", "report"}

\* Steps after the runs, and steps within one that change no mark.
LEMMA CountedDone ==
    ASSUME Counted, cmd.pc \in Done, cmd'.pc \in Done,
           cmd'.args = cmd.args, KeepsEnd, KeepsRuns, KeepsMarks
    PROVE  Counted'
BY Apart DEF Counted, Done, KeepsEnd, KeepsRuns, KeepsMarks

LEMMA CountedWithin ==
    ASSUME Counted, cmd.pc \in InTry \ {"next", "check"}, cmd'.pc \in InTry \ {"next"},
           cmd'.args = cmd.args, KeepsEnd, KeepsRuns, KeepsMarks
    PROVE  Counted'
BY Apart DEF Counted, Done, KeepsEnd, KeepsRuns, KeepsMarks

\* A run that ends before it is graded.
LEMMA CountedLeaves ==
    ASSUME Counted, cmd.pc \in InTry \ {"check"}, cmd'.pc = "leave",
           cmd'.args = cmd.args, KeepsEnd, KeepsRuns,
           \E r \in {"skipped", "fixture-failed"} : Marks(r)
    PROVE  Counted'
<1>1. PICK r \in {"skipped", "fixture-failed"} : Marks(r)
    OBVIOUS
<1>2. CASE r = "skipped"
    BY <1>1, <1>2, Apart DEF Counted, KeepsEnd, KeepsRuns, Marks
<1>3. CASE r = "fixture-failed"
    <2>1. cmd'.results \cap Bad # {} /\ cmd'.error = cmd.error
        BY <1>1, <1>3 DEF Marks, Bad
    <2>2. QED
        BY <2>1, Apart DEF Counted, KeepsEnd, KeepsRuns
<1>4. QED
    BY <1>1, <1>2, <1>3

LEMMA CountedStep == TypeOK /\ JobFits /\ Counted /\ [Next]_vars => Counted'
<1> SUFFICES ASSUME TypeOK, JobFits, Counted, [Next]_vars PROVE Counted'
    OBVIOUS
<1>0. cmd \in Cmd /\ job \in Job
    BY DEF TypeOK
<1>1. ASSUME NEW args \in Commands, Begin(args) PROVE Counted'
    BY <1>1, BeginFields, Apart DEF Counted
<1>2. CASE NextRun
    <2>1. /\ cmd.pc = "next" /\ cmd'.args = cmd.args /\ KeepsEnd /\ KeepsMarks
          /\ cmd'.graded = cmd.graded
          /\ \/ cmd.n = cmd.args.runs /\ cmd'.n = cmd.n /\ cmd'.pc = "leave"
             \/ cmd'.n = cmd.n + 1 /\ cmd'.pc \in {"gate", "lookup"}
        BY <1>0, <1>2, NextRunFields DEF KeepsFlags
    <2>2. QED
        BY <2>1, Apart DEF Counted, KeepsEnd, KeepsMarks
<1>3. CASE Gate
    <2>1. cmd.pc = "gate" /\ cmd'.args = cmd.args /\ KeepsEnd /\ KeepsRuns
        BY <1>0, <1>3, GateFields
    <2>2. CASE cmd'.pc = "lookup" /\ KeepsMarks
        BY <2>1, <2>2, CountedWithin, Apart
    <2>3. CASE cmd'.pc = "leave" /\ Marks("skipped")
        BY <2>1, <2>3, CountedLeaves, Apart
    <2>4. QED
        BY <1>0, <1>3, <2>2, <2>3, GateFields
<1>4. CASE TeardownGate
    BY <1>0, <1>4, TeardownGateFields, CountedDone DEF Done
<1>5. CASE Lookup \/ Delete
    <2>1. /\ cmd'.args = cmd.args /\ KeepsEnd /\ KeepsRuns
          /\ \/ cmd.pc \in {"lookup", "delete"} /\ cmd'.pc \in {"delete", "clean"} /\ KeepsMarks
             \/ cmd.pc \in {"lookup", "delete"} /\ cmd'.pc = "leave" /\ Marks("fixture-failed")
             \/ cmd.pc \in {"t-lookup", "t-delete"} /\ cmd'.pc \in {"t-delete", "t-gate"} /\ KeepsMarks
        BY <1>0, <1>5, LookupFields, DeleteFields, TagNames DEF TagStep, KeepsFlags
    <2>2. QED
        BY <2>1, CountedWithin, CountedLeaves, CountedDone, Apart DEF Done
<1>6. CASE StartVerify
    <2>1. /\ cmd'.args = cmd.args /\ KeepsEnd /\ KeepsRuns /\ KeepsMarks
          /\ \/ cmd.pc \in {"clean", "build"} /\ cmd'.pc \in {"cleaning", "building"}
             \/ cmd.pc = "t-clean" /\ cmd'.pc = "t-cleaning"
        BY <1>0, <1>6, StartVerifyFields DEF KeepsFlags
    <2>2. QED
        BY <2>1, CountedWithin, CountedDone, Apart DEF Done
<1>7. CASE Cleaned \/ Built
    <2>1. /\ cmd'.args = cmd.args /\ KeepsEnd /\ KeepsRuns /\ cmd.pc \in {"cleaning", "building"}
          /\ \/ cmd'.pc = "leave" /\ \E r \in {"skipped", "fixture-failed"} : Marks(r)
             \/ cmd'.pc \in {"build", "start"} /\ KeepsMarks
        BY <1>0, <1>7, ResetFields DEF KeepsFlags
    <2>2. QED
        BY <2>1, CountedWithin, CountedLeaves, Apart
<1>8. CASE TornDown
    BY <1>0, <1>8, TornDownFields, CountedDone DEF Done, KeepsFlags
<1>9. CASE VerifyTimesOut
    <2>1. /\ cmd'.args = cmd.args /\ KeepsEnd /\ KeepsRuns /\ Listening(cmd)
          /\ \/ cmd.pc \in InTry /\ cmd'.pc = "leave" /\ Marks("fixture-failed")
             \/ cmd.pc \notin InTry /\ cmd'.pc = "report" /\ KeepsMarks
        BY <1>0, <1>9, TimesOutFields DEF KeepsFlags
    <2>2. CASE cmd.pc \in InTry
        BY <2>1, <2>2, CountedLeaves, Apart DEF Listening
    <2>3. CASE cmd.pc \notin InTry
        BY <2>1, <2>3, CountedDone, Apart DEF Listening, Done
    <2>4. QED
        BY <2>2, <2>3
<1>10. CASE StartAgent
    <2>1. /\ KeepsFlags /\ KeepsEnd /\ KeepsRuns /\ cmd.pc = "start" /\ cmd'.pc = "agent"
          /\ cmd'.results = cmd.results /\ cmd'.amiss = cmd.amiss /\ cmd'.error = FALSE
        BY <1>0, <1>10, StartAgentFields
    <2>2. QED
        BY <2>1, Apart DEF Counted, KeepsFlags, KeepsEnd, KeepsRuns
<1>11. CASE TurnEnds \/ TurnTimesOut
    <2>1. /\ KeepsFlags /\ KeepsEnd /\ KeepsRuns
          /\ cmd.pc = "agent" /\ cmd'.results = cmd.results
          /\ \/ cmd'.pc \in {"agent", "check"} /\ KeepsMarks
             \/ cmd'.pc = "check" /\ cmd'.error = TRUE /\ cmd'.amiss = TRUE
        BY <1>0, <1>11, TurnFields
    <2>2. QED
        BY <2>1, Apart DEF Counted, KeepsFlags, KeepsEnd, KeepsRuns, KeepsMarks
<1>12. CASE Grade
    <2>1. /\ KeepsFlags /\ KeepsEnd /\ cmd.pc = "check" /\ cmd'.pc = "next"
          /\ cmd'.n = cmd.n /\ cmd'.graded = cmd.graded + 1 /\ cmd'.error = FALSE
        BY <1>0, <1>12, GradeFields
    <2>2. cmd.graded + 1 = cmd.n
        BY <2>1, Apart DEF Counted
    <2>3. Recorded'
        <3>1. CASE cmd'.results = cmd.results \cup {"passed"} /\ ~cmd.error /\ cmd'.amiss = cmd.amiss
            BY <2>1, <3>1 DEF Counted, Recorded, KeepsEnd
        <3>2. CASE \E r \in {"failed", "broken"} : cmd'.results = cmd.results \cup {r}
            BY <3>2 DEF Recorded, Bad
        <3>3. QED
            BY <1>0, <1>12, <3>1, <3>2, GradeFields
    <2>4. QED
        BY <2>1, <2>2, <2>3, Apart DEF Counted, Recorded, KeepsFlags, KeepsEnd
<1>13. CASE Leave
    BY <1>0, <1>13, LeaveFields, CountedDone DEF Done, KeepsFlags
<1>14. CASE Report
    <2>1. /\ KeepsFlags /\ KeepsRuns /\ KeepsMarks /\ cmd'.interrupted = cmd.interrupted
          /\ cmd.pc = "report" /\ cmd'.pc = "ended"
          /\ cmd'.code = IF cmd.interrupted THEN 130 ELSE Code(cmd.results)
        BY <1>0, <1>14, ReportFields
    <2>2. cmd.error => cmd.interrupted
        BY <2>1 DEF Counted
    <2>3. ASSUME cmd'.code = 0 PROVE ~cmd.interrupted /\ cmd.results \cap Bad = {}
        BY <2>1, <2>3 DEF Code, Bad
    <2>4. ASSUME cmd'.code = 0
          PROVE  ~cmd.amiss /\ (cmd.graded = cmd.args.runs \/ "skipped" \in cmd.results)
        BY <2>1, <2>2, <2>3, <2>4 DEF Counted
    <2>5. QED
        BY <2>1, <2>2, <2>4, Apart DEF Counted, KeepsFlags, KeepsRuns, KeepsMarks
<1>15. CASE Interrupt \/ Killed
    <2>1. /\ cmd'.pc \in {"leave", "report", "ended"} /\ cmd'.interrupted = TRUE
          /\ cmd'.pc = "ended" => cmd'.code = 130
        BY <1>0, <1>15, CutFields
    <2>2. QED
        BY <2>1, Apart DEF Counted
<1>16. CASE JobStep
    <2>1. /\ KeepsEnd /\ KeepsRuns /\ KeepsMarks /\ cmd'.pc = cmd.pc /\ cmd'.args = cmd.args
        BY <1>0, <1>16, JobStepFields
    <2>2. QED
        BY <2>1 DEF Counted, KeepsEnd, KeepsRuns, KeepsMarks
<1>17. ASSUME UNCHANGED cmd PROVE Counted'
    BY <1>17 DEF Counted
<1>18. ASSUME NEW o \in orphans, OrphanStep(o) \/ OrphanEnds(o) PROVE Counted'
    BY <1>17, <1>18 DEF OrphanStep, OrphanEnds
<1>19. ASSUME NEW a \in Agents, AgentActs(a) \/ StrayEnds(a) PROVE Counted'
    BY <1>17, <1>19 DEF AgentActs, StrayEnds
<1>20. CASE Others \/ UNCHANGED vars
    BY <1>17, <1>20 DEF Others, vars
<1>21. QED
    BY <1>1, <1>2, <1>3, <1>4, <1>5, <1>6, <1>7, <1>8, <1>9, <1>10, <1>11, <1>12, <1>13, <1>14, <1>15,
       <1>16, <1>18, <1>19, <1>20 DEF Next, RunnerStep

-----------------------------------------------------------------------------
(* What of the fixture stands                                              *)

\* A quiet end, so far: what it says of the server.
Quiet ==
    /\ db = {} /\ views = {}
    /\ tag \in stray \cup {NoAgent}
    /\ Gated /\ cmd.tflag => ~shown

\* Where nothing is built, cleaned up or used.
Unbuilt == {"next", "gate", "lookup", "delete", "clean", "build", "leave",
            "t-lookup", "t-delete", "t-gate", "t-clean", "report", "ended"}

LEMMA StandingUnbuilt ==
    ASSUME cmd'.pc \in Unbuilt, ~cutoff' /\ cmd'.heard /\ ~cmd'.told => Quiet'
    PROVE  Standing'
BY DEF Standing, Unbuilt, Listening, Quiet

\* What is heard stays true while the server is left alone.
LEMMA QuietKept ==
    ASSUME Standing, UNCHANGED <<db, views, tag, shown>>, stray \subseteq stray',
           cmd'.tflag = cmd.tflag, KeepsTold, ~cutoff' => ~cutoff
    PROVE  ~cutoff' /\ cmd'.heard /\ ~cmd'.told => Quiet'
BY DEF Standing, KeepsTold, Quiet

LEMMA Unheard ==
    ASSUME Flagged, cmd.pc \notin {"report", "ended"}
    PROVE  ~cmd.heard
BY DEF Flagged

LEMMA DoneFlagged ==
    ASSUME TypeOK, JobFits, Standing, ~cutoff, JobStep, Listening(cmd),
           Dropped', job'.pos = "done", job'.flag
    PROVE  ~shown'
<1>0. job \in Job
    BY DEF TypeOK
<1>1. PICK out \in Outcomes : Does(job, out) /\ job' = After(job, out)
    BY DEF JobStep
<1>2. /\ job.pos \in {"drop", "read", "sync"} /\ job.mode = "cleanup-only" /\ job.flag
      /\ ~job'.failed
    <2>1. job.pos # "done"
        BY <1>1 DEF Does, GivesUp, Drops, Builds, Reads, Syncs, Fixture
    <2>2. job.mode = "cleanup-only" /\ job.flag
        BY <1>0, <1>1 DEF After, Job, Dropped
    <2>3. job.pos \notin Fixture
        BY <2>2 DEF JobFits, Listening
    <2>4. QED
        BY <1>0, <2>1, <2>2, <2>3 DEF Job, Fixture, Dropped
<1>3. out = "ok"
    BY <1>0, <1>1, <1>2 DEF After, Job
<1>4. job.pos = "sync"
    BY <1>0, <1>1, <1>2, <1>3 DEF After, Job, Stops, Tail
<1>5. Dropped
    <2>1. ~job.failed
        BY <1>0, <1>1, <1>2, DropsViews
    <2>2. QED
        BY <1>2, <1>4, <2>1 DEF Dropped, JobFits
<1>6. db = {}
    BY <1>5 DEF Standing
<1>7. shown' = ("database" \in db)
    BY <1>1, <1>3, <1>4 DEF Does, GivesUp, Drops, Builds, Reads, Syncs, Synchronised, Fixture
<1>8. QED
    BY <1>6, <1>7

LEMMA FixtureStep ==
    ASSUME TypeOK, JobFits, Standing, ~cutoff, JobStep, cmd.pc = "building"
    PROVE  /\ job'.pos = "views" => "database" \in db'
           /\ job'.pos \notin Fixture /\ ~job'.failed => db' = Fixture
<1>0. job \in Job /\ job.mode = "keep" /\ job.pos # "drop" /\ db \subseteq Fixture
    BY DEF TypeOK, JobFits
<1>1. PICK out \in Outcomes : Does(job, out) /\ job' = After(job, out)
    BY DEF JobStep
<1>2. CASE job.pos = "database"
    <2>1. ASSUME job'.pos = "views" PROVE "database" \in db'
        <3>1. out = "ok"
            BY <1>0, <1>1, <1>2, <2>1 DEF After, Job, Stops
        <3>2. QED
            BY <1>1, <1>2, <3>1 DEF Does, GivesUp, Drops, Builds, Reads, Syncs, Fixture
    <2>2. ASSUME job'.pos \notin Fixture, ~job'.failed PROVE FALSE
        <3>1. out # "ok"
            BY <1>0, <1>1, <1>2, <2>2 DEF After, Job, Stops, Fixture
        <3>2. out \in {"failed", "gave-up"}
            BY <1>1, <1>2, <3>1 DEF Does, GivesUp, Drops, Builds, Reads, Syncs, Fixture
        <3>3. QED
            BY <1>0, <1>1, <2>2, <3>2 DEF After, Job
    <2>3. QED
        BY <2>1, <2>2
<1>3. CASE job.pos = "views"
    <2>1. job'.pos # "views"
        BY <1>0, <1>1, <1>3 DEF After, Job, Tail
    <2>2. ASSUME ~job'.failed PROVE db' = Fixture
        <3>1. out = "ok"
            <4>1. out # "failed"
                BY <1>0, <1>1, <2>2 DEF After, Job
            <4>2. QED
                BY <1>1, <1>3, <4>1 DEF Does, GivesUp, Drops, Builds, Reads, Syncs, Fixture
        <3>2. db' = db \cup {"views"} /\ "database" \in db
            BY <1>1, <1>3, <3>1 DEF Does, GivesUp, Drops, Builds, Reads, Syncs, Fixture
        <3>3. QED
            BY <1>0, <3>2 DEF Fixture
    <2>3. QED
        BY <2>1, <2>2
<1>4. CASE job.pos \in {"read", "sync"}
    <2>1. job'.pos # "views"
        BY <1>0, <1>1, <1>4 DEF After, Job, Tail
    <2>2. db' = db /\ (job.failed => job'.failed)
        BY <1>0, <1>1, <1>4, DropsViews
    <2>3. ~job.failed => db = Fixture
        BY <1>4 DEF Standing, Fixture
    <2>4. QED
        BY <2>1, <2>2, <2>3
<1>5. job.pos # "done"
    BY <1>1 DEF Does, GivesUp, Drops, Builds, Reads, Syncs, Fixture
<1>6. QED
    BY <1>0, <1>2, <1>3, <1>4, <1>5 DEF Job

LEMMA StandingStep ==
    TypeOK /\ Alive /\ JobFits /\ Swept /\ Flagged /\ Standing /\ [Next]_vars => Standing'
<1> SUFFICES ASSUME TypeOK, Alive, JobFits, Swept, Flagged, Standing, [Next]_vars PROVE Standing'
    OBVIOUS
<1>0. cmd \in Cmd /\ job \in Job
    BY DEF TypeOK
<1>1. ASSUME NEW args \in Commands, Begin(args) PROVE Standing'
    BY <1>1, BeginFields, StandingUnbuilt DEF Unbuilt
<1>2. CASE NextRun \/ Gate \/ TeardownGate
    <2>1. ~cmd'.heard /\ cmd'.pc \in Unbuilt
        BY <1>0, <1>2, NextRunFields, GateFields, TeardownGateFields, Unheard DEF KeepsTold, Unbuilt
    <2>2. QED
        BY <2>1, StandingUnbuilt
<1>3. CASE Lookup \/ Delete
    <2>1. ~cmd'.heard /\ cmd'.pc \in Unbuilt
        BY <1>0, <1>3, LookupFields, DeleteFields, TagNames, Unheard DEF TagStep, Unbuilt
    <2>2. QED
        BY <2>1, StandingUnbuilt
<1>4. CASE Grade \/ Leave
    <2>1. ~cmd'.heard /\ cmd'.pc \in Unbuilt
        BY <1>0, <1>4, GradeFields, LeaveFields, Unheard DEF KeepsTold, Unbuilt
    <2>2. QED
        BY <2>1, StandingUnbuilt
<1>5. CASE StartVerify
    <2>1. UNCHANGED <<db, cutoff>>
        BY <1>5 DEF StartVerify, server
    <2>2. ~cmd'.heard
        BY <1>0, <1>5, StartVerifyFields, Unheard DEF KeepsTold
    <2>3. \/ cmd'.pc \in {"cleaning", "t-cleaning"} /\ job'.ran = FALSE
          \/ cmd'.pc = "building" /\ job'.ran = FALSE /\ job'.pos = "database"
        BY <1>0, <1>5, StartVerifyFields DEF Verify, NoJob
    <2>4. QED
        BY <2>1, <2>2, <2>3 DEF Standing, Listening, Dropped, Fixture
<1>6. CASE Cleaned \/ Built
    <2>1. UNCHANGED <<db, cutoff>>
        BY <1>6 DEF Cleaned, Built, server
    <2>2. ~cmd'.heard
        BY <1>0, <1>6, ResetFields, Unheard DEF KeepsTold
    <2>3. \/ cmd'.pc \in {"leave", "build"}
          \/ cmd.pc = "building" /\ cmd'.pc = "start" /\ ~job.failed /\ job.pos = "done"
        BY <1>0, <1>6, ResetFields
    <2>4. QED
        BY <2>1, <2>2, <2>3, StandingUnbuilt DEF Standing, Listening, Fixture, Unbuilt
<1>7. CASE TornDown
    <2>1. UNCHANGED <<db, views, tag, shown, stray, cutoff>>
        BY <1>7 DEF TornDown, server
    <2>2. /\ cmd'.tflag = cmd.tflag /\ cmd.pc = "t-cleaning" /\ cmd'.pc = "report"
          /\ job.pos = "done" /\ cmd'.heard = job.ran
          /\ cmd'.told = IF job.ran /\ job.failed THEN TRUE ELSE cmd.told
        BY <1>0, <1>7, TornDownFields DEF KeepsFlags
    <2>3. ASSUME ~cutoff', cmd'.heard, ~cmd'.told PROVE Quiet'
        <3>1. Dropped /\ Listening(cmd) /\ ~cmd.told /\ job.flag = (Gated /\ cmd.tflag)
            BY <2>2, <2>3 DEF Dropped, Listening, JobFits
        <3>2. db = {} /\ views = {} /\ (job.flag => ~shown)
            BY <2>1, <2>2, <2>3, <3>1 DEF Standing
        <3>3. tag \in stray \cup {NoAgent}
            BY <2>2, <3>1 DEF Swept
        <3>4. QED
            BY <2>1, <2>2, <3>1, <3>2, <3>3 DEF Quiet
    <2>4. QED
        BY <2>2, <2>3, StandingUnbuilt DEF Unbuilt
<1>8. CASE VerifyTimesOut
    BY <1>0, <1>8, TimesOutFields DEF Standing
<1>9. CASE StartAgent \/ TurnEnds \/ TurnTimesOut
    <2>1. UNCHANGED <<db, cutoff>>
        BY <1>9 DEF StartAgent, TurnEnds, TurnTimesOut, server
    <2>2. ~cmd'.heard
        BY <1>0, <1>9, StartAgentFields, TurnFields, Unheard DEF KeepsTold
    <2>3. cmd.pc \in {"start", "agent"} /\ cmd'.pc \in {"agent", "check"}
        BY <1>0, <1>9, StartAgentFields, TurnFields
    <2>4. QED
        BY <2>1, <2>2, <2>3 DEF Standing, Listening
<1>10. CASE Report
    <2>1. UNCHANGED <<db, views, tag, shown, stray, cutoff>>
        BY <1>10 DEF Report, server
    <2>2. KeepsTold /\ cmd'.tflag = cmd.tflag /\ cmd'.pc = "ended"
        BY <1>0, <1>10, ReportFields DEF KeepsFlags
    <2>3. QED
        BY <2>1, <2>2, QuietKept, StandingUnbuilt DEF Unbuilt
<1>11. CASE Interrupt \/ Killed
    <2>1. UNCHANGED <<db, views, tag, shown>> /\ stray \subseteq stray'
        BY <1>11 DEF Interrupt, Killed, server
    <2>2. ~cutoff' => ~cutoff
        BY <1>11 DEF Interrupt, Killed
    <2>3. KeepsTold /\ cmd'.tflag = cmd.tflag /\ cmd'.pc \in {"leave", "report", "ended"}
        BY <1>0, <1>11, CutFields DEF KeepsFlags
    <2>4. QED
        BY <2>1, <2>2, <2>3, QuietKept, StandingUnbuilt DEF Unbuilt
<1>12. CASE JobStep
    <2>1. Listening(cmd)
        <3>1. PICK out \in Outcomes : Does(job, out)
            BY <1>12 DEF JobStep
        <3>2. job.pos # "done"
            BY <3>1 DEF Does, GivesUp, Drops, Builds, Reads, Syncs, Fixture
        <3>3. QED
            BY <3>2 DEF JobFits, NoJob
    <2>2. cmd'.pc = cmd.pc /\ cmd'.heard = cmd.heard
        BY <1>0, <1>12, JobStepFields DEF KeepsTold
    <2>3. ~cmd.heard /\ cutoff' = cutoff
        BY <1>12, <2>1, Unheard DEF JobStep, Listening
    <2>4. ASSUME ~cutoff, Dropped' PROVE db' = {} /\ views' = {}
        BY <1>12, <2>1, <2>4, DroppedStep DEF Standing
    <2>5. ASSUME ~cutoff, Dropped', job'.pos = "done", job'.flag PROVE ~shown'
        BY <1>12, <2>1, <2>5, DoneFlagged
    <2>6. ASSUME ~cutoff, cmd.pc = "building"
          PROVE  /\ job'.pos = "views" => "database" \in db'
                 /\ job'.pos \notin Fixture /\ ~job'.failed => db' = Fixture
        BY <1>12, <2>6, FixtureStep
    <2>7. QED
        BY <2>1, <2>2, <2>3, <2>4, <2>5, <2>6 DEF Standing, Listening
<1>13. ASSUME NEW o \in orphans, OrphanStep(o) \/ OrphanEnds(o) PROVE Standing'
    BY <1>13 DEF OrphanStep, OrphanEnds, JobFits, Standing
<1>14. ASSUME UNCHANGED <<db, views, tag, cmd, job, stray, cutoff>>,
              UNCHANGED shown \/ shown' = ("database" \in db)
       PROVE  Standing'
    <2>1. db = {} => (shown' => shown)
        BY <1>14
    <2>2. QED
        BY <1>14, <2>1 DEF Standing, Listening, Dropped
<1>15. ASSUME NEW a \in Agents, AgentActs(a) PROVE Standing'
    <2>1. a \in stray \/ (cmd.pc = "agent" /\ a = agents)
        BY <1>15 DEF AgentActs, Alive
    <2>2. UNCHANGED <<db, cmd, job, stray, cutoff>>
        BY <1>15 DEF AgentActs, Synchronised
    <2>3. CASE "database" \in db /\ views' = views \cup {a} /\ UNCHANGED <<tag, shown>>
        BY <2>2, <2>3 DEF Standing, Listening, Dropped
    <2>4. CASE tag' = a /\ UNCHANGED <<views, shown>>
        <3>1. cmd.heard => a \in stray
            BY <2>1, Unheard
        <3>2. QED
            BY <2>2, <2>4, <3>1 DEF Standing, Listening, Dropped
    <2>5. CASE Synchronised
        BY <1>14, <2>2, <2>5 DEF Synchronised
    <2>6. QED
        BY <1>15, <2>3, <2>4, <2>5 DEF AgentActs
<1>16. ASSUME NEW a \in Agents, StrayEnds(a) PROVE Standing'
    BY <1>14, <1>16 DEF StrayEnds, server
<1>17. CASE Others \/ UNCHANGED vars
    BY <1>14, <1>17 DEF Others, Synchronised, vars
<1>18. QED
    BY <1>1, <1>2, <1>3, <1>4, <1>5, <1>6, <1>7, <1>8, <1>9, <1>10, <1>11, <1>12, <1>13, <1>15, <1>16, <1>17
       DEF Next, RunnerStep

-----------------------------------------------------------------------------
(* The theorems                                                            *)

\* What is carried through all steps.
Carried == Alive /\ JobFits /\ Swept /\ Flagged /\ Standing /\ Counted

LEMMA CarriedInit == Init => Carried
<1> SUFFICES ASSUME Init PROVE Carried
    OBVIOUS
<1> DEFINE c == [Fresh([flag |-> FALSE, keep |-> FALSE, runs |-> 1], 0) EXCEPT !.pc = "ended"]
<1>1. /\ c.pc = "ended" /\ c.heard = FALSE /\ c.error = FALSE /\ c.code = 2 /\ c.synced = FALSE
    BY DEF Fresh
<1>2. cmd = c /\ job = NoJob /\ orphans = {} /\ life = [a \in Agents |-> "off"]
    BY DEF Init
<1> HIDE DEF c
<1>3. Alive /\ JobFits
    BY <1>1, <1>2 DEF Alive, JobFits, Listening, NoJob
<1>4. Swept /\ Flagged
    BY <1>1, <1>2, Apart DEF Swept, Flagged, Listening
<1>5. Standing /\ Counted
    BY <1>1, <1>2, Apart DEF Standing, Counted, Listening
<1>6. QED
    BY <1>3, <1>4, <1>5 DEF Carried

LEMMA CarriedStep == TypeOK /\ Carried /\ [Next]_vars => Carried'
BY AliveStep, JobFitsStep, SweptStep, FlaggedStep, StandingStep, CountedStep DEF Carried

LEMMA CarriedAlways == Spec => [](TypeOK /\ Carried)
<1>1. Init => TypeOK /\ Carried
    BY InitType, CarriedInit
<1>2. TypeOK /\ Carried /\ [Next]_vars => TypeOK' /\ Carried'
    BY TypeStep, CarriedStep
<1>3. QED
    BY <1>1, <1>2, PTL DEF Spec

\* An agent starts on a whole fixture with nothing of an agent before it.
THEOREM AgentsStartFresh == Spec => []StartsFresh
<1>1. TypeOK /\ Carried => StartsFresh
    BY DEF Carried, Swept, Standing, StartsFresh
<1>2. QED
    BY <1>1, CarriedAlways, PTL

\* A run is graded with its agent's processes ended, on what is its own.
THEOREM GradingIsAtRest == Spec => []GradedAtRest
<1>1. TypeOK /\ Carried => GradedAtRest
    BY DEF Carried, Alive, Swept, Standing, GradedAtRest
<1>2. QED
    BY <1>1, CarriedAlways, PTL

\* A catalogue with something of others pending at a gate is left alone.
THEOREM HeldIsUnsynchronised == Spec => []SkippedIsUnsynchronised
<1>1. TypeOK /\ Carried => SkippedIsUnsynchronised
    BY DEF Carried, Flagged, SkippedIsUnsynchronised
<1>2. QED
    BY <1>1, CarriedAlways, PTL

\* Exit code 0 says that nothing went wrong and every run was graded.
THEOREM GreenRunsAreWhole == Spec => []GreenIsWhole
<1>1. TypeOK /\ Carried => GreenIsWhole
    BY DEF Carried, Counted, GreenIsWhole
<1>2. QED
    BY <1>1, CarriedAlways, PTL

\* A teardown that was heard and told nothing left nothing.
THEOREM QuietEndsAreClean == Spec => []QuietEndIsClean
<1>1. TypeOK /\ Carried => QuietEndIsClean
    BY DEF Carried, Standing, QuietEndIsClean
<1>2. QED
    BY <1>1, CarriedAlways, PTL

=============================================================================
