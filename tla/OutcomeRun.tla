------------------------------ MODULE OutcomeRun ------------------------------
(***************************************************************************)
(* The runner of the outcome scenarios (evals/outcome/run.py): a command    *)
(* gives a scenario its fixture, lets a headless agent work on it, grades   *)
(* what the agent left, as often as it is told to, and takes the fixture    *)
(* down.                                                                    *)
(*                                                                          *)
(* The runner drives `scripts/denodo verify` and the agent as child         *)
(* processes under time limits.  A limit ends the launcher of a verify, not *)
(* the verify under it; it kills the agent, not the call the agent has in   *)
(* flight; an interrupt reaches no agent, which is in a session of its own. *)
(* Other people change and synchronise the shared catalogue meanwhile.      *)
(*                                                                          *)
(* A command runs one scenario, whose fixture is one database and its views.*)
(* What a synchronisation takes along of others is VerifyChain's subject.   *)
(***************************************************************************)
EXTENDS Naturals

CONSTANTS
    Changes,      \* changes other people may have pending in the catalogue
    Gated,        \* the scenario synchronises the catalogue and makes a tag
    Turns,        \* messages of the human in the scenario
    Commands,     \* the command lines the runner is started with
    MaxCommands,  \* bound: commands
    MaxAgents,    \* bound: agents, over all commands
    MaxTroubles   \* bound: time limits that run out, interrupts and kills

Command == [flag: BOOLEAN, keep: BOOLEAN, runs: Nat \ {0}]

ASSUME OutcomeAssumption ==
    /\ Gated \in BOOLEAN
    /\ Turns \in Nat \ {0}
    /\ Commands \subseteq Command
    /\ MaxCommands \in Nat /\ MaxAgents \in Nat /\ MaxTroubles \in Nat

VARIABLES
    db,        \* the server: what there is of the scenario's fixture,
    views,     \* the agents whose view stands in its database,
    tag,       \* the agent whose tag carries the scenario's name, or NoAgent
    shown,     \* the shared catalogue lists the scenario's database
    pending,   \* other people's changes pending in the catalogue
    cmd,       \* the command that runs, or the last one
    job,       \* the verify it waits for
    orphans,   \* those it no longer waits for, still running
    life,      \* the agents' processes: off, on, or one last call in flight
    agents,    \* agents started so far
    commands,  \* commands started so far
    troubles,  \* time limits that ran out, interrupts and kills so far
    stray,     \* history: agents that acted while no runner waited for them
    cutoff     \* history: some verify was left running

server == <<db, views, tag, shown, pending>>

vars == <<db, views, tag, shown, pending, cmd, job, orphans, life, agents, commands,
          troubles, stray, cutoff>>

NoAgent == 0
Agents == 1..MaxAgents
Fixture == {"database", "views"}
Results == {"skipped", "fixture-failed", "passed", "failed", "broken"}

\* Where a command is.  Up to "check" it is inside run_scenario's try.
InTry == {"next", "gate", "lookup", "delete", "clean", "cleaning", "build", "building",
          "start", "agent", "check"}
InFinally == {"t-lookup", "t-delete", "t-gate", "t-clean", "t-cleaning"}
Stages == InTry \cup InFinally \cup {"leave", "report", "ended"}

\* first: the agents before it; n, turn: its run and that run's turn; tflag: a
\* teardown may synchronise; id: the tag to delete; told, heard: a teardown told
\* a problem, had a report of its cleanup.  History: graded, amiss, and synced,
\* that a verify has synchronised since the last gate.
Cmd == [pc: Stages, args: Command, first: Nat, n: Nat, turn: Nat, tflag: BOOLEAN,
        id: Agents \cup {NoAgent}, results: SUBSET Results, error: BOOLEAN,
        interrupted: BOOLEAN, code: {0, 1, 2, 130}, told: BOOLEAN, heard: BOOLEAN,
        graded: Nat, amiss: BOOLEAN, synced: BOOLEAN]

Job == [mode: {"none", "cleanup-only", "keep"}, flag: BOOLEAN,
        pos: {"drop", "database", "views", "read", "sync", "done"},
        ran: BOOLEAN, failed: BOOLEAN, skip: BOOLEAN, last: BOOLEAN]

NoJob == [mode |-> "none", flag |-> FALSE, pos |-> "done", ran |-> FALSE,
          failed |-> FALSE, skip |-> FALSE, last |-> FALSE]

Fresh(args, first) ==
    [pc |-> "next", args |-> args, first |-> first, n |-> 0, turn |-> 0,
     tflag |-> args.flag, id |-> NoAgent, results |-> {}, error |-> FALSE,
     interrupted |-> FALSE, code |-> 2, told |-> FALSE, heard |-> FALSE,
     graded |-> 0, amiss |-> FALSE, synced |-> FALSE]

Listening(c) == c.pc \in {"cleaning", "building", "t-cleaning"}

Acting == {a \in Agents : life[a] # "off"}

-----------------------------------------------------------------------------
(* verify, as the runner uses it                                           *)

Verify(mode, flag) ==
    [NoJob EXCEPT !.mode = mode, !.flag = Gated /\ flag,
                  !.pos = IF mode = "keep" THEN "database" ELSE "drop"]

Tail(j) == IF j.flag THEN "read" ELSE "done"

\* What becomes of a step of it.  Held: others have something pending.
Outcomes == {"ok", "failed", "held", "gave-up"}

\* It gives up before it changes anything: no cleanup in its report.
GivesUp(j, out) ==
    /\ j.pos \in {"drop", "database"} /\ out = "gave-up"
    /\ UNCHANGED server

\* [cleanup] vql.
Drops(j, out) ==
    /\ j.pos = "drop" /\ out \in {"ok", "failed"}
    /\ \/ db' = {} /\ views' = {}
       \/ out = "failed" /\ UNCHANGED <<db, views>>
    /\ UNCHANGED <<tag, shown, pending>>

\* The fixture's steps.
Builds(j, out) ==
    /\ j.pos \in Fixture /\ out \in {"ok", "failed"}
    /\ \/ /\ j.pos = "views" => "database" \in db
          /\ db' = db \cup {j.pos}
       \/ out = "failed" /\ db' = db
    /\ UNCHANGED <<views, tag, shown, pending>>

\* The catalogue is read before it is synchronised.
Reads(j, out) ==
    /\ j.pos = "read" /\ out \in {"ok", "failed", "held"}
    /\ out # "failed" => ((out = "ok") <=> (pending = {}))
    /\ UNCHANGED server

\* A synchronisation: the catalogue lists what there is, nothing is pending.
Synchronised ==
    /\ shown' = ("database" \in db)
    /\ pending' = {}
    /\ UNCHANGED <<db, views, tag>>

Syncs(j, out) ==
    /\ j.pos = "sync" /\ out \in {"ok", "failed"}
    /\ Synchronised \/ (out = "failed" /\ UNCHANGED server)

Does(j, out) ==
    \/ GivesUp(j, out) \/ Drops(j, out) \/ Builds(j, out)
    \/ Reads(j, out) \/ Syncs(j, out)

\* A chain stops at a step that fails and skips one that is held.  A cleanup
\* goes on after a statement that fails, and a synchronisation it holds fails.
Stops(j, out) ==
    out = "gave-up" \/ (out # "ok" /\ (j.mode = "keep" \/ j.pos # "drop"))

After(j, out) ==
    [j EXCEPT !.pos = IF Stops(j, out) THEN "done"
                      ELSE CASE j.pos = "database" -> "views"
                             [] j.pos \in {"views", "drop"} -> Tail(j)
                             [] j.pos = "read" -> "sync"
                             [] OTHER -> "done",
              !.ran = @ \/ (j.mode = "cleanup-only" /\ out # "gave-up"),
              !.skip = j.mode = "keep" /\ out = "held",
              !.failed = @ \/ (out # "ok" /\ ~(j.mode = "keep" /\ out = "held"))]

\* The verify the runner waits for.
JobStep ==
    /\ \E out \in Outcomes :
        /\ Does(job, out)
        /\ job' = After(job, out)
    /\ cmd' = [cmd EXCEPT !.synced = IF job.pos = "sync" THEN TRUE ELSE @]
    /\ UNCHANGED <<orphans, life, agents, commands, troubles, stray, cutoff>>

\* One it no longer waits for.  After an interrupt only the call it had sent.
OrphanStep(o) ==
    /\ \E out \in Outcomes :
        /\ Does(o, out)
        /\ orphans' = (orphans \ {o}) \cup
                      {k \in {After(o, out)} : ~o.last /\ k.pos # "done"}
    /\ UNCHANGED <<cmd, job, life, agents, commands, troubles, stray, cutoff>>

OrphanEnds(o) ==
    /\ orphans' = orphans \ {o}
    /\ UNCHANGED <<server, cmd, job, life, agents, commands, troubles, stray, cutoff>>

-----------------------------------------------------------------------------
(* The agent, and other people                                             *)

\* Agent a works: its commands reach the server while its profile is there.
AgentActs(a) ==
    /\ life[a] # "off"
    /\ \/ /\ "database" \in db /\ views' = views \cup {a}
          /\ UNCHANGED <<db, tag, shown, pending>>
       \/ /\ Gated /\ tag = NoAgent /\ tag' = a
          /\ UNCHANGED <<db, views, shown, pending>>
       \/ Gated /\ Synchronised
    /\ life' = [life EXCEPT ![a] = IF life[a] = "last" THEN "off" ELSE "on"]
    /\ UNCHANGED <<cmd, job, orphans, agents, commands, troubles, stray, cutoff>>

\* One nobody waits for ends, or its last call is not carried out.
StrayEnds(a) ==
    /\ a \in stray /\ life[a] # "off"
    /\ life' = [life EXCEPT ![a] = "off"]
    /\ UNCHANGED <<server, cmd, job, orphans, agents, commands, troubles, stray, cutoff>>

Others ==
    /\ \/ /\ \E c \in Changes : pending' = pending \cup {c}
          /\ UNCHANGED <<db, views, tag, shown>>
       \/ Synchronised
    /\ UNCHANGED <<cmd, job, orphans, life, agents, commands, troubles, stray, cutoff>>

-----------------------------------------------------------------------------
(* The runner                                                              *)

SkipReason(args) == Gated /\ ~args.flag

\* main and the head of run_scenario: a profile that is marked production or
\* cannot be read is refused, a scenario whose flag was not given is skipped.
Begin(args) ==
    /\ cmd.pc = "ended" /\ commands < MaxCommands /\ agents + args.runs <= MaxAgents
    /\ commands' = commands + 1
    /\ \E refused \in BOOLEAN :
        cmd' = IF refused THEN [Fresh(args, agents) EXCEPT !.pc = "ended", !.amiss = TRUE]
               ELSE IF SkipReason(args)
               THEN [Fresh(args, agents) EXCEPT !.pc = "report", !.results = {"skipped"}]
               ELSE Fresh(args, agents)
    /\ UNCHANGED <<server, job, orphans, life, agents, troubles, stray, cutoff>>

Leaves(c, result) ==
    [c EXCEPT !.pc = "leave", !.results = @ \cup {result},
              !.amiss = IF result = "skipped" THEN @ ELSE TRUE]

\* With a fault: a problem is told, and the reset goes on.
ProblemIsTold(c, next) == [c EXCEPT !.told = TRUE, !.pc = next]

\* With a fault: a teardown tries again until there is no problem.
ProblemIsRetried(c, next) ==
    IF c.pc \in InTry THEN Leaves(c, "fixture-failed") ELSE [c EXCEPT !.told = TRUE]

\* A problem ends a reset, and is told by a teardown, which goes on at `next`.
Problem(c, next) ==
    IF c.pc \in InTry THEN Leaves(c, "fixture-failed")
    ELSE [c EXCEPT !.told = TRUE, !.pc = next]

NextRun ==
    /\ cmd.pc = "next"
    /\ cmd' = IF cmd.n = cmd.args.runs THEN [cmd EXCEPT !.pc = "leave"]
              ELSE [cmd EXCEPT !.n = @ + 1, !.pc = IF Gated THEN "gate" ELSE "lookup"]
    /\ UNCHANGED <<server, job, orphans, life, agents, commands, troubles, stray, cutoff>>

\* catalog_pending: it answered, and there is nothing but the scenario's own.
NonePending(answered) == answered /\ pending = {}

\* It is asked before anything synchronises; a teardown asks again while it is
\* to synchronise.
Gate ==
    /\ cmd.pc = "gate"
    /\ \E answered \in BOOLEAN :
        cmd' = IF NonePending(answered)
               THEN [cmd EXCEPT !.pc = "lookup", !.synced = FALSE]
               ELSE [Leaves(cmd, "skipped") EXCEPT !.tflag = FALSE, !.synced = FALSE]
    /\ UNCHANGED <<server, job, orphans, life, agents, commands, troubles, stray, cutoff>>

TeardownGate ==
    /\ cmd.pc = "t-gate"
    /\ \E answered \in BOOLEAN :
        cmd' = IF ~(Gated /\ cmd.tflag) THEN [cmd EXCEPT !.pc = "t-clean"]
               ELSE IF NonePending(answered)
               THEN [cmd EXCEPT !.pc = "t-clean", !.synced = FALSE]
               ELSE [cmd EXCEPT !.pc = "t-clean", !.synced = FALSE,
                                !.tflag = FALSE, !.told = TRUE]
    /\ UNCHANGED <<server, job, orphans, life, agents, commands, troubles, stray, cutoff>>

\* remove_named: the tag is looked up by its exact name, and deleted by its id.
AfterTag == IF cmd.pc \in InTry THEN "clean" ELSE "t-gate"

Lookup ==
    /\ cmd.pc \in {"lookup", "t-lookup"}
    /\ \E ok \in BOOLEAN :
        cmd' = IF ~ok THEN Problem(cmd, AfterTag)
               ELSE IF tag = NoAgent THEN [cmd EXCEPT !.pc = AfterTag]
               ELSE [cmd EXCEPT !.id = tag, !.pc = IF cmd.pc = "lookup" THEN "delete" ELSE "t-delete"]
    /\ UNCHANGED <<server, job, orphans, life, agents, commands, troubles, stray, cutoff>>

Delete ==
    /\ cmd.pc \in {"delete", "t-delete"}
    /\ \E landed, ok \in BOOLEAN :
        /\ ok => landed
        /\ landed => tag = cmd.id
        /\ tag' = IF landed THEN NoAgent ELSE tag
        /\ cmd' = [IF ok THEN [cmd EXCEPT !.pc = AfterTag] ELSE Problem(cmd, AfterTag)
                   EXCEPT !.id = NoAgent]
    /\ UNCHANGED <<db, views, shown, pending, job, orphans, life, agents, commands, troubles, stray, cutoff>>

\* With a fault: the teardown is given the flags of the command line.
StartVerifyWithAllFlags ==
    /\ \/ /\ cmd.pc \in {"clean", "t-clean"}
          /\ job' = Verify("cleanup-only", cmd.args.flag)
          /\ cmd' = [cmd EXCEPT !.pc = IF @ = "clean" THEN "cleaning" ELSE "t-cleaning"]
       \/ /\ cmd.pc = "build"
          /\ job' = Verify("keep", cmd.args.flag)
          /\ cmd' = [cmd EXCEPT !.pc = "building"]
    /\ UNCHANGED <<server, orphans, life, agents, commands, troubles, stray, cutoff>>

StartVerify ==
    /\ \/ /\ cmd.pc = "clean"
          /\ job' = Verify("cleanup-only", cmd.args.flag)
          /\ cmd' = [cmd EXCEPT !.pc = "cleaning"]
       \/ /\ cmd.pc = "build"
          /\ job' = Verify("keep", cmd.args.flag)
          /\ cmd' = [cmd EXCEPT !.pc = "building"]
       \/ /\ cmd.pc = "t-clean"
          /\ job' = Verify("cleanup-only", cmd.tflag)
          /\ cmd' = [cmd EXCEPT !.pc = "t-cleaning"]
    /\ UNCHANGED <<server, orphans, life, agents, commands, troubles, stray, cutoff>>

\* What a report says of its cleanup, and of its steps.
CleanupError(j) == j.ran /\ j.failed
FixtureError(j) == j.failed
FixtureSkip(j) == j.skip

\* A report without a cleanup fails a reset too, unless it says all is well.
Cleaned ==
    /\ cmd.pc = "cleaning" /\ job.pos = "done"
    /\ cmd' = IF CleanupError(job) \/ (~job.ran /\ FixtureError(job))
              THEN Leaves(cmd, "fixture-failed")
              ELSE [cmd EXCEPT !.pc = "build"]
    /\ job' = NoJob
    /\ UNCHANGED <<server, orphans, life, agents, commands, troubles, stray, cutoff>>

Built ==
    /\ cmd.pc = "building" /\ job.pos = "done"
    /\ cmd' = IF FixtureSkip(job) THEN Leaves(cmd, "skipped")
              ELSE IF FixtureError(job) THEN Leaves(cmd, "fixture-failed")
              ELSE [cmd EXCEPT !.pc = "start"]
    /\ job' = NoJob
    /\ UNCHANGED <<server, orphans, life, agents, commands, troubles, stray, cutoff>>

\* With a fault: what the cleanup could not do is not told.
TornDownUntold ==
    /\ cmd.pc = "t-cleaning" /\ job.pos = "done"
    /\ cmd' = [cmd EXCEPT !.pc = "report", !.heard = job.ran]
    /\ job' = NoJob
    /\ UNCHANGED <<server, orphans, life, agents, commands, troubles, stray, cutoff>>

\* A teardown tells what its cleanup could not do.  A report without a cleanup
\* says nothing.
TornDown ==
    /\ cmd.pc = "t-cleaning" /\ job.pos = "done"
    /\ cmd' = [cmd EXCEPT !.pc = "report", !.heard = job.ran,
                          !.told = IF CleanupError(job) THEN TRUE ELSE @]
    /\ job' = NoJob
    /\ UNCHANGED <<server, orphans, life, agents, commands, troubles, stray, cutoff>>

\* The time limit of a verify ends its launcher.  What runs under it goes on.
VerifyTimesOut ==
    /\ troubles < MaxTroubles /\ troubles' = troubles + 1
    /\ Listening(cmd) /\ job.pos # "done"
    /\ orphans' = orphans \cup {job}
    /\ cutoff' = TRUE
    /\ job' = NoJob
    /\ cmd' = IF cmd.pc \in InTry THEN Leaves(cmd, "fixture-failed")
              ELSE [cmd EXCEPT !.pc = "report"]
    /\ UNCHANGED <<server, life, agents, commands, stray>>

StartAgent ==
    /\ cmd.pc = "start" /\ agents < MaxAgents
    /\ agents' = agents + 1
    /\ life' = [life EXCEPT ![agents + 1] = "on"]
    /\ cmd' = [cmd EXCEPT !.pc = "agent", !.turn = 1, !.error = FALSE]
    /\ UNCHANGED <<server, job, orphans, commands, troubles, stray, cutoff>>

\* The agent ends its turn, with a session to resume or without one.
TurnEnds ==
    /\ cmd.pc = "agent"
    /\ \/ /\ cmd.turn < Turns
          /\ cmd' = [cmd EXCEPT !.turn = @ + 1]
          /\ UNCHANGED life
       \/ /\ \/ cmd.turn = Turns /\ cmd' = [cmd EXCEPT !.pc = "check"]
             \/ cmd' = [cmd EXCEPT !.pc = "check", !.error = TRUE, !.amiss = TRUE]
          /\ life' = [life EXCEPT ![agents] = "off"]
    /\ UNCHANGED <<server, job, orphans, agents, commands, troubles, stray, cutoff>>

\* With a fault: the agent is given up, not killed.
TurnIsGivenUp ==
    /\ troubles < MaxTroubles /\ troubles' = troubles + 1
    /\ cmd.pc = "agent"
    /\ cmd' = [cmd EXCEPT !.pc = "check", !.error = TRUE, !.amiss = TRUE]
    /\ UNCHANGED <<server, job, orphans, life, agents, commands, stray, cutoff>>

\* The time limit of a turn: the agent's process group is killed.
TurnTimesOut ==
    /\ troubles < MaxTroubles /\ troubles' = troubles + 1
    /\ cmd.pc = "agent"
    /\ cmd' = [cmd EXCEPT !.pc = "check", !.error = TRUE, !.amiss = TRUE]
    /\ \E left \in {"off", "last"} :
        /\ life' = [life EXCEPT ![agents] = left]
        /\ stray' = IF left = "last" THEN stray \cup {agents} ELSE stray
    /\ UNCHANGED <<server, job, orphans, agents, commands, cutoff>>

\* The checks: a run that broke is not a clean result whatever they say.
Grade ==
    /\ cmd.pc = "check"
    /\ \E passed \in BOOLEAN :
        cmd' = [cmd EXCEPT !.pc = "next", !.turn = 0, !.error = FALSE,
                           !.graded = @ + 1, !.amiss = IF passed THEN @ ELSE TRUE,
                           !.results = @ \cup {IF cmd.error THEN "broken"
                                               ELSE IF passed THEN "passed" ELSE "failed"}]
    /\ UNCHANGED <<server, job, orphans, life, agents, commands, troubles, stray, cutoff>>

\* The finally of run_scenario.
Leave ==
    /\ cmd.pc = "leave"
    /\ cmd' = [cmd EXCEPT !.pc = IF cmd.args.keep THEN "report" ELSE "t-lookup"]
    /\ UNCHANGED <<server, job, orphans, life, agents, commands, troubles, stray, cutoff>>

\* With faults: only the checks count; the codes add up.
CodeOfChecks(results) == IF "failed" \in results THEN 1 ELSE 0

CodesAdded(results) ==
    (IF "failed" \in results THEN 1 ELSE 0)
        + IF results \cap {"fixture-failed", "broken"} # {} THEN 2 ELSE 0

\* summarise.
Code(results) ==
    IF results \cap {"fixture-failed", "broken"} # {} THEN 2
    ELSE IF "failed" \in results THEN 1 ELSE 0

\* The end of main.  The agents' profile goes with the runner's scratch files:
\* what an agent still sends after that was sent before it.
Report ==
    /\ cmd.pc = "report"
    /\ cmd' = [cmd EXCEPT !.pc = "ended",
                          !.code = IF cmd.interrupted THEN 130 ELSE Code(cmd.results)]
    /\ \E late \in SUBSET Acting :
        life' = [a \in Agents |-> IF a <= cmd.first THEN life[a]
                                  ELSE IF a \in late THEN "last" ELSE "off"]
    /\ UNCHANGED <<server, job, orphans, agents, commands, troubles, stray, cutoff>>

\* Ctrl-C: the finally still runs, the results of the scenario are lost.  The
\* verify is interrupted too; the agent is not.
Interrupt ==
    /\ troubles < MaxTroubles /\ troubles' = troubles + 1
    /\ cmd.pc \in InTry \cup InFinally \cup {"leave"}
    /\ cmd' = [cmd EXCEPT !.pc = IF cmd.pc \in InTry THEN "leave" ELSE "report",
                          !.interrupted = TRUE, !.results = {}, !.amiss = TRUE]
    /\ job' = NoJob
    /\ \/ UNCHANGED <<orphans, cutoff>>
       \/ /\ Listening(cmd) /\ job.pos # "done"
          /\ orphans' = orphans \cup {[job EXCEPT !.last = TRUE]}
          /\ cutoff' = TRUE
    /\ stray' = stray \cup {a \in Agents : life[a] = "on"}
    /\ UNCHANGED <<server, life, agents, commands>>

\* The runner is killed: its children go on, with the files they were given.
Killed ==
    /\ troubles < MaxTroubles /\ troubles' = troubles + 1
    /\ cmd.pc # "ended"
    /\ cmd' = [cmd EXCEPT !.pc = "ended", !.interrupted = TRUE, !.amiss = TRUE, !.code = 130]
    /\ job' = NoJob
    /\ orphans' = IF Listening(cmd) /\ job.pos # "done" THEN orphans \cup {job} ELSE orphans
    /\ cutoff' = (cutoff \/ orphans' # orphans)
    /\ stray' = stray \cup {a \in Agents : life[a] = "on"}
    /\ UNCHANGED <<server, life, agents, commands>>

-----------------------------------------------------------------------------
Init ==
    /\ db = {} /\ views = {} /\ tag = NoAgent /\ shown = FALSE
    /\ pending \in SUBSET Changes
    /\ cmd = [Fresh([flag |-> FALSE, keep |-> FALSE, runs |-> 1], 0) EXCEPT !.pc = "ended"]
    /\ job = NoJob /\ orphans = {}
    /\ life = [a \in Agents |-> "off"]
    /\ agents = 0 /\ commands = 0 /\ troubles = 0
    /\ stray = {} /\ cutoff = FALSE

\* What the runner does by itself, its time limits included.
RunnerStep ==
    \/ NextRun \/ Gate \/ TeardownGate \/ Lookup \/ Delete \/ StartVerify
    \/ Cleaned \/ Built \/ TornDown \/ VerifyTimesOut
    \/ StartAgent \/ TurnEnds \/ TurnTimesOut \/ Grade \/ Leave \/ Report

Next ==
    \/ \E args \in Commands : Begin(args)
    \/ RunnerStep
    \/ Interrupt
    \/ Killed
    \/ JobStep
    \/ \E o \in orphans : OrphanStep(o) \/ OrphanEnds(o)
    \/ \E a \in Agents : AgentActs(a) \/ StrayEnds(a)
    \/ Others

\* Every wait of the runner ends, by an answer or by its time limit.
Spec == Init /\ [][Next]_vars /\ WF_vars(RunnerStep) /\ WF_vars(JobStep)

-----------------------------------------------------------------------------
TypeOK ==
    /\ db \subseteq Fixture /\ views \subseteq Agents /\ tag \in Agents \cup {NoAgent}
    /\ shown \in BOOLEAN /\ pending \subseteq Changes
    /\ cmd \in Cmd /\ job \in Job /\ orphans \subseteq Job
    /\ life \in [Agents -> {"off", "on", "last"}]
    /\ agents \in 0..MaxAgents /\ commands \in 0..MaxCommands
    /\ troubles \in 0..MaxTroubles
    /\ stray \subseteq Agents /\ cutoff \in BOOLEAN

\* Nothing an agent made is left for the next one to find, in the database or
\* by the tag's name, and the fixture is whole: run.py:394 says why.  What
\* lands late, of an agent that was killed or that no runner waits for, and
\* verifies left running are the exceptions.
StartsFresh ==
    cmd.pc = "start" =>
        /\ views \subseteq stray
        /\ tag \in stray \cup {NoAgent}
        /\ cutoff \/ db = Fixture

\* While a run is graded its agent's processes have ended (run_turn), and what
\* the checks find is its own, on a whole fixture, with the same exceptions.
GradedAtRest ==
    cmd.pc = "check" =>
        /\ \A a \in Agents : life[a] # "off" => a \in stray
        /\ views \subseteq stray \cup {agents}
        /\ tag \in stray \cup {agents, NoAgent}
        /\ cutoff \/ db = Fixture

\* A catalogue with something pending at the gate of a run, or of a teardown, is
\* not synchronised by that run or that teardown (the message at run.py:514).
SkippedIsUnsynchronised ==
    Gated /\ cmd.args.flag /\ ~cmd.tflag => ~cmd.synced

\* Exit code 0: nothing broke, failed or was interrupted, and every run asked
\* for was graded or the scenario was skipped.
GreenIsWhole ==
    cmd.pc = "ended" /\ cmd.code = 0 =>
        /\ ~cmd.amiss
        /\ cmd.graded = cmd.args.runs \/ "skipped" \in cmd.results

\* A teardown that heard its cleanup's report and told no problem left nothing
\* of the scenario, in the catalogue too when it was to synchronise.
QuietEndIsClean ==
    cmd.pc = "ended" /\ cmd.heard /\ ~cmd.told /\ ~cutoff =>
        /\ db = {} /\ views = {}
        /\ tag \in stray \cup {NoAgent}
        /\ Gated /\ cmd.tflag => ~shown

\* Every command ends: whatever hangs, the runner's time limits go on.
RunnerEnds == cmd.pc # "ended" ~> cmd.pc = "ended"
=============================================================================
