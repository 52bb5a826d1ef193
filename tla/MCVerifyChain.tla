---------------------------- MODULE MCVerifyChain ----------------------------
(***************************************************************************)
(* Instances of VerifyChain for TLC: a chain with one step of each kind.   *)
(***************************************************************************)
EXTENDS VerifyChain

CONSTANTS db, table, tag, project, theirDatabase, theirView, tableSource,
          tagId, projectId, cache

Over(op, of) == [op |-> op, of |-> of]

Plain(calls) ==
    [gates |-> {}, requires |-> {}, uses |-> {}, needs |-> {}, calls |-> calls,
     capture |-> None, from |-> 0, poll |-> FALSE]

Capturing(st, value, from) == [st EXCEPT !.capture = value, !.from = from]

\* The database; a table in a source database, filled from the cache; a
\* Scheduler project and a job in it, waited for; the marketplace tail: the
\* synchronisation, a tag, and a renamed view matched by another one; the
\* table dropped by a step.
SmallChain ==
    <<Plain(<<Over("make", db)>>),
      [Plain(<<Over("make", table)>>) EXCEPT !.gates = {"writes"}, !.uses = {tableSource},
                                             !.requires = {cache}],
      Capturing([Plain(<<Over("make", project)>>) EXCEPT !.gates = {"scheduler"}],
                projectId, 1),
      [Plain(<<Over("read", project)>>) EXCEPT !.gates = {"scheduler"}, !.uses = {projectId},
                                               !.needs = {2}, !.poll = TRUE],
      Capturing([Plain(<<Over("sync", "DATABASES"), Over("make", tag)>>)
                    EXCEPT !.gates = {"marketplace"}],
                tagId, 2),
      [Plain(<<Over("sync", "VIEWS")>>) EXCEPT !.gates = {"marketplace"}, !.uses = {tagId}],
      [Plain(<<Over("drop", table)>>) EXCEPT !.gates = {"writes"}, !.needs = {2}]>>

SmallDrops ==
    <<[of |-> table, names |-> {tableSource}, writes |-> TRUE],
      [of |-> db, names |-> {}, writes |-> FALSE]>>

SmallEntries ==
    <<[op |-> "delete", gate |-> "scheduler", of |-> project, value |-> projectId],
      [op |-> "delete", gate |-> "marketplace", of |-> tag, value |-> tagId],
      [op |-> "sync", gate |-> "marketplace", of |-> "DATABASES"],
      [op |-> "sync", gate |-> "marketplace", of |-> "VIEWS"]>>

Halved == [c \in Changes |-> IF c = theirDatabase THEN "DATABASES" ELSE "VIEWS"]

SomeFlags == {{"marketplace"}, {"writes", "scheduler"}, Flags}
AllFlags == {Flags}
=============================================================================
