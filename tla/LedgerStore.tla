----------------------------- MODULE LedgerStore -----------------------------
(***************************************************************************)
(* What the ledger's file promises the commands that use it: a locked       *)
(* write (Ledger.touch, record_created, record_dropped, record_renamed)     *)
(* takes effect at one moment and loses nothing that was written before.    *)
(* The whole ledger may be lost at any moment (the file is damaged, set      *)
(* aside, or deleted after 30 days): a session without its ledger owns       *)
(* nothing, which is safe.  A ledger is never lost in part.                 *)
(*                                                                         *)
(* VqlRun takes each locked write for such a step; LedgerFile implements it. *)
(***************************************************************************)
CONSTANT Writes    \* the locked writes of the session, each one once

VARIABLES
    content,   \* the writes whose effect is in the ledger
    oneLock    \* all processes of the session exclude each other

Init == content = {} /\ oneLock = TRUE

\* A write that finds the ledger in the middle of a loss may bring back what
\* was lost, never less than there was.
Write(w) ==
    /\ content' \in SUBSET Writes
    /\ w \in content'
    /\ oneLock => content \subseteq content'
    /\ UNCHANGED oneLock

Lose == content' = {} /\ UNCHANGED oneLock

\* The promise ends when the file the processes lock is deleted under them.
Break == oneLock' = FALSE /\ UNCHANGED content

Next == (\E w \in Writes : Write(w)) \/ Lose \/ Break

Spec == Init /\ [][Next]_<<content, oneLock>>
=============================================================================
