---------------------------- MODULE SessionLedger ----------------------------
(***************************************************************************)
(* The ledger of a session's own objects, as operators on its value        *)
(* (denodo_cli/ledger.py).  A ledger is the list of entries one session    *)
(* keeps for one server.  An entry carries the name its object has now, the *)
(* identity the server gave it, whether the session still sees it as       *)
(* present, and every name it has had.  The file the list lives in, its     *)
(* lock and its damage are modelled in LedgerFile; here every operator is   *)
(* what one locked write, or one read, does to the list.                    *)
(*                                                                         *)
(* An object is named by a key <<database, name>>; <<d, Whole>> is the      *)
(* database d itself.  Letter case, kinds and time stamps are left out:     *)
(* they decide nothing about ownership.                                     *)
(***************************************************************************)
EXTENDS Naturals, Sequences

CONSTANTS
    Databases,   \* names of the databases of the server
    Names,       \* names of elements inside a database
    Whole        \* the second part of the key of a database

ASSUME WholeAssumption == Whole \notin Names \cup Databases

\* ObjectRef.key(): an element of a database, or the database.
Elements == Databases \X Names
Keys == Databases \X (Names \cup {Whole})

\* The server's internal_id.  NoId stands for None: nothing was recorded, or
\* the catalogue gives no identity (databases).
NoId == 0
Id == Nat \ {NoId}

Entry == [key: Keys, id: Nat, present: BOOLEAN, names: SUBSET Keys]

Ledger == Seq(Entry)

(***************************************************************************)
(* Reads                                                                   *)
(***************************************************************************)

\* The entries that are present under this very name.
Present(ledger, key) ==
    {i \in DOMAIN ledger : ledger[i].present /\ ledger[i].key = key}

\* Ledger.find: the latest of them, if any (a set of at most one index).
Find(ledger, key) ==
    {i \in Present(ledger, key) : \A j \in Present(ledger, key) : j <= i}

\* Ledger.former: the entries that were once under the name and no longer
\* are, dropped or renamed away.  The code takes the latest; its callers ask
\* only whether there is one.
Former(ledger, key) ==
    {i \in DOMAIN ledger :
        /\ key \in ledger[i].names
        /\ ~ledger[i].present \/ ledger[i].key # key}

\* The objects of a database the session sees as present.
Inside(ledger, key) ==
    {i \in DOMAIN ledger :
        /\ key[2] = Whole
        /\ ledger[i].present
        /\ ledger[i].key[1] = key[1]
        /\ ledger[i].key[2] # Whole}

(***************************************************************************)
(* Writes, each one made under the lock of the session's file              *)
(***************************************************************************)

\* Two identities that do not contradict each other: either may be missing.
Compatible(one, other) == one = NoId \/ other = NoId \/ one = other

\* Bug: a present entry of the name ends the search, whatever its identity.
RecordCreatedByName(ledger, key, id) ==
    IF Present(ledger, key) # {} THEN ledger
    ELSE Append(ledger, [key |-> key, id |-> id, present |-> TRUE, names |-> {key}])

\* Ledger.record_created.  A present entry of the name either is this object
\* (and learns its identity), or is one the ledger never saw go: it is
\* retired, and the search for the object's own entry goes on.
RecordCreated(ledger, key, id) ==
    LET same == {i \in Present(ledger, key) : Compatible(id, ledger[i].id)}
        first == {i \in same : \A j \in same : i <= j}
        retired == {i \in Present(ledger, key) : \A j \in same : i < j}
        marked == [i \in DOMAIN ledger |->
                      IF i \in retired
                      THEN [ledger[i] EXCEPT !.present = FALSE]
                      ELSE IF i \in first /\ ledger[i].id = NoId
                      THEN [ledger[i] EXCEPT !.id = id]
                      ELSE ledger[i]]
        entry == [key |-> key, id |-> id, present |-> TRUE, names |-> {key}]
    IN  IF same = {} THEN Append(marked, entry) ELSE marked

\* Bug: the entry goes with any name it ever had.
RecordDroppedEver(ledger, key) ==
    [i \in DOMAIN ledger |->
        IF key \in ledger[i].names \/ i \in Inside(ledger, key)
        THEN [ledger[i] EXCEPT !.present = FALSE]
        ELSE ledger[i]]

\* Ledger.record_dropped: a database takes its objects along.
RecordDropped(ledger, key) ==
    LET goes == Present(ledger, key) \cup Inside(ledger, key)
    IN  [i \in DOMAIN ledger |->
            IF i \in goes THEN [ledger[i] EXCEPT !.present = FALSE]
            ELSE ledger[i]]

\* Ledger.record_renamed: the entry follows its object to the new name.
RecordRenamed(ledger, key, new) ==
    [i \in DOMAIN ledger |->
        IF i \in Present(ledger, key)
        THEN [ledger[i] EXCEPT !.key = new, !.names = @ \cup {new}]
        ELSE ledger[i]]

(***************************************************************************)
(* Whose an object is: _Walk.own of the planner, for a name the input has  *)
(* not touched.  "found" is the identity the catalogue shows for it, NoId   *)
(* when it shows none.                                                     *)
(***************************************************************************)
\* Bug: the name alone vouches for the object.
VouchesByName(entry, found) == TRUE

Vouches(entry, found) ==
    found \in (IF entry.id = NoId THEN {NoId} ELSE {NoId, entry.id})

Owned(ledger, key, exists, found) ==
    /\ exists
    /\ \E i \in Find(ledger, key) : Vouches(ledger[i], found)

=============================================================================
