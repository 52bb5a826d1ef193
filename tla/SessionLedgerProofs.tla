------------------------- MODULE SessionLedgerProofs -------------------------
(***************************************************************************)
(* What the reads and writes of a ledger return, for every ledger: used by  *)
(* the proofs about the models that keep one.                              *)
(***************************************************************************)
EXTENDS SessionLedger, SequenceTheorems, WellFoundedInduction, TLAPS

-----------------------------------------------------------------------------
(* What a write leaves of types and identities                             *)

\* A function on 1..n is a sequence.
LEMMA FunctionIsSeq ==
    ASSUME NEW S, NEW n \in Nat, NEW f \in [1..n -> S]
    PROVE  f \in Seq(S) /\ Len(f) = n
  BY SeqDef

\* Every write gives a ledger again, and holds no identity but those of the
\* ledger it started from and the one it was given.
LEMMA RecordCreatedFacts ==
    ASSUME NEW l \in Ledger, NEW key \in Keys, NEW id \in Nat
    PROVE  /\ RecordCreated(l, key, id) \in Ledger
           /\ \A i \in DOMAIN RecordCreated(l, key, id) :
                \/ RecordCreated(l, key, id)[i].id = id
                \/ \E j \in DOMAIN l : RecordCreated(l, key, id)[i].id = l[j].id
<1> DEFINE same == {i \in Present(l, key) : Compatible(id, l[i].id)}
           first == {i \in same : \A j \in same : i <= j}
           retired == {i \in Present(l, key) : \A j \in same : i < j}
           marked == [i \in DOMAIN l |->
                      IF i \in retired
                      THEN [l[i] EXCEPT !.present = FALSE]
                      ELSE IF i \in first /\ l[i].id = NoId
                      THEN [l[i] EXCEPT !.id = id]
                      ELSE l[i]]
           entry == [key |-> key, id |-> id, present |-> TRUE, names |-> {key}]
<1>1. RecordCreated(l, key, id) = IF same = {} THEN Append(marked, entry) ELSE marked
  BY DEF RecordCreated
<1>2. entry \in Entry /\ entry.id = id
  BY DEF Entry
<1>3. /\ Len(l) \in Nat /\ DOMAIN l = 1..Len(l)
      /\ \A i \in 1..Len(l) : l[i] \in Entry
  BY DEF Ledger
<1>4. \A i \in 1..Len(l) : /\ marked[i] \in Entry
                           /\ marked[i].id = id \/ marked[i].id = l[i].id
  BY <1>3 DEF Entry
<1> HIDE DEF marked, entry, same
<1>5. DOMAIN marked = 1..Len(l)
  BY <1>3 DEF marked
<1>7. marked = [i \in 1..Len(l) |-> marked[i]]
  BY <1>5 DEF marked
<1>6. marked \in Seq(Entry) /\ Len(marked) = Len(l)
  BY <1>3, <1>4, <1>5, <1>7, FunctionIsSeq
<1> QED
  BY <1>1, <1>2, <1>3, <1>4, <1>5, <1>6 DEF Ledger

LEMMA RecordDroppedFacts ==
    ASSUME NEW l \in Ledger, NEW key \in Keys
    PROVE  /\ RecordDropped(l, key) \in Ledger
           /\ DOMAIN RecordDropped(l, key) = DOMAIN l
           /\ \A i \in DOMAIN l : RecordDropped(l, key)[i].id = l[i].id
<1> DEFINE new == RecordDropped(l, key)
<1>1. /\ Len(l) \in Nat /\ DOMAIN l = 1..Len(l)
      /\ \A i \in 1..Len(l) : l[i] \in Entry
  BY DEF Ledger
<1>2. DOMAIN new = 1..Len(l)
  BY <1>1 DEF RecordDropped
<1>3. \A i \in 1..Len(l) : new[i] \in Entry /\ new[i].id = l[i].id
  BY <1>1 DEF RecordDropped, Entry
<1>4. new = [i \in 1..Len(l) |-> new[i]]
  BY <1>1, <1>2 DEF RecordDropped
<1> HIDE DEF new
<1>5. new \in Seq(Entry)
  BY <1>1, <1>3, <1>4, FunctionIsSeq
<1> QED
  BY <1>1, <1>2, <1>3, <1>5 DEF Ledger, new

LEMMA RecordRenamedFacts ==
    ASSUME NEW l \in Ledger, NEW key \in Keys, NEW to \in Keys
    PROVE  /\ RecordRenamed(l, key, to) \in Ledger
           /\ DOMAIN RecordRenamed(l, key, to) = DOMAIN l
           /\ \A i \in DOMAIN l : RecordRenamed(l, key, to)[i].id = l[i].id
<1> DEFINE new == RecordRenamed(l, key, to)
<1>1. /\ Len(l) \in Nat /\ DOMAIN l = 1..Len(l)
      /\ \A i \in 1..Len(l) : l[i] \in Entry
  BY DEF Ledger
<1>2. DOMAIN new = 1..Len(l)
  BY <1>1 DEF RecordRenamed
<1>3. \A i \in 1..Len(l) : new[i] \in Entry /\ new[i].id = l[i].id
  BY <1>1 DEF RecordRenamed, Entry
<1>4. new = [i \in 1..Len(l) |-> new[i]]
  BY <1>1, <1>2 DEF RecordRenamed
<1> HIDE DEF new
<1>5. new \in Seq(Entry)
  BY <1>1, <1>3, <1>4, FunctionIsSeq
<1> QED
  BY <1>1, <1>2, <1>3, <1>5 DEF Ledger, new

-----------------------------------------------------------------------------
(* What a write leaves of names and of what is present                     *)

\* A creation adds at most one entry, of the new name alone, and makes no
\* other present that was not.
LEMMA CreatedNames ==
    ASSUME NEW l \in Ledger, NEW key \in Keys, NEW id \in Nat,
           NEW r, r = RecordCreated(l, key, id)
    PROVE  /\ \A i \in DOMAIN r :
                \/ /\ i \in DOMAIN l /\ r[i].key = l[i].key /\ r[i].names = l[i].names
                   /\ r[i].present => l[i].present
                \/ r[i].key = key /\ r[i].names = {key}
           /\ \A i \in DOMAIN l : i \in DOMAIN r /\ r[i].names = l[i].names
<1> DEFINE same == {i \in Present(l, key) : Compatible(id, l[i].id)}
           first == {i \in same : \A j \in same : i <= j}
           retired == {i \in Present(l, key) : \A j \in same : i < j}
           marked == [i \in DOMAIN l |->
                      IF i \in retired
                      THEN [l[i] EXCEPT !.present = FALSE]
                      ELSE IF i \in first /\ l[i].id = NoId
                      THEN [l[i] EXCEPT !.id = id]
                      ELSE l[i]]
           entry == [key |-> key, id |-> id, present |-> TRUE, names |-> {key}]
<1>1. r = IF same = {} THEN Append(marked, entry) ELSE marked
  BY DEF RecordCreated
<1>2. entry.key = key /\ entry.names = {key}
  OBVIOUS
<1>3. /\ Len(l) \in Nat /\ DOMAIN l = 1..Len(l)
      /\ \A i \in 1..Len(l) : l[i] \in Entry
  BY DEF Ledger
<1>4. \A i \in 1..Len(l) : /\ marked[i] \in Entry
                           /\ marked[i].key = l[i].key /\ marked[i].names = l[i].names
                           /\ marked[i].present => l[i].present
  BY <1>3 DEF Entry
<1> HIDE DEF marked, entry, same
<1>5. DOMAIN marked = 1..Len(l)
  BY <1>3 DEF marked
<1>6. marked = [i \in 1..Len(l) |-> marked[i]]
  BY <1>5 DEF marked
<1>7. marked \in Seq(Entry) /\ Len(marked) = Len(l)
  BY <1>3, <1>4, <1>5, <1>6, FunctionIsSeq
<1>8. CASE same = {}
  <2>1. r = Append(marked, entry)
    BY <1>1, <1>8
  <2>2. /\ DOMAIN r = 1..(Len(l) + 1)
        /\ \A i \in 1..Len(l) : r[i] = marked[i]
        /\ r[Len(l) + 1] = entry
    BY <1>3, <1>7, <2>1
  <2>3. \A i \in DOMAIN r : i \in 1..Len(l) \/ i = Len(l) + 1
    BY <1>3, <2>2
  <2> QED
    BY <1>2, <1>3, <1>4, <2>2, <2>3
<1>9. CASE same # {}
  BY <1>1, <1>3, <1>4, <1>5, <1>9
<1> QED
  BY <1>8, <1>9

\* A drop changes no name, makes nothing present, and takes along what was
\* present under the name or inside the database.
LEMMA DroppedNames ==
    ASSUME NEW l \in Ledger, NEW key \in Keys, NEW r, r = RecordDropped(l, key)
    PROVE  /\ DOMAIN r = DOMAIN l
           /\ \A i \in DOMAIN l :
                /\ r[i].key = l[i].key /\ r[i].names = l[i].names
                /\ r[i].present =>
                     /\ l[i].present /\ l[i].key # key
                     /\ ~(key[2] = Whole /\ l[i].key[1] = key[1])
<1>1. /\ Len(l) \in Nat /\ DOMAIN l = 1..Len(l)
      /\ \A i \in 1..Len(l) : l[i] \in Entry
  BY DEF Ledger
<1>2. DOMAIN r = DOMAIN l
  BY DEF RecordDropped
<1> SUFFICES ASSUME NEW i \in DOMAIN l
             PROVE  /\ r[i].key = l[i].key /\ r[i].names = l[i].names
                    /\ r[i].present =>
                         /\ l[i].present /\ l[i].key # key
                         /\ ~(key[2] = Whole /\ l[i].key[1] = key[1])
  BY <1>2
<1>3. CASE i \in Present(l, key) \cup Inside(l, key)
  <2>1. r[i] = [l[i] EXCEPT !.present = FALSE]
    BY <1>3 DEF RecordDropped
  <2> QED
    BY <1>1, <2>1 DEF Entry
<1>4. CASE i \notin Present(l, key) \cup Inside(l, key)
  <2>1. r[i] = l[i]
    BY <1>4 DEF RecordDropped
  <2>2. l[i].present => l[i].key # key
    BY <1>4 DEF Present
  <2>3. l[i].present /\ key[2] = Whole /\ l[i].key[1] = key[1] => l[i].key[2] = Whole
    BY <1>4 DEF Inside
  <2>4. l[i].key \in Keys
    BY <1>1 DEF Entry
  <2>5. key[2] = Whole /\ l[i].key[1] = key[1] /\ l[i].key[2] = Whole => l[i].key = key
    BY <2>4 DEF Keys
  <2> QED
    BY <2>1, <2>2, <2>3, <2>5
<1> QED
  BY <1>3, <1>4

\* A rename moves what is present under the name, with the names it has had.
LEMMA RenamedNames ==
    ASSUME NEW l \in Ledger, NEW key \in Keys, NEW to \in Keys,
           NEW r, r = RecordRenamed(l, key, to)
    PROVE  /\ DOMAIN r = DOMAIN l
           /\ \A i \in DOMAIN l :
                IF l[i].present /\ l[i].key = key
                THEN r[i].present /\ r[i].key = to /\ r[i].names = l[i].names \cup {to}
                ELSE r[i] = l[i]
<1>1. /\ Len(l) \in Nat /\ DOMAIN l = 1..Len(l)
      /\ \A i \in 1..Len(l) : l[i] \in Entry
  BY DEF Ledger
<1>2. DOMAIN r = DOMAIN l
  BY DEF RecordRenamed
<1> SUFFICES ASSUME NEW i \in DOMAIN l
             PROVE  IF l[i].present /\ l[i].key = key
                    THEN r[i].present /\ r[i].key = to /\ r[i].names = l[i].names \cup {to}
                    ELSE r[i] = l[i]
  BY <1>2
<1>3. CASE i \in Present(l, key)
  <2>1. r[i] = [l[i] EXCEPT !.key = to, !.names = @ \cup {to}]
    BY <1>3 DEF RecordRenamed
  <2> QED
    BY <1>1, <1>3, <2>1 DEF Entry, Present
<1>4. CASE i \notin Present(l, key)
  BY <1>4 DEF RecordRenamed, Present
<1> QED
  BY <1>3, <1>4

-----------------------------------------------------------------------------
(* What a write does to the entry of an object                             *)

\* A set of positions that is not empty has a least one.
LEMMA LeastPosition ==
    ASSUME NEW n \in Nat, NEW S \in SUBSET (1..n), S # {}
    PROVE  \E i \in S : \A j \in S : i <= j
<1> DEFINE R == OpToRel(<, Nat)
<1>1. S \subseteq Nat
  OBVIOUS
<1>2. PICK i \in S : \A j \in S : <<j, i>> \notin R
  <2>1. IsWellFoundedOn(R, Nat)
    BY NatLessThanWellFounded
  <2> HIDE DEF R
  <2> QED
    BY <1>1, <2>1, WFMin
<1>3. \A j \in S : ~(j < i)
  BY <1>1, <1>2 DEF OpToRel
<1> QED
  BY <1>1, <1>3

\* Recording a creation leaves the entry of every object it is not about: that
\* of another name, or of this one with an identity that is not contradicted.
LEMMA CreatedKeeps ==
    ASSUME NEW l \in Ledger, NEW key \in Keys, NEW id \in Nat,
           NEW r, r = RecordCreated(l, key, id),
           NEW k, NEW e \in Present(l, k), l[e].id # NoId,
           k # key \/ id \in {NoId, l[e].id}
    PROVE  e \in Present(r, k) /\ r[e].id = l[e].id
<1> DEFINE same == {i \in Present(l, key) : Compatible(id, l[i].id)}
           first == {i \in same : \A j \in same : i <= j}
           retired == {i \in Present(l, key) : \A j \in same : i < j}
           marked == [i \in DOMAIN l |->
                      IF i \in retired
                      THEN [l[i] EXCEPT !.present = FALSE]
                      ELSE IF i \in first /\ l[i].id = NoId
                      THEN [l[i] EXCEPT !.id = id]
                      ELSE l[i]]
           entry == [key |-> key, id |-> id, present |-> TRUE, names |-> {key}]
<1>1. r = IF same = {} THEN Append(marked, entry) ELSE marked
  BY DEF RecordCreated
<1>2. /\ Len(l) \in Nat /\ DOMAIN l = 1..Len(l)
      /\ \A i \in 1..Len(l) : l[i] \in Entry
  BY DEF Ledger
<1>3. e \in 1..Len(l) /\ l[e].present /\ l[e].key = k
  BY <1>2 DEF Present
<1>4. e \notin retired
  <2>1. CASE k # key
    BY <1>3, <2>1 DEF Present
  <2>2. CASE k = key
    <3>1. e \in same
      BY <2>2 DEF Compatible
    <3>2. ~(e < e)
      BY <1>3
    <3> QED
      BY <3>1, <3>2
  <2> QED
    BY <2>1, <2>2
<1>5. marked[e] = l[e]
  BY <1>2, <1>3, <1>4
<1>6. \A i \in 1..Len(l) : marked[i] \in Entry
  BY <1>2 DEF Entry
<1>7. entry \in Entry
  BY DEF Entry
<1> HIDE DEF marked, entry, same
<1>8. DOMAIN marked = 1..Len(l)
  BY <1>2 DEF marked
<1>9. marked = [i \in 1..Len(l) |-> marked[i]]
  BY <1>8 DEF marked
<1>10. marked \in Seq(Entry) /\ Len(marked) = Len(l)
  BY <1>2, <1>6, <1>9, FunctionIsSeq
<1>11. e \in DOMAIN r /\ r[e] = l[e]
  BY <1>1, <1>2, <1>3, <1>5, <1>7, <1>8, <1>10
<1> QED
  BY <1>3, <1>11 DEF Present

\* Recording a creation leaves an entry of the name with the identity.
LEMMA CreatedEnters ==
    ASSUME NEW l \in Ledger, NEW key \in Keys, NEW id \in Id
    PROVE  \E e \in Present(RecordCreated(l, key, id), key) :
                RecordCreated(l, key, id)[e].id = id
<1> DEFINE same == {i \in Present(l, key) : Compatible(id, l[i].id)}
           first == {i \in same : \A j \in same : i <= j}
           retired == {i \in Present(l, key) : \A j \in same : i < j}
           marked == [i \in DOMAIN l |->
                      IF i \in retired
                      THEN [l[i] EXCEPT !.present = FALSE]
                      ELSE IF i \in first /\ l[i].id = NoId
                      THEN [l[i] EXCEPT !.id = id]
                      ELSE l[i]]
           entry == [key |-> key, id |-> id, present |-> TRUE, names |-> {key}]
<1> DEFINE r == RecordCreated(l, key, id)
<1>1. r = IF same = {} THEN Append(marked, entry) ELSE marked
  BY DEF RecordCreated
<1>2. /\ Len(l) \in Nat /\ DOMAIN l = 1..Len(l)
      /\ \A i \in 1..Len(l) : l[i] \in Entry
  BY DEF Ledger
<1>3. id \in Nat /\ id # NoId
  BY DEF Id
<1>4. \A i \in 1..Len(l) : marked[i] \in Entry
  BY <1>2, <1>3 DEF Entry
<1>5. entry \in Entry /\ entry.key = key /\ entry.id = id /\ entry.present
  BY <1>3 DEF Entry
<1>6. CASE same = {}
  <2> HIDE DEF marked, entry, same
  <2>1. DOMAIN marked = 1..Len(l)
    BY <1>2 DEF marked
  <2>2. marked = [i \in 1..Len(l) |-> marked[i]]
    BY <2>1 DEF marked
  <2>3. marked \in Seq(Entry) /\ Len(marked) = Len(l)
    BY <1>2, <1>4, <2>2, FunctionIsSeq
  <2>4. Len(l) + 1 \in DOMAIN r /\ r[Len(l) + 1] = entry
    BY <1>1, <1>2, <1>5, <1>6, <2>3
  <2> QED
    BY <1>5, <2>4 DEF Present
<1>7. CASE same # {}
  <2>1. same \in SUBSET (1..Len(l))
    BY <1>2 DEF Present
  <2>2. PICK f \in same : \A j \in same : f <= j
    BY <1>2, <1>7, <2>1, LeastPosition
  <2>3. /\ f \in first /\ f \in 1..Len(l) /\ f \in DOMAIN l
        /\ l[f].present /\ l[f].key = key
        /\ Compatible(id, l[f].id)
    BY <1>2, <2>2 DEF Present
  <2>4. f \notin retired
    BY <2>2, <2>3
  <2>5. marked[f] = IF l[f].id = NoId THEN [l[f] EXCEPT !.id = id] ELSE l[f]
    BY <2>3, <2>4
  <2>6. l[f] \in Entry
    BY <1>2, <2>3
  <2>7. marked[f].id = id /\ marked[f].present /\ marked[f].key = key
    <3>1. CASE l[f].id = NoId
      BY <2>3, <2>5, <2>6, <3>1 DEF Entry
    <3>2. CASE l[f].id # NoId
      BY <1>3, <2>3, <2>5, <3>2 DEF Compatible
    <3> QED
      BY <3>1, <3>2
  <2>8. r = marked /\ f \in DOMAIN marked
    BY <1>1, <1>7, <2>3
  <2> HIDE DEF marked
  <2> QED
    BY <2>7, <2>8 DEF Present
<1> QED
  BY <1>6, <1>7

\* Recording a drop leaves the entries outside of what was dropped.
LEMMA DroppedKeeps ==
    ASSUME NEW l \in Ledger, NEW key \in Keys, NEW r, r = RecordDropped(l, key),
           NEW k, NEW e \in Present(l, k),
           k # key, ~(key[2] = Whole /\ k[1] = key[1])
    PROVE  e \in Present(r, k) /\ r[e].id = l[e].id
<1>1. e \in DOMAIN l /\ l[e].present /\ l[e].key = k
  BY DEF Present
<1>2. e \notin Present(l, key) \cup Inside(l, key)
  BY <1>1 DEF Present, Inside
<1>3. DOMAIN r = DOMAIN l /\ r[e] = l[e]
  BY <1>1, <1>2 DEF RecordDropped
<1> QED
  BY <1>1, <1>3 DEF Present

\* Recording a rename moves the entries of the name, and leaves the others.
LEMMA RenamedKeeps ==
    ASSUME NEW l \in Ledger, NEW key \in Keys, NEW to \in Keys,
           NEW r, r = RecordRenamed(l, key, to), NEW k, NEW e \in Present(l, k)
    PROVE  /\ e \in Present(r, IF k = key THEN to ELSE k)
           /\ r[e].id = l[e].id
<1>1. e \in DOMAIN l /\ l[e].present /\ l[e].key = k
  BY DEF Present
<1>2. DOMAIN r = DOMAIN l /\ r[e].id = l[e].id
  BY <1>1, RecordRenamedFacts
<1>3. IF k = key THEN r[e].present /\ r[e].key = to ELSE r[e] = l[e]
  BY <1>1, RenamedNames
<1> QED
  BY <1>1, <1>2, <1>3 DEF Present

=============================================================================
