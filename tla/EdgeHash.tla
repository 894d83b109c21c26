------------------------------- MODULE EdgeHash -------------------------------
(***************************************************************************)
(* The hash table from edge keys to ids in DynGraph (graph.h): linear      *)
(* probing, deletion by tombstones, growth by rehashing.  hused counts the *)
(* insertions since the last rehash, not the occupied slots: an insertion  *)
(* may reuse a tombstone and a deletion frees nothing.                     *)
(***************************************************************************)
EXTENDS Integers, FiniteSets

CONSTANTS
  Key,             \* the keys of edges (ekey); that of two vertices 0 is none
  Value,           \* the ids
  Home,            \* [Key -> Nat]: hash_key
  InitialSize,     \* slots after init_hash
  MaxSize          \* bound: slots the model's table may grow to

VARIABLES
  size,            \* hmask + 1
  hkey, hval,      \* [0 .. size - 1 -> key], [0 .. size - 1 -> content]
  hused, hcount

vars == <<size, hkey, hval, hused, hcount>>

\* What a slot's value says of it: an id is stored as id + 1.
Empty == 0
Tombstone == -1
Used(content) == content \notin {Empty, Tombstone}

NoKey == 0
Indices(n) == 0 .. (n - 1)

Init ==
  /\ size = InitialSize
  /\ hkey = [i \in Indices(InitialSize) |-> NoKey]
  /\ hval = [i \in Indices(InitialSize) |-> Empty]
  /\ hused = 0 /\ hcount = 0

-----------------------------------------------------------------------------

\* The slots of key k in the order they are probed in a table of n slots: from
\* its home to the end, then from the front; and the first of them that is in S.
Slot(k, i, n) ==
  LET s == (Home[k] % n) + i
  IN IF s < n THEN s ELSE s - n
FirstSlot(k, n, S) ==
  Slot(k, CHOOSE i \in Indices(n) : Slot(k, i, n) \in S /\ \A j \in Indices(i) : Slot(k, j, n) \notin S, n)

\* raw_insert, on a table of n slots.
RawInsert(t, k, v, n) ==
  LET i == FirstSlot(k, n, {s \in Indices(n) : ~Used(t.val[s])})
  IN [key |-> [t.key EXCEPT ![i] = k], val |-> [t.val EXCEPT ![i] = v]]

\* The slots where find and hash_delete stop looking for k.  If there were none,
\* they would not end.
Stops(k) == {s \in Indices(size) : hval[s] = Empty \/ (Used(hval[s]) /\ hkey[s] = k)}

\* Mutant: the search also ends at a tombstone.
FindToTombstone(k) ==
  LET s == FirstSlot(k, size, Stops(k) \cup {i \in Indices(size) : hval[i] = Tombstone})
  IN hval[s] - 1

\* find: the id, or -1.
Find(k) ==
  LET s == FirstSlot(k, size, Stops(k))
  IN hval[s] - 1

\* A table of n slots after assign.
EmptyTable(n) == [key |-> [i \in Indices(n) |-> NoKey], val |-> [i \in Indices(n) |-> Empty]]

\* rehash: the used slots are inserted, in the order of the old table.
Rehashed(n) ==
  LET table[i \in 0 .. size] ==  \* the new table when the slots below i have been met
        IF i = 0 THEN EmptyTable(n)
        ELSE IF Used(hval[i - 1]) THEN RawInsert(table[i - 1], hkey[i - 1], hval[i - 1], n)
        ELSE table[i - 1]
  IN table[size]

\* Mutant: the table is grown for the live keys only.
NeedsRehashLive == (hcount + 1) * 2 > size

NeedsRehash == (hused + 1) * 2 > size

\* hash_insert; every caller has checked that the key is absent.
HashInsert(k, v) ==
  /\ Find(k) = -1
  /\ LET grown == IF NeedsRehash THEN 2 * size ELSE size
         t == IF NeedsRehash THEN Rehashed(grown) ELSE [key |-> hkey, val |-> hval]
         placed == RawInsert(t, k, v + 1, grown)
     IN /\ grown <= MaxSize
        /\ size' = grown
        /\ hkey' = placed.key /\ hval' = placed.val
        /\ hused' = 1 + IF NeedsRehash THEN Cardinality({i \in Indices(size) : Used(hval[i])})
                        ELSE hused
        /\ hcount' = hcount + 1

DeletedContent == Tombstone

\* hash_delete of a key that is there.
HashDelete(k) ==
  /\ Find(k) # -1
  /\ hval' = [hval EXCEPT ![FirstSlot(k, size, Stops(k))] = DeletedContent]
  /\ hcount' = hcount - 1
  /\ UNCHANGED <<size, hkey, hused>>

\* The table has grown to the model's bound.
AtBound == NeedsRehash /\ 2 * size > MaxSize /\ UNCHANGED vars

Next ==
  \/ \E k \in Key : HashDelete(k) \/ \E v \in Value : HashInsert(k, v)
  \/ AtBound

Spec == Init /\ [][Next]_vars

-----------------------------------------------------------------------------
(* Properties *)

\* Types of the table.
TypeOK ==
  /\ size \in Nat \ {0}
  /\ hkey \in [Indices(size) -> Key \cup {NoKey}]
  /\ hval \in [Indices(size) -> {Empty, Tombstone} \cup {v + 1 : v \in Value}]
  /\ \A i \in Indices(size) : Used(hval[i]) => hkey[i] \in Key
  /\ hused \in Nat /\ hcount \in Nat

\* Among the slots there is always an empty one.
SearchesEnd == \E i \in Indices(size) : hval[i] = Empty

\* hused is never less than the number of occupied slots, and at most half the
\* slots are; hcount is the number of live keys.
UsedSound ==
  /\ Cardinality({i \in Indices(size) : hval[i] # Empty}) <= hused /\ 2 * hused <= size
  /\ hcount = Cardinality({i \in Indices(size) : Used(hval[i])})

\* A live key is in one slot only, so that its deletion removes it.
KeysOnce ==
  \A i, j \in Indices(size) :
    Used(hval[i]) /\ Used(hval[j]) /\ hkey[i] = hkey[j] => i = j

\* No empty slot lies between the home of a live key and its slot.
ProbesReach ==
  \A k \in Key : \A i \in Indices(size) :
    LET s == Slot(k, i, size)
    IN Used(hval[s]) /\ hkey[s] = k => \A j \in Indices(i) : hval[Slot(k, j, size)] # Empty

\* Every search ends, also for absent keys, although tombstones pile up and no
\* deletion is accounted for; it ends at the key if it is there, and no key comes
\* back after its deletion.
TableSound == SearchesEnd /\ UsedSound /\ KeysOnce /\ ProbesReach

\* What the table holds, by what a search returns.
Contents == [k \in {x \in Key : Find(x) # -1} |-> Find(k)]
=============================================================================
