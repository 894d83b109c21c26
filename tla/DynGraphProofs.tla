---------------------------- MODULE DynGraphProofs ----------------------------
(***************************************************************************)
(* What holds of DynGraph for every set of vertices, pairs and keys: the   *)
(* hash table is a map, every search in it ends, the lists and positions   *)
(* agree with the edges, and common_neighbors meets every triangle once.   *)
(*                                                                         *)
(* The first part is about tables as values: a table t of N slots is the   *)
(* record [key, val] that raw_insert and rehash work on.                   *)
(***************************************************************************)
EXTENDS DynGraph, FiniteSetTheorems, SequenceTheorems, TLAPS

(* Numbers *)

\* A non-empty set of numbers has a least element.
LEMMA LeastOf ==
  ASSUME NEW S \in SUBSET Nat, S # {}
  PROVE  \E m \in S : \A k \in S : m <= k
<1>1. IsWellFoundedOn(OpToRel(<, Nat), Nat)
  BY NatLessThanWellFounded
<1>2. PICK m \in S : \A k \in S : <<k, m>> \notin OpToRel(<, Nat)
  BY <1>1, WFMin
<1>3. \A k \in S : ~(k < m)
  BY <1>2 DEF OpToRel
<1> QED BY <1>3

\* The slots of a table are finitely many.
LEMMA IndicesFinite ==
  ASSUME NEW N \in Nat
  PROVE  /\ IsFiniteSet(Hash!Indices(N)) /\ Cardinality(Hash!Indices(N)) = N
         /\ \A S \in SUBSET Hash!Indices(N) :
              IsFiniteSet(S) /\ Cardinality(S) \in Nat /\ Cardinality(S) <= N
<1>1. IsFiniteSet(Hash!Indices(N)) /\ Cardinality(Hash!Indices(N)) = N
  <2>1. 0 \in Int /\ N - 1 \in Int
    OBVIOUS
  <2> QED BY <2>1, FS_Interval DEF Hash!Indices
<1>2. ASSUME NEW S \in SUBSET Hash!Indices(N)
      PROVE  IsFiniteSet(S) /\ Cardinality(S) \in Nat /\ Cardinality(S) <= N
  BY <1>1, FS_Subset, FS_CardinalityType
<1> QED BY <1>1, <1>2

(* Probing *)

\* Probing for a key reaches every slot, and each once.
LEMMA SlotFacts ==
  ASSUME NEW N \in Nat \ {0}, NEW k \in Keys
  PROVE  /\ \A i \in Hash!Indices(N) : Hash!Slot(k, i, N) \in Hash!Indices(N)
         /\ \A s \in Hash!Indices(N) : \E i \in Hash!Indices(N) : Hash!Slot(k, i, N) = s
         /\ \A i, j \in Hash!Indices(N) : Hash!Slot(k, i, N) = Hash!Slot(k, j, N) => i = j
<1>1. Home[k] \in Nat
  BY GraphAssumption
<1>2. PICK h \in 0 .. (N - 1) : h = Home[k] % N
  BY <1>1
<1>3. \A i \in 0 .. (N - 1) : Hash!Slot(k, i, N) = IF h + i < N THEN h + i ELSE h + i - N
  BY <1>2 DEF Hash!Slot
<1>4. ASSUME NEW s \in 0 .. (N - 1)
      PROVE  \E i \in 0 .. (N - 1) : Hash!Slot(k, i, N) = s
  <2>1. CASE s >= h
    <3>1. s - h \in 0 .. (N - 1) /\ h + (s - h) = s /\ s < N
      BY <2>1
    <3>2. Hash!Slot(k, s - h, N) = s
      BY <1>3, <3>1
    <3> QED BY <3>1, <3>2
  <2>2. CASE s < h
    <3>1. s + N - h \in 0 .. (N - 1) /\ h + (s + N - h) >= N /\ h + (s + N - h) - N = s
      BY <2>2
    <3>2. Hash!Slot(k, s + N - h, N) = s
      BY <1>3, <3>1
    <3> QED BY <3>1, <3>2
  <2> QED BY <1>3, <2>1, <2>2
<1>5. \A i \in 0 .. (N - 1) : Hash!Slot(k, i, N) \in 0 .. (N - 1)
  BY <1>3
<1>6. \A i, j \in 0 .. (N - 1) : Hash!Slot(k, i, N) = Hash!Slot(k, j, N) => i = j
  BY <1>3
<1> QED BY <1>4, <1>5, <1>6 DEF Hash!Indices

\* The first slot of a set that probing for k meets.
LEMMA FirstSlotFacts ==
  ASSUME NEW N \in Nat \ {0}, NEW k \in Keys,
         NEW S \in SUBSET Hash!Indices(N), S # {}
  PROVE  \E i \in Hash!Indices(N) :
           /\ Hash!FirstSlot(k, N, S) = Hash!Slot(k, i, N)
           /\ Hash!Slot(k, i, N) \in S
           /\ \A j \in Hash!Indices(i) : Hash!Slot(k, j, N) \notin S
<1> DEFINE P == {i \in Hash!Indices(N) : Hash!Slot(k, i, N) \in S}
           First(i) == Hash!Slot(k, i, N) \in S /\ \A j \in Hash!Indices(i) : Hash!Slot(k, j, N) \notin S
<1>1. P \in SUBSET Nat /\ P # {}
  <2>1. PICK s \in S : s \in Hash!Indices(N)
    OBVIOUS
  <2>2. PICK i \in Hash!Indices(N) : Hash!Slot(k, i, N) = s
    BY <2>1, SlotFacts
  <2> QED BY <2>1, <2>2 DEF Hash!Indices
<1>2. PICK m \in P : \A i \in P : m <= i
  BY <1>1, LeastOf
<1>3. m \in Hash!Indices(N) /\ First(m)
  BY <1>1, <1>2 DEF Hash!Indices
<1>4. \E i \in Hash!Indices(N) : First(i)
  BY <1>3
<1>5. PICK i \in Hash!Indices(N) : i = (CHOOSE x \in Hash!Indices(N) : First(x)) /\ First(i)
  BY <1>4
<1>6. Hash!FirstSlot(k, N, S) = Hash!Slot(k, i, N)
  BY <1>5 DEF Hash!FirstSlot
<1> QED BY <1>5, <1>6

(* Tables *)

\* What a slot's value may be, and the tables of N slots.
Content == {Hash!Empty, Hash!Tombstone} \cup {v + 1 : v \in Ids}
Tables(N) == [key : [Hash!Indices(N) -> Keys \cup {Hash!NoKey}], val : [Hash!Indices(N) -> Content]]

\* A live key k stands in slot s.
Stands(t, s, k) == Hash!Used(t.val[s]) /\ t.key[s] = k

\* The slots with a live key, the occupied ones, and where a search for k ends.
UsedSlots(t, N) == {s \in Hash!Indices(N) : Hash!Used(t.val[s])}
OccupiedSlots(t, N) == {s \in Hash!Indices(N) : t.val[s] # Hash!Empty}
StopsIn(t, N, k) == {s \in Hash!Indices(N) : t.val[s] = Hash!Empty \/ Stands(t, s, k)}

\* What find returns on t.
Lookup(t, N, k) == t.val[Hash!FirstSlot(k, N, StopsIn(t, N, k))] - 1

\* TypeOK, KeysOnce and ProbesReach of a table.
GoodTable(t, N) ==
  /\ t \in Tables(N)
  /\ \A s \in UsedSlots(t, N) : t.key[s] \in Keys
  /\ \A r, s \in UsedSlots(t, N) : t.key[r] = t.key[s] => r = s
  /\ \A k \in Keys : \A i \in Hash!Indices(N) :
       Stands(t, Hash!Slot(k, i, N), k) =>
         \A j \in Hash!Indices(i) : t.val[Hash!Slot(k, j, N)] # Hash!Empty

\* A content is empty, a tombstone, or an id.
LEMMA ContentFacts ==
  /\ \A v \in Ids : v \in Nat /\ v + 1 \in Content /\ Hash!Used(v + 1)
  /\ \A c \in Content : c \in Int /\ (Hash!Used(c) <=> c - 1 \in Ids)
  /\ ~Hash!Used(Hash!Empty) /\ ~Hash!Used(Hash!Tombstone) /\ Hash!Empty # Hash!Tombstone
<1>1. MaxIds \in Nat
  BY GraphAssumption
<1> QED BY <1>1 DEF Ids, Content, Hash!Used, Hash!Empty, Hash!Tombstone

\* A search for a key that stands in the table ends at it, and a search for
\* another at an empty slot.
LEMMA LookupFacts ==
  ASSUME NEW N \in Nat \ {0}, NEW t, GoodTable(t, N), NEW k \in Keys,
         OccupiedSlots(t, N) # Hash!Indices(N)
  PROVE  LET s == Hash!FirstSlot(k, N, StopsIn(t, N, k))
         IN /\ s \in Hash!Indices(N)
            /\ \/ /\ Stands(t, s, k)
                  /\ Lookup(t, N, k) \in Ids
               \/ /\ \A r \in Hash!Indices(N) : ~Stands(t, r, k)
                  /\ Lookup(t, N, k) = -1
<1> DEFINE S == StopsIn(t, N, k)
           s == Hash!FirstSlot(k, N, S)
<1>1. S \in SUBSET Hash!Indices(N) /\ S # {}
  BY DEF OccupiedSlots, StopsIn
<1>2. PICK i \in Hash!Indices(N) :
        /\ s = Hash!Slot(k, i, N) /\ s \in S
        /\ \A j \in Hash!Indices(i) : Hash!Slot(k, j, N) \notin S
  BY <1>1, FirstSlotFacts
<1>3. s \in Hash!Indices(N) /\ t.val[s] \in Content
  BY <1>1, <1>2 DEF GoodTable, Tables
<1>4. CASE Stands(t, s, k)
  <2>1. t.val[s] - 1 \in Ids
    BY <1>3, <1>4, ContentFacts DEF Stands
  <2> QED BY <1>3, <1>4, <2>1 DEF Lookup
<1>5. CASE ~Stands(t, s, k)
  <2>1. t.val[s] = Hash!Empty
    BY <1>2, <1>5 DEF StopsIn
  <2>2. ASSUME NEW r \in Hash!Indices(N), Stands(t, r, k) PROVE FALSE
    <3>1. PICK j \in Hash!Indices(N) : Hash!Slot(k, j, N) = r
      BY SlotFacts
    <3>2. r \in S
      BY <2>2 DEF StopsIn
    <3>3. j \notin Hash!Indices(i)
      BY <1>2, <3>1, <3>2
    <3>4. j # i
      BY <1>2, <1>5, <2>2, <3>1
    <3>5. i \in Hash!Indices(j)
      BY <3>3, <3>4 DEF Hash!Indices
    <3>6. t.val[Hash!Slot(k, i, N)] # Hash!Empty
      BY <2>2, <3>1, <3>5 DEF GoodTable
    <3> QED BY <1>2, <2>1, <3>6
  <2>3. Lookup(t, N, k) = -1
    BY <2>1 DEF Lookup, Hash!Empty
  <2> QED BY <1>3, <2>2, <2>3
<1> QED BY <1>4, <1>5

\* raw_insert of an absent key: it takes a slot that no live key has, and every
\* key is still found.
LEMMA RawInsertFacts ==
  ASSUME NEW N \in Nat \ {0}, NEW t, GoodTable(t, N), NEW k \in Keys, NEW v \in Ids,
         \A r \in Hash!Indices(N) : ~Stands(t, r, k), UsedSlots(t, N) # Hash!Indices(N)
  PROVE  LET u == Hash!RawInsert(t, k, v + 1, N)
         IN /\ GoodTable(u, N)
            /\ \E s \in Hash!Indices(N) \ UsedSlots(t, N) :
                 /\ UsedSlots(u, N) = UsedSlots(t, N) \cup {s}
                 /\ OccupiedSlots(u, N) = OccupiedSlots(t, N) \cup {s}
                 /\ u.val[s] = v + 1 /\ u.key[s] = k
                 /\ \A r \in Hash!Indices(N) \ {s} : u.val[r] = t.val[r] /\ u.key[r] = t.key[r]
<1> DEFINE S == {r \in Hash!Indices(N) : ~Hash!Used(t.val[r])}
           s == Hash!FirstSlot(k, N, S)
           u == Hash!RawInsert(t, k, v + 1, N)
<1>1. S \in SUBSET Hash!Indices(N) /\ S # {} /\ S = Hash!Indices(N) \ UsedSlots(t, N)
  BY DEF UsedSlots
<1> HIDE DEF S
<1>2. PICK i \in Hash!Indices(N) :
        /\ s = Hash!Slot(k, i, N) /\ s \in S
        /\ \A j \in Hash!Indices(i) : Hash!Slot(k, j, N) \notin S
  BY <1>1, FirstSlotFacts
<1>3. u = [key |-> [t.key EXCEPT ![s] = k], val |-> [t.val EXCEPT ![s] = v + 1]]
  BY DEF Hash!RawInsert, S
<1>4. s \in Hash!Indices(N) \ UsedSlots(t, N)
  BY <1>1, <1>2
<1> HIDE DEF u, s
<1>5. t.key \in [Hash!Indices(N) -> Keys \cup {Hash!NoKey}] /\ t.val \in [Hash!Indices(N) -> Content]
  BY DEF GoodTable, Tables
<1>6. /\ u.val[s] = v + 1 /\ u.key[s] = k
      /\ \A r \in Hash!Indices(N) \ {s} : u.val[r] = t.val[r] /\ u.key[r] = t.key[r]
  BY <1>3, <1>4, <1>5
<1>7. Hash!Used(u.val[s]) /\ u.val[s] # Hash!Empty
  BY <1>6, ContentFacts
<1>8. UsedSlots(u, N) = UsedSlots(t, N) \cup {s}
  BY <1>4, <1>6, <1>7 DEF UsedSlots
<1>9. OccupiedSlots(u, N) = OccupiedSlots(t, N) \cup {s}
  BY <1>4, <1>6, <1>7 DEF OccupiedSlots
<1>10. u \in Tables(N)
  BY <1>3, <1>5, ContentFacts DEF Tables
<1>11. \A r \in UsedSlots(u, N) : u.key[r] \in Keys
  BY <1>6, <1>8 DEF GoodTable, UsedSlots
<1>12. \A q, r \in UsedSlots(u, N) : u.key[q] = u.key[r] => q = r
  <2>1. \A r \in UsedSlots(t, N) : t.key[r] # k /\ r # s
    BY <1>4 DEF UsedSlots, Stands
  <2> QED BY <1>6, <1>8, <2>1 DEF GoodTable, UsedSlots
<1>13. ASSUME NEW x \in Keys, NEW m \in Hash!Indices(N), Stands(u, Hash!Slot(x, m, N), x),
              NEW j \in Hash!Indices(m)
       PROVE  u.val[Hash!Slot(x, j, N)] # Hash!Empty
  <2> j \in Hash!Indices(N)
    BY DEF Hash!Indices
  <2>1. Hash!Slot(x, m, N) \in Hash!Indices(N) /\ Hash!Slot(x, j, N) \in Hash!Indices(N)
    BY SlotFacts
  <2>2. CASE Hash!Slot(x, m, N) = s
    <3>1. x = k
      BY <1>6, <1>13, <2>2 DEF Stands
    <3>2. m = i
      BY <1>2, <2>2, <3>1, SlotFacts
    <3>3. Hash!Slot(x, j, N) \notin S
      BY <1>2, <3>1, <3>2
    <3>4. Hash!Used(t.val[Hash!Slot(x, j, N)]) /\ Hash!Slot(x, j, N) # s
      BY <1>1, <1>2, <2>1, <3>3 DEF UsedSlots
    <3>5. u.val[Hash!Slot(x, j, N)] = t.val[Hash!Slot(x, j, N)]
      BY <1>6, <2>1, <3>4
    <3> QED BY <3>4, <3>5, ContentFacts
  <2>3. CASE Hash!Slot(x, m, N) # s
    <3>1. Stands(t, Hash!Slot(x, m, N), x)
      BY <1>6, <1>13, <2>1, <2>3 DEF Stands
    <3>2. t.val[Hash!Slot(x, j, N)] # Hash!Empty
      BY <3>1 DEF GoodTable
    <3> QED BY <1>6, <1>7, <2>1, <3>2
  <2> QED BY <2>2, <2>3
<1>14. GoodTable(u, N)
  BY <1>10, <1>11, <1>12, <1>13 DEF GoodTable
<1> QED BY <1>4, <1>6, <1>8, <1>9, <1>14 DEF u

\* hash_delete: the slot becomes a tombstone, and every other key is still found.
LEMMA BuryFacts ==
  ASSUME NEW N \in Nat \ {0}, NEW t, GoodTable(t, N), NEW s \in UsedSlots(t, N)
  PROVE  LET u == [key |-> t.key, val |-> [t.val EXCEPT ![s] = Hash!Tombstone]]
         IN /\ GoodTable(u, N)
            /\ UsedSlots(u, N) = UsedSlots(t, N) \ {s}
            /\ OccupiedSlots(u, N) = OccupiedSlots(t, N)
            /\ \A r \in Hash!Indices(N) \ {s} : u.val[r] = t.val[r]
<1> DEFINE u == [key |-> t.key, val |-> [t.val EXCEPT ![s] = Hash!Tombstone]]
<1>1. t \in Tables(N) /\ s \in Hash!Indices(N) /\ Hash!Used(t.val[s])
  BY DEF GoodTable, UsedSlots
<1>2. t.key \in [Hash!Indices(N) -> Keys \cup {Hash!NoKey}] /\ t.val \in [Hash!Indices(N) -> Content]
  BY <1>1 DEF Tables
<1>3. /\ u.val[s] = Hash!Tombstone /\ u.key = t.key
      /\ \A r \in Hash!Indices(N) \ {s} : u.val[r] = t.val[r]
  BY <1>1, <1>2
<1>4. u \in Tables(N)
  BY <1>2, ContentFacts DEF Tables, Content
<1> HIDE DEF u
<1>5. UsedSlots(u, N) = UsedSlots(t, N) \ {s}
  BY <1>1, <1>3, ContentFacts DEF UsedSlots
<1>6. OccupiedSlots(u, N) = OccupiedSlots(t, N)
  BY <1>1, <1>3, ContentFacts DEF OccupiedSlots
<1>7. \A r \in Hash!Indices(N) : u.val[r] = Hash!Empty => t.val[r] = Hash!Empty
  BY <1>3, ContentFacts
<1>8. \A k : \A r \in Hash!Indices(N) : Stands(u, r, k) => Stands(t, r, k)
  BY <1>1, <1>3, ContentFacts DEF Stands
<1>9. ASSUME NEW k \in Keys, NEW i \in Hash!Indices(N), Stands(u, Hash!Slot(k, i, N), k),
             NEW j \in Hash!Indices(i)
      PROVE  u.val[Hash!Slot(k, j, N)] # Hash!Empty
  <2>1. j \in Hash!Indices(N)
    BY DEF Hash!Indices
  <2>2. Hash!Slot(k, i, N) \in Hash!Indices(N) /\ Hash!Slot(k, j, N) \in Hash!Indices(N)
    BY <2>1, SlotFacts
  <2>3. t.val[Hash!Slot(k, j, N)] # Hash!Empty
    BY <1>8, <1>9, <2>2 DEF GoodTable
  <2> QED BY <1>7, <2>2, <2>3
<1>10. GoodTable(u, N)
  BY <1>3, <1>4, <1>5, <1>9 DEF GoodTable
<1> QED BY <1>3, <1>5, <1>6, <1>10 DEF u

(* Rehashing *)

Table == [key |-> hkey, val |-> hval]

\* Key k stands in table t of N slots, below slot i, with content w.
Entry(t, i, k, w) == \E s \in Hash!Indices(i) : Stands(t, s, k) /\ t.val[s] = w

\* t, of G slots, has been built from the slots of the table below i.
Copied(t, i, G) ==
  /\ GoodTable(t, G)
  /\ OccupiedSlots(t, G) = UsedSlots(t, G)
  /\ Cardinality(UsedSlots(t, G)) = Cardinality(UsedSlots(Table, i))
  /\ \A k \in Keys : \A w \in Content : Entry(t, G, k, w) <=> Entry(Table, i, k, w)

\* The step of rehash at slot i.
CopySlot(t, i, G) ==
  IF Hash!Used(hval[i]) THEN Hash!RawInsert(t, hkey[i], hval[i], G) ELSE t

\* The empty table holds no key and its searches end at once.
LEMMA EmptyCopied ==
  ASSUME NEW G \in Nat \ {0}
  PROVE  Copied(Hash!EmptyTable(G), 0, G)
<1> DEFINE t == Hash!EmptyTable(G)
<1>1. /\ t \in Tables(G)
      /\ \A s \in Hash!Indices(G) : t.val[s] = Hash!Empty /\ ~Hash!Used(t.val[s])
  BY ContentFacts DEF Hash!EmptyTable, Tables, Content
<1> HIDE DEF t
<1>2. UsedSlots(t, G) = {} /\ OccupiedSlots(t, G) = {}
  BY <1>1 DEF UsedSlots, OccupiedSlots
<1>3. Hash!Indices(0) = {}
  BY DEF Hash!Indices
<1>4. UsedSlots(Table, 0) = {}
  BY <1>3 DEF UsedSlots
<1>5. GoodTable(t, G)
  BY <1>1, <1>2, SlotFacts DEF GoodTable, Stands
<1>6. \A k \in Keys : \A w \in Content : ~Entry(t, G, k, w) /\ ~Entry(Table, 0, k, w)
  BY <1>1, <1>3 DEF Entry, Stands
<1> QED BY <1>2, <1>4, <1>5, <1>6 DEF Copied, t

\* One round of rehash's loop: the slot's key is added, unless the slot is free.
LEMMA CopySlotFacts ==
  ASSUME size \in Nat \ {0}, GoodTable(Table, size), NEW G \in Nat, size <= G,
         NEW i \in Hash!Indices(size), NEW t, Copied(t, i, G)
  PROVE  Copied(CopySlot(t, i, G), i + 1, G)
<1> DEFINE Below == UsedSlots(Table, i)
<1>1. /\ i \in Nat /\ i < size /\ G \in Nat \ {0}
      /\ Hash!Indices(i + 1) = Hash!Indices(i) \cup {i} /\ i \notin Hash!Indices(i)
      /\ Hash!Indices(i) \in SUBSET Hash!Indices(size)
  BY DEF Hash!Indices
<1>2. hval[i] \in Content /\ Table.val = hval /\ Table.key = hkey
  BY DEF GoodTable, Tables, Table
<1>3. Below \in SUBSET Hash!Indices(i) /\ IsFiniteSet(Below) /\ Cardinality(Below) \in Nat
      /\ Cardinality(Below) <= i
  BY <1>1, IndicesFinite DEF UsedSlots
<1>4. CASE ~Hash!Used(hval[i])
  <2>1. UsedSlots(Table, i + 1) = UsedSlots(Table, i)
    BY <1>1, <1>2, <1>4 DEF UsedSlots
  <2>2. \A k \in Keys : \A w \in Content : Entry(Table, i + 1, k, w) <=> Entry(Table, i, k, w)
    BY <1>1, <1>2, <1>4 DEF Entry, Stands
  <2> QED BY <1>4, <2>1, <2>2 DEF Copied, CopySlot
<1>5. CASE Hash!Used(hval[i])
  <2> DEFINE x == hkey[i]
             v == hval[i] - 1
             u == Hash!RawInsert(t, x, v + 1, G)
  <2>1. v \in Ids /\ v + 1 = hval[i]
    BY <1>2, <1>5, ContentFacts
  <2>2. i \in UsedSlots(Table, size) /\ x \in Keys
    BY <1>2, <1>5 DEF UsedSlots, GoodTable
  <2>3. \A s \in Hash!Indices(i) : ~Stands(Table, s, x)
    <3>1. SUFFICES ASSUME NEW s \in Hash!Indices(i), Stands(Table, s, x) PROVE FALSE
      OBVIOUS
    <3>2. s \in UsedSlots(Table, size) /\ Table.key[s] = Table.key[i]
      BY <1>1, <1>2, <3>1 DEF UsedSlots, Stands
    <3> QED BY <1>1, <2>2, <3>1, <3>2 DEF GoodTable
  <2>4. \A r \in Hash!Indices(G) : ~Stands(t, r, x)
    <3>1. SUFFICES ASSUME NEW r \in Hash!Indices(G), Stands(t, r, x) PROVE FALSE
      OBVIOUS
    <3>2. t.val[r] \in Content /\ Entry(t, G, x, t.val[r])
      BY <3>1 DEF Entry, Copied, GoodTable, Tables
    <3>3. Entry(Table, i, x, t.val[r])
      BY <2>2, <3>2 DEF Copied
    <3> QED BY <2>3, <3>3 DEF Entry
  <2>5. UsedSlots(t, G) # Hash!Indices(G)
    BY <1>1, <1>3, IndicesFinite DEF Copied
  <2> HIDE DEF u, v, x
  <2>6. PICK s \in Hash!Indices(G) \ UsedSlots(t, G) :
          /\ UsedSlots(u, G) = UsedSlots(t, G) \cup {s}
          /\ OccupiedSlots(u, G) = OccupiedSlots(t, G) \cup {s}
          /\ u.val[s] = v + 1 /\ u.key[s] = x
          /\ \A r \in Hash!Indices(G) \ {s} : u.val[r] = t.val[r] /\ u.key[r] = t.key[r]
    BY <1>1, <2>1, <2>2, <2>4, <2>5, RawInsertFacts DEF Copied, u
  <2>7. GoodTable(u, G)
    BY <1>1, <2>1, <2>2, <2>4, <2>5, RawInsertFacts DEF Copied, u
  <2>8. Cardinality(UsedSlots(u, G)) = Cardinality(UsedSlots(Table, i + 1))
    <3>1. UsedSlots(Table, i + 1) = Below \cup {i} /\ i \notin Below
      BY <1>1, <1>2, <1>5 DEF UsedSlots
    <3>2. UsedSlots(t, G) \in SUBSET Hash!Indices(G)
      BY DEF UsedSlots
    <3>3. IsFiniteSet(UsedSlots(t, G))
      BY <1>1, <3>2, IndicesFinite
    <3>4. Cardinality(UsedSlots(t, G) \cup {s}) = Cardinality(UsedSlots(t, G)) + 1
      BY <2>6, <3>3, FS_AddElement
    <3>5. Cardinality(Below \cup {i}) = Cardinality(Below) + 1
      BY <1>3, <3>1, FS_AddElement
    <3> QED BY <2>6, <3>1, <3>4, <3>5 DEF Copied
  <2>9. ASSUME NEW k \in Keys, NEW w \in Content
        PROVE  Entry(u, G, k, w) <=> Entry(Table, i + 1, k, w)
    <3>1. Entry(u, G, k, w) <=> Entry(t, G, k, w) \/ (k = x /\ w = v + 1)
      <4>1. \A r \in Hash!Indices(G) \ {s} : Stands(u, r, k) <=> Stands(t, r, k)
        BY <2>6 DEF Stands
      <4>2. ~Stands(t, s, k)
        BY <2>6 DEF Stands, UsedSlots
      <4>3. Stands(u, s, k) <=> k = x
        BY <2>1, <2>6, ContentFacts DEF Stands
      <4> QED BY <2>6, <4>1, <4>2, <4>3 DEF Entry
    <3>2. Entry(Table, i + 1, k, w) <=> Entry(Table, i, k, w) \/ (k = x /\ w = v + 1)
      BY <1>1, <1>2, <1>5, <2>1 DEF Entry, Stands, x
    <3> QED BY <3>1, <3>2 DEF Copied
  <2>10. CopySlot(t, i, G) = u
    BY <1>5, <2>1 DEF CopySlot, u, x
  <2> QED BY <2>6, <2>7, <2>8, <2>9, <2>10 DEF Copied
<1> QED BY <1>4, <1>5

\* The table that rehash builds slot by slot exists.
LEMMA CopiesExist ==
  ASSUME NEW m \in Nat, NEW G
  PROVE  \E f : f = [i \in 0 .. m |-> IF i = 0 THEN Hash!EmptyTable(G) ELSE CopySlot(f[i - 1], i - 1, G)]
<1> DEFINE Step(f, i) == IF i = 0 THEN Hash!EmptyTable(G) ELSE CopySlot(f[i - 1], i - 1, G)
           Upto(f, k) == f = [i \in 0 .. k |-> Step(f, i)]
           Missing == {k \in Nat : ~ \E f : Upto(f, k)}
<1>1. SUFFICES Missing = {}
  OBVIOUS
<1>2. SUFFICES ASSUME Missing # {} PROVE FALSE
  OBVIOUS
<1>3. PICK k \in Missing : \A j \in Missing : k <= j
  <2>1. Missing \in SUBSET Nat
    OBVIOUS
  <2> QED BY <1>2, <2>1, LeastOf
<1>4. k # 0
  <2>1. 0 .. 0 = {0}
    OBVIOUS
  <2>2. Upto([i \in 0 .. 0 |-> Hash!EmptyTable(G)], 0)
    BY <2>1
  <2> QED BY <1>3, <2>2
<1>5. k - 1 \in Nat /\ k - 1 \notin Missing
  BY <1>3, <1>4
<1>6. PICK g : Upto(g, k - 1)
  BY <1>5
<1> DEFINE h == [i \in 0 .. k |-> IF i = k THEN CopySlot(g[k - 1], k - 1, G) ELSE g[i]]
<1>7. \A i \in 0 .. k : h[i] = Step(h, i)
  <2>1. TAKE i \in 0 .. k
  <2>2. CASE i = k
    <3>1. h[k - 1] = g[k - 1]
      BY <1>5
    <3> QED BY <1>4, <1>5, <2>2, <3>1
  <2>3. CASE i # k
    <3>1. i \in 0 .. (k - 1) /\ h[i] = g[i]
      BY <1>5, <2>1, <2>3
    <3>2. g[i] = Step(g, i)
      BY <1>6, <3>1
    <3>3. i # 0 => h[i - 1] = g[i - 1]
      BY <1>5, <3>1
    <3> QED BY <3>1, <3>2, <3>3
  <2> QED BY <2>2, <2>3
<1>8. h = [i \in 0 .. k |-> Step(h, i)]
  <2> HIDE DEF Step
  <2> QED BY <1>7
<1>9. Upto(h, k)
  BY <1>8
<1> QED BY <1>3, <1>9

\* rehash keeps the entries, and buries the tombstones.
LEMMA RehashedFacts ==
  ASSUME size \in Nat \ {0}, GoodTable(Table, size), NEW G \in Nat, size <= G
  PROVE  Copied(Hash!Rehashed(G), size, G)
<1> DEFINE Step(f, i) == IF i = 0 THEN Hash!EmptyTable(G) ELSE CopySlot(f[i - 1], i - 1, G)
           f == CHOOSE f : f = [i \in 0 .. size |-> Step(f, i)]
<1>1. f = [i \in 0 .. size |-> Step(f, i)]
  BY CopiesExist
<1>2. Hash!Rehashed(G) = f[size]
  BY DEF Hash!Rehashed, CopySlot
<1> HIDE DEF f
<1> DEFINE Wrong == {i \in 0 .. size : ~Copied(f[i], i, G)}
<1>3. SUFFICES ASSUME Wrong # {} PROVE FALSE
  BY <1>2
<1>4. PICK k \in Wrong : \A j \in Wrong : k <= j
  <2>1. Wrong \in SUBSET Nat
    OBVIOUS
  <2> QED BY <1>3, <2>1, LeastOf
<1>5. k \in 0 .. size /\ f[k] = Step(f, k) /\ ~Copied(f[k], k, G)
  BY <1>1, <1>4
<1>6. k # 0
  BY <1>5, EmptyCopied
<1>7. k - 1 \in Hash!Indices(size) /\ k - 1 \in 0 .. size /\ k - 1 \notin Wrong /\ (k - 1) + 1 = k
  BY <1>4, <1>5, <1>6 DEF Hash!Indices
<1>8. Copied(f[k - 1], k - 1, G)
  BY <1>7
<1>9. Copied(CopySlot(f[k - 1], k - 1, G), (k - 1) + 1, G)
  <2> DEFINE t == f[k - 1]
             i == k - 1
  <2>1. i \in Hash!Indices(size) /\ Copied(t, i, G)
    BY <1>7, <1>8
  <2> HIDE DEF t, i
  <2>2. Copied(CopySlot(t, i, G), i + 1, G)
    BY <2>1, CopySlotFacts
  <2> QED BY <2>2 DEF t, i
<1> QED BY <1>5, <1>6, <1>7, <1>9


\* What find returns is the one entry of the key.
LEMMA LookupIsEntry ==
  ASSUME NEW N \in Nat \ {0}, NEW t, GoodTable(t, N), NEW k \in Keys,
         OccupiedSlots(t, N) # Hash!Indices(N)
  PROVE  /\ Lookup(t, N, k) \in Ids \cup {-1}
         /\ \A v \in Ids : Lookup(t, N, k) = v <=> Entry(t, N, k, v + 1)
<1> DEFINE s == Hash!FirstSlot(k, N, StopsIn(t, N, k))
<1>1. s \in Hash!Indices(N) /\ Lookup(t, N, k) = t.val[s] - 1
  BY LookupFacts DEF Lookup
<1> HIDE DEF s
<1>2. -1 \notin Ids
  BY DEF Ids
<1>3. CASE Stands(t, s, k) /\ Lookup(t, N, k) \in Ids
  <2>1. ASSUME NEW v \in Ids, Entry(t, N, k, v + 1) PROVE Lookup(t, N, k) = v
    <3>1. PICK r \in Hash!Indices(N) : Stands(t, r, k) /\ t.val[r] = v + 1
      BY <2>1 DEF Entry
    <3>2. r \in UsedSlots(t, N) /\ s \in UsedSlots(t, N) /\ t.key[r] = t.key[s]
      BY <1>1, <1>3, <3>1 DEF UsedSlots, Stands
    <3>3. r = s
      BY <3>2 DEF GoodTable
    <3> QED BY <1>1, <3>1, <3>3, ContentFacts
  <2>2. ASSUME NEW v \in Ids, Lookup(t, N, k) = v PROVE Entry(t, N, k, v + 1)
    <3>1. t.val[s] \in Int
      BY <1>1, ContentFacts DEF GoodTable, Tables
    <3>2. t.val[s] = v + 1
      BY <1>1, <2>2, <3>1, ContentFacts
    <3> QED BY <1>1, <1>3, <3>2 DEF Entry
  <2> QED BY <1>3, <2>1, <2>2
<1>4. CASE (\A r \in Hash!Indices(N) : ~Stands(t, r, k)) /\ Lookup(t, N, k) = -1
  BY <1>2, <1>4 DEF Entry
<1> QED BY <1>3, <1>4, LookupFacts DEF s

\* Two tables with the same entries for k give it the same id.
LEMMA SameLookup ==
  ASSUME NEW N \in Nat \ {0}, NEW t, GoodTable(t, N), OccupiedSlots(t, N) # Hash!Indices(N),
         NEW M \in Nat \ {0}, NEW u, GoodTable(u, M), OccupiedSlots(u, M) # Hash!Indices(M),
         NEW k \in Keys, \A w \in Content : Entry(t, N, k, w) <=> Entry(u, M, k, w)
  PROVE  Lookup(t, N, k) = Lookup(u, M, k)
<1>1. /\ Lookup(t, N, k) \in Ids \cup {-1}
      /\ \A v \in Ids : Lookup(t, N, k) = v <=> Entry(t, N, k, v + 1)
  BY LookupIsEntry
<1>2. /\ Lookup(u, M, k) \in Ids \cup {-1}
      /\ \A v \in Ids : Lookup(u, M, k) = v <=> Entry(u, M, k, v + 1)
  BY LookupIsEntry
<1>3. \A v \in Ids : Lookup(t, N, k) = v <=> Lookup(u, M, k) = v
  BY <1>1, <1>2, ContentFacts
<1> QED BY <1>1, <1>2, <1>3

\* The cardinality that module EdgeHash takes from FiniteSets is that of the
\* theorems.
LEMMA HashCardinality == \A S : Hash!Cardinality(S) = Cardinality(S)
BY DEF Hash!Cardinality, Cardinality

(* The steps of the hash table *)

\* The invariant of the hash table, in terms of its table.
HashInv ==
  /\ size \in Nat \ {0} /\ hused \in Nat /\ hcount \in Nat
  /\ GoodTable(Table, size)
  /\ Cardinality(OccupiedSlots(Table, size)) <= hused /\ 2 * hused <= size
  /\ hcount = Cardinality(UsedSlots(Table, size))

\* A table of which at most half the slots are occupied has an empty one.
LEMMA Room ==
  ASSUME NEW N \in Nat \ {0}, NEW t, 2 * Cardinality(OccupiedSlots(t, N)) <= N
  PROVE  OccupiedSlots(t, N) # Hash!Indices(N) /\ UsedSlots(t, N) # Hash!Indices(N)
<1>1. /\ OccupiedSlots(t, N) \in SUBSET Hash!Indices(N)
      /\ UsedSlots(t, N) \in SUBSET OccupiedSlots(t, N)
  BY ContentFacts DEF OccupiedSlots, UsedSlots
<1>2. Cardinality(OccupiedSlots(t, N)) \in Nat /\ Cardinality(Hash!Indices(N)) = N
  BY <1>1, IndicesFinite
<1>3. OccupiedSlots(t, N) # Hash!Indices(N)
  BY <1>2
<1> QED BY <1>1, <1>3

\* The invariant of the table is its type and its soundness.
LEMMA HashInvMeans == HashInv <=> Hash!TypeOK /\ Hash!TableSound
<1>1. Table.key = hkey /\ Table.val = hval
  BY DEF Table
<1>2. Table \in Tables(size) <=>
        /\ hkey \in [Hash!Indices(size) -> Keys \cup {Hash!NoKey}]
        /\ hval \in [Hash!Indices(size) -> Content]
  BY <1>1 DEF Table, Tables
<1>3. /\ UsedSlots(Table, size) = {i \in Hash!Indices(size) : Hash!Used(hval[i])}
      /\ OccupiedSlots(Table, size) = {i \in Hash!Indices(size) : hval[i] # Hash!Empty}
  BY <1>1 DEF UsedSlots, OccupiedSlots
<1>4. ASSUME HashInv PROVE Hash!SearchesEnd
  <2>1. Cardinality(OccupiedSlots(Table, size)) \in Nat
    <3>1. OccupiedSlots(Table, size) \in SUBSET Hash!Indices(size)
      BY DEF OccupiedSlots
    <3> QED BY <1>4, <3>1, IndicesFinite DEF HashInv
  <2>2. 2 * Cardinality(OccupiedSlots(Table, size)) <= size
    BY <1>4, <2>1 DEF HashInv
  <2>3. OccupiedSlots(Table, size) # Hash!Indices(size)
    BY <1>4, <2>2, Room DEF HashInv
  <2> QED BY <1>3, <2>3 DEF Hash!SearchesEnd
<1>5. (\A s \in UsedSlots(Table, size) : Table.key[s] \in Keys)
        <=> \A i \in Hash!Indices(size) : Hash!Used(hval[i]) => hkey[i] \in Keys
  BY <1>1, <1>3
<1>6. (\A r, s \in UsedSlots(Table, size) : Table.key[r] = Table.key[s] => r = s) <=> Hash!KeysOnce
  BY <1>1, <1>3 DEF Hash!KeysOnce
<1>7. (\A k \in Keys : \A i \in Hash!Indices(size) :
         Stands(Table, Hash!Slot(k, i, size), k) =>
           \A j \in Hash!Indices(i) : Table.val[Hash!Slot(k, j, size)] # Hash!Empty) <=> Hash!ProbesReach
  BY <1>1 DEF Hash!ProbesReach, Stands
<1>8. Hash!UsedSound <=>
        /\ Cardinality(OccupiedSlots(Table, size)) <= hused /\ 2 * hused <= size
        /\ hcount = Cardinality(UsedSlots(Table, size))
  BY <1>3, HashCardinality DEF Hash!UsedSound
<1>9. GoodTable(Table, size) <=>
        /\ Table \in Tables(size)
        /\ \A i \in Hash!Indices(size) : Hash!Used(hval[i]) => hkey[i] \in Keys
        /\ Hash!KeysOnce /\ Hash!ProbesReach
  BY <1>5, <1>6, <1>7 DEF GoodTable
<1>10. Hash!TypeOK <=>
         /\ size \in Nat \ {0} /\ Table \in Tables(size)
         /\ \A i \in Hash!Indices(size) : Hash!Used(hval[i]) => hkey[i] \in Keys
         /\ hused \in Nat /\ hcount \in Nat
  BY <1>2 DEF Hash!TypeOK, Content
<1>11. Hash!TableSound <=> Hash!SearchesEnd /\ Hash!UsedSound /\ Hash!KeysOnce /\ Hash!ProbesReach
  BY DEF Hash!TableSound
<1>12. HashInv <=>
         /\ size \in Nat \ {0} /\ hused \in Nat /\ hcount \in Nat
         /\ GoodTable(Table, size) /\ Hash!UsedSound
  BY <1>8 DEF HashInv
<1> QED BY <1>4, <1>9, <1>10, <1>11, <1>12

\* find is a lookup in the table.
LEMMA FindFacts ==
  ASSUME HashInv, NEW k \in Keys
  PROVE  /\ Hash!Find(k) = Lookup(Table, size, k)
         /\ OccupiedSlots(Table, size) # Hash!Indices(size)
         /\ UsedSlots(Table, size) # Hash!Indices(size)
         /\ Hash!Find(k) \in Ids \cup {-1}
         /\ \A v \in Ids : Hash!Find(k) = v <=> Entry(Table, size, k, v + 1)
<1>1. Hash!Find(k) = Lookup(Table, size, k)
  BY DEF Hash!Find, Hash!Stops, Lookup, StopsIn, Table, Stands
<1>2. Cardinality(OccupiedSlots(Table, size)) \in Nat
  <2>1. OccupiedSlots(Table, size) \in SUBSET Hash!Indices(size)
    BY DEF OccupiedSlots
  <2> QED BY <2>1, IndicesFinite DEF HashInv
<1>3. 2 * Cardinality(OccupiedSlots(Table, size)) <= size
  BY <1>2 DEF HashInv
<1>4. OccupiedSlots(Table, size) # Hash!Indices(size) /\ UsedSlots(Table, size) # Hash!Indices(size)
  BY <1>3, Room DEF HashInv
<1> QED BY <1>1, <1>4, LookupIsEntry DEF HashInv


\* The table an insertion works on, rehashed or not, has the same entries and
\* room for one more.
LEMMA GrownFacts ==
  ASSUME HashInv
  PROVE  LET grown == IF Hash!NeedsRehash THEN 2 * size ELSE size
             t == IF Hash!NeedsRehash THEN Hash!Rehashed(grown) ELSE Table
             h == IF Hash!NeedsRehash THEN Cardinality(UsedSlots(Table, size)) ELSE hused
         IN /\ grown \in Nat \ {0} /\ h \in Nat /\ 2 * (h + 1) <= grown
            /\ GoodTable(t, grown)
            /\ Cardinality(OccupiedSlots(t, grown)) <= h
            /\ Cardinality(UsedSlots(t, grown)) = hcount
            /\ \A k \in Keys : \A w \in Content : Entry(t, grown, k, w) <=> Entry(Table, size, k, w)
<1>1. /\ size \in Nat \ {0} /\ hused \in Nat /\ hcount \in Nat
      /\ GoodTable(Table, size)
      /\ Cardinality(OccupiedSlots(Table, size)) <= hused /\ 2 * hused <= size
      /\ hcount = Cardinality(UsedSlots(Table, size))
  BY DEF HashInv
<1>2. CASE ~Hash!NeedsRehash
  <2>1. 2 * (hused + 1) <= size
    BY <1>1, <1>2 DEF Hash!NeedsRehash
  <2> QED BY <1>1, <1>2, <2>1
<1>3. CASE Hash!NeedsRehash
  <2>1. 2 * size \in Nat \ {0} /\ size <= 2 * size
    BY <1>1
  <2> DEFINE grown == 2 * size
             t == Hash!Rehashed(grown)
             h == Cardinality(UsedSlots(Table, size))
  <2>2. Copied(t, size, grown)
    BY <1>1, <2>1, RehashedFacts
  <2>3. h \in Nat /\ h <= hused
    <3>1. OccupiedSlots(Table, size) \in SUBSET Hash!Indices(size)
          /\ UsedSlots(Table, size) \in SUBSET OccupiedSlots(Table, size)
      BY ContentFacts DEF OccupiedSlots, UsedSlots
    <3>2. IsFiniteSet(OccupiedSlots(Table, size)) /\ Cardinality(OccupiedSlots(Table, size)) \in Nat
      BY <1>1, <3>1, IndicesFinite
    <3>3. h \in Nat /\ h <= Cardinality(OccupiedSlots(Table, size))
      BY <3>1, <3>2, FS_Subset, FS_CardinalityType
    <3> QED BY <1>1, <3>2, <3>3
  <2>4. 2 * (h + 1) <= grown
    BY <1>1, <2>3
  <2>5. /\ GoodTable(t, grown)
        /\ Cardinality(OccupiedSlots(t, grown)) <= h
        /\ Cardinality(UsedSlots(t, grown)) = hcount
        /\ \A k \in Keys : \A w \in Content : Entry(t, grown, k, w) <=> Entry(Table, size, k, w)
    BY <1>1, <2>2, <2>3 DEF Copied
  <2> HIDE DEF h, t
  <2>6. grown \in Nat \ {0}
    BY <2>1
  <2> HIDE DEF grown
  <2> QED BY <1>3, <2>3, <2>4, <2>5, <2>6 DEF h, t, grown
<1> QED BY <1>2, <1>3

\* hash_insert keeps the invariant, and find returns the id for its key and
\* what it returned before for every other.
LEMMA HashInsertFacts ==
  ASSUME HashInv, NEW k \in Keys, NEW v \in Ids, Hash!HashInsert(k, v)
  PROVE  /\ HashInv'
         /\ Hash!Find(k) = -1
         /\ Hash!Find(k)' = v
         /\ \A x \in Keys \ {k} : Hash!Find(x)' = Hash!Find(x)
<1> DEFINE grown == IF Hash!NeedsRehash THEN 2 * size ELSE size
           t == IF Hash!NeedsRehash THEN Hash!Rehashed(grown) ELSE Table
           h == IF Hash!NeedsRehash THEN Cardinality(UsedSlots(Table, size)) ELSE hused
           u == Hash!RawInsert(t, k, v + 1, grown)
<1>1. /\ grown \in Nat \ {0} /\ h \in Nat /\ 2 * (h + 1) <= grown
      /\ GoodTable(t, grown)
      /\ Cardinality(OccupiedSlots(t, grown)) <= h
      /\ Cardinality(UsedSlots(t, grown)) = hcount
      /\ \A x \in Keys : \A w \in Content : Entry(t, grown, x, w) <=> Entry(Table, size, x, w)
  BY GrownFacts
<1>2. /\ Hash!Find(k) = -1
      /\ size' = grown /\ hkey' = u.key /\ hval' = u.val
      /\ hused' = h + 1 /\ hcount' = hcount + 1
  <2>1. UsedSlots(Table, size) = {i \in Hash!Indices(size) : Hash!Used(hval[i])}
    BY DEF UsedSlots, Table
  <2>2. t = IF Hash!NeedsRehash THEN Hash!Rehashed(grown) ELSE [key |-> hkey, val |-> hval]
    BY DEF Table
  <2>3. hused' = 1 + h
    BY <2>1, HashCardinality DEF Hash!HashInsert
  <2> QED BY <1>1, <2>2, <2>3 DEF Hash!HashInsert
<1> HIDE DEF t, h, grown
<1>3. OccupiedSlots(t, grown) \in SUBSET Hash!Indices(grown) /\ UsedSlots(t, grown) \in SUBSET Hash!Indices(grown)
  BY DEF OccupiedSlots, UsedSlots
<1>4. /\ IsFiniteSet(OccupiedSlots(t, grown)) /\ Cardinality(OccupiedSlots(t, grown)) \in Nat
      /\ IsFiniteSet(UsedSlots(t, grown)) /\ Cardinality(UsedSlots(t, grown)) \in Nat
  BY <1>1, <1>3, IndicesFinite
<1>5. 2 * Cardinality(OccupiedSlots(t, grown)) <= grown
  BY <1>1, <1>4
<1>6. OccupiedSlots(t, grown) # Hash!Indices(grown) /\ UsedSlots(t, grown) # Hash!Indices(grown)
  BY <1>1, <1>5, Room
<1>7. \A r \in Hash!Indices(grown) : ~Stands(t, r, k)
  <2>1. \A w \in Content : Hash!Used(w) => ~Entry(Table, size, k, w)
    <3>1. \A i \in Ids : ~Entry(Table, size, k, i + 1)
      BY <1>2, FindFacts, ContentFacts
    <3>2. \A w \in Content : Hash!Used(w) => (w - 1 \in Ids /\ (w - 1) + 1 = w)
      BY ContentFacts
    <3> QED BY <3>1, <3>2
  <2>2. \A w \in Content : Hash!Used(w) => ~Entry(t, grown, k, w)
    BY <1>1, <2>1
  <2>3. \A r \in Hash!Indices(grown) : t.val[r] \in Content
    BY <1>1 DEF GoodTable, Tables
  <2> QED BY <2>2, <2>3 DEF Entry, Stands
<1>8. PICK s \in Hash!Indices(grown) \ UsedSlots(t, grown) :
        /\ UsedSlots(u, grown) = UsedSlots(t, grown) \cup {s}
        /\ OccupiedSlots(u, grown) = OccupiedSlots(t, grown) \cup {s}
        /\ u.val[s] = v + 1 /\ u.key[s] = k
        /\ \A r \in Hash!Indices(grown) \ {s} : u.val[r] = t.val[r] /\ u.key[r] = t.key[r]
  BY <1>1, <1>6, <1>7, RawInsertFacts
<1>9. GoodTable(u, grown)
  BY <1>1, <1>6, <1>7, RawInsertFacts
<1>10. u = [key |-> u.key, val |-> u.val]
  BY DEF Hash!RawInsert
<1> HIDE DEF u
<1>11. Table' = u
  BY <1>2, <1>10 DEF Table
<1>12. /\ Cardinality(UsedSlots(u, grown)) = hcount + 1
       /\ Cardinality(OccupiedSlots(u, grown)) <= h + 1
  <2>1. Cardinality(UsedSlots(t, grown) \cup {s}) = Cardinality(UsedSlots(t, grown)) + 1
    BY <1>4, <1>8, FS_AddElement
  <2>2. Cardinality(OccupiedSlots(t, grown) \cup {s}) <= Cardinality(OccupiedSlots(t, grown)) + 1
    <3>1. \/ Cardinality(OccupiedSlots(t, grown) \cup {s}) = Cardinality(OccupiedSlots(t, grown))
          \/ Cardinality(OccupiedSlots(t, grown) \cup {s}) = Cardinality(OccupiedSlots(t, grown)) + 1
      BY <1>4, FS_AddElement
    <3>2. \A c \in Nat : \A d : (d = c \/ d = c + 1) => d <= c + 1
      OBVIOUS
    <3> QED BY <1>4, <3>1, <3>2
  <2>3. IsFiniteSet(OccupiedSlots(t, grown) \cup {s}) /\ Cardinality(OccupiedSlots(t, grown) \cup {s}) \in Nat
    BY <1>4, FS_AddElement, FS_CardinalityType
  <2> QED BY <1>1, <1>4, <1>8, <2>1, <2>2, <2>3
<1>13. HashInv'
  <2>1. /\ size' \in Nat \ {0} /\ hused' \in Nat /\ hcount' \in Nat
        /\ GoodTable(Table', size')
        /\ Cardinality(OccupiedSlots(Table', size')) <= hused' /\ 2 * hused' <= size'
        /\ hcount' = Cardinality(UsedSlots(Table', size'))
    BY <1>1, <1>2, <1>9, <1>11, <1>12 DEF HashInv
  <2> QED BY <2>1 DEF HashInv
<1>14. \A x \in Keys : Hash!Find(x)' = Lookup(u, grown, x)
  <2>1. \A x \in Keys : Hash!Find(x)' = Lookup(Table', size', x)
    BY DEF Hash!Find, Hash!Stops, Lookup, StopsIn, Table, Stands
  <2> QED BY <1>2, <1>11, <2>1
<1>15. OccupiedSlots(u, grown) # Hash!Indices(grown)
  <2>1. OccupiedSlots(u, grown) \in SUBSET Hash!Indices(grown)
    BY DEF OccupiedSlots
  <2>2. Cardinality(OccupiedSlots(u, grown)) \in Nat
    BY <1>1, <2>1, IndicesFinite
  <2>3. 2 * Cardinality(OccupiedSlots(u, grown)) <= grown
    BY <1>1, <1>12, <2>2
  <2> QED BY <1>1, <2>3, Room
<1>16. Lookup(u, grown, k) = v
  <2>1. Stands(u, s, k) /\ u.val[s] = v + 1
    BY <1>8, ContentFacts DEF Stands
  <2>2. Entry(u, grown, k, v + 1)
    BY <2>1 DEF Entry
  <2> QED BY <1>1, <1>9, <1>15, <2>2, LookupIsEntry
<1>17. ASSUME NEW x \in Keys \ {k} PROVE Lookup(u, grown, x) = Hash!Find(x)
  <2>1. \A r \in Hash!Indices(grown) : Stands(u, r, x) <=> Stands(t, r, x)
    BY <1>8 DEF Stands, UsedSlots
  <2>2. \A w \in Content : Entry(u, grown, x, w) <=> Entry(t, grown, x, w)
    <3>1. \A r \in Hash!Indices(grown) : Stands(u, r, x) => u.val[r] = t.val[r]
      BY <1>8 DEF Stands
    <3> QED BY <2>1, <3>1 DEF Entry
  <2>3. \A w \in Content : Entry(u, grown, x, w) <=> Entry(Table, size, x, w)
    BY <1>1, <2>2
  <2>4. Lookup(u, grown, x) = Lookup(Table, size, x)
    BY <1>1, <1>9, <1>15, <2>3, FindFacts, SameLookup DEF HashInv
  <2> QED BY <2>4, FindFacts
<1> QED BY <1>2, <1>13, <1>14, <1>16, <1>17

\* hash_delete keeps the invariant; its key is found no more, and every other as
\* before.
LEMMA HashDeleteFacts ==
  ASSUME HashInv, NEW k \in Keys, Hash!HashDelete(k)
  PROVE  /\ HashInv'
         /\ Hash!Find(k) # -1
         /\ Hash!Find(k)' = -1
         /\ \A x \in Keys \ {k} : Hash!Find(x)' = Hash!Find(x)
<1> DEFINE s == Hash!FirstSlot(k, size, StopsIn(Table, size, k))
           u == [key |-> Table.key, val |-> [Table.val EXCEPT ![s] = Hash!Tombstone]]
<1>1. /\ Hash!Find(k) # -1
      /\ size' = size /\ hkey' = hkey /\ hused' = hused
      /\ hval' = [hval EXCEPT ![s] = Hash!Tombstone] /\ hcount' = hcount - 1
  BY DEF Hash!HashDelete, Hash!DeletedContent, Hash!Stops, StopsIn, Table, Stands
<1>2. /\ size \in Nat \ {0} /\ hused \in Nat /\ hcount \in Nat
      /\ GoodTable(Table, size)
      /\ Cardinality(OccupiedSlots(Table, size)) <= hused /\ 2 * hused <= size
      /\ hcount = Cardinality(UsedSlots(Table, size))
      /\ OccupiedSlots(Table, size) # Hash!Indices(size)
  BY FindFacts DEF HashInv
<1>3. s \in Hash!Indices(size) /\ Stands(Table, s, k)
  BY <1>1, <1>2, FindFacts, LookupFacts
<1>4. s \in UsedSlots(Table, size) /\ Table.key[s] = k
  BY <1>3 DEF UsedSlots, Stands
<1> HIDE DEF s
<1>5. /\ GoodTable(u, size)
      /\ UsedSlots(u, size) = UsedSlots(Table, size) \ {s}
      /\ OccupiedSlots(u, size) = OccupiedSlots(Table, size)
      /\ \A r \in Hash!Indices(size) \ {s} : u.val[r] = Table.val[r]
  BY <1>2, <1>4, BuryFacts
<1>6. Table' = u /\ u.key = Table.key
  BY <1>1 DEF Table
<1> HIDE DEF u
<1>7. Cardinality(UsedSlots(u, size)) = hcount - 1 /\ hcount - 1 \in Nat
  <2>1. UsedSlots(Table, size) \in SUBSET Hash!Indices(size)
    BY DEF UsedSlots
  <2>2. IsFiniteSet(UsedSlots(Table, size))
    BY <1>2, <2>1, IndicesFinite
  <2>3. Cardinality(UsedSlots(u, size)) = hcount - 1
    BY <1>2, <1>4, <1>5, <2>2, FS_RemoveElement
  <2>4. IsFiniteSet(UsedSlots(u, size))
    BY <1>5, <2>2, FS_RemoveElement
  <2> QED BY <2>3, <2>4, FS_CardinalityType
<1>8. HashInv'
  <2>1. /\ size' \in Nat \ {0} /\ hused' \in Nat /\ hcount' \in Nat
        /\ GoodTable(Table', size')
        /\ Cardinality(OccupiedSlots(Table', size')) <= hused' /\ 2 * hused' <= size'
        /\ hcount' = Cardinality(UsedSlots(Table', size'))
    BY <1>1, <1>2, <1>5, <1>6, <1>7
  <2> QED BY <2>1 DEF HashInv
<1>9. \A x \in Keys : Hash!Find(x)' = Lookup(u, size, x)
  <2>1. \A x \in Keys : Hash!Find(x)' = Lookup(Table', size', x)
    BY DEF Hash!Find, Hash!Stops, Lookup, StopsIn, Table, Stands
  <2> QED BY <1>1, <1>6, <2>1
<1>10. OccupiedSlots(u, size) # Hash!Indices(size)
  BY <1>2, <1>5
<1>11. Lookup(u, size, k) = -1
  <2>1. ASSUME NEW r \in Hash!Indices(size) PROVE ~Stands(u, r, k)
    <3>1. SUFFICES ASSUME Stands(u, r, k) PROVE FALSE
      OBVIOUS
    <3>2. r \in UsedSlots(u, size) /\ u.key[r] = k
      BY <3>1 DEF Stands, UsedSlots
    <3>3. r \in UsedSlots(Table, size) /\ Table.key[r] = k /\ r # s
      BY <1>5, <1>6, <3>2
    <3> QED BY <1>2, <1>4, <3>3 DEF GoodTable
  <2> QED BY <1>2, <1>5, <1>10, <2>1, LookupFacts
<1>12. ASSUME NEW x \in Keys \ {k} PROVE Lookup(u, size, x) = Hash!Find(x)
  <2>1. \A r \in Hash!Indices(size) : r # s => (Stands(u, r, x) <=> Stands(Table, r, x))
    BY <1>5, <1>6 DEF Stands
  <2>2. ~Stands(u, s, x) /\ ~Stands(Table, s, x)
    BY <1>4, <1>6 DEF Stands
  <2>3. \A w \in Content : Entry(u, size, x, w) <=> Entry(Table, size, x, w)
    BY <1>5, <2>1, <2>2 DEF Entry
  <2>4. Lookup(u, size, x) = Lookup(Table, size, x)
    BY <1>2, <1>5, <1>10, <2>3, SameLookup
  <2> QED BY <2>4, FindFacts
<1> QED BY <1>1, <1>8, <1>9, <1>11, <1>12


\* An empty table holds nothing.
LEMMA InitHash ==
  ASSUME Hash!Init
  PROVE  HashInv /\ \A k \in Keys : Hash!Find(k) = -1
<1> DEFINE N == InitialSize
           t == Hash!EmptyTable(N)
<1>1. /\ N \in Nat \ {0} /\ size = N /\ hused = 0 /\ hcount = 0
      /\ Table = t
  BY GraphAssumption DEF Hash!Init, Hash!EmptyTable, Table
<1>2. Copied(t, 0, N)
  BY <1>1, EmptyCopied
<1> HIDE DEF t, N
<1>3. Hash!Indices(0) = {}
  BY DEF Hash!Indices
<1>4. UsedSlots(Table, 0) = {} /\ Cardinality(UsedSlots(Table, 0)) = 0
  BY <1>3, FS_EmptySet DEF UsedSlots
<1>5. HashInv
  BY <1>1, <1>2, <1>4 DEF HashInv, Copied
<1>6. ASSUME NEW k \in Keys PROVE Hash!Find(k) = -1
  <2>1. \A w \in Content : ~Entry(Table, size, k, w)
    BY <1>1, <1>2, <1>3 DEF Copied, Entry
  <2> QED BY <1>5, <2>1, FindFacts, ContentFacts
<1> QED BY <1>5, <1>6

\* Two pairs have two keys.
LEMMA KeyFacts ==
  /\ \A p \in Pairs : EKey(p) \in Keys /\ p \in Vertices \X Vertices /\ p[1] < p[2]
  /\ \A p, q \in Pairs : EKey(p) = EKey(q) => p = q
<1>1. n \in Nat /\ \A p \in Pairs : p \in Vertices \X Vertices /\ p[1] < p[2]
  BY GraphAssumption
<1>2. ASSUME NEW a \in Vertices, NEW b \in Vertices, NEW c \in Vertices, NEW d \in Vertices,
             a * n + b = c * n + d
      PROVE  a = c /\ b = d
  <2>1. a \in Nat /\ b \in Nat /\ c \in Nat /\ d \in Nat /\ b < n /\ d < n
    BY <1>1 DEF Vertices
  <2>2. ASSUME NEW x \in Nat, NEW y \in Nat, x < y PROVE x * n + n <= y * n
    <3>1. PICK z \in Nat : y = x + 1 + z
      <4>1. y - x - 1 \in Nat /\ y = x + 1 + (y - x - 1)
        BY <2>2
      <4> QED BY <4>1
    <3>2. y * n = x * n + n + z * n
      BY <1>1, <3>1
    <3>3. z * n \in Nat /\ x * n \in Nat
      BY <1>1
    <3> QED BY <1>1, <3>2, <3>3
  <2>3. a * n \in Nat /\ c * n \in Nat
    BY <1>1, <2>1
  <2>4. ~(a < c)
    <3>1. SUFFICES ASSUME a < c PROVE FALSE
      OBVIOUS
    <3>2. a * n + n <= c * n
      BY <2>1, <2>2, <3>1
    <3> QED BY <1>1, <1>2, <2>1, <2>3, <3>2
  <2>5. ~(c < a)
    <3>1. SUFFICES ASSUME c < a PROVE FALSE
      OBVIOUS
    <3>2. c * n + n <= a * n
      BY <2>1, <2>2, <3>1
    <3> QED BY <1>1, <1>2, <2>1, <2>3, <3>2
  <2>6. a = c
    BY <2>1, <2>4, <2>5
  <2> QED BY <1>2, <2>1, <2>3, <2>6
<1>3. ASSUME NEW p \in Pairs, NEW q \in Pairs, EKey(p) = EKey(q) PROVE p = q
  <2>1. p[1] = q[1] /\ p[2] = q[2]
    BY <1>1, <1>2, <1>3 DEF EKey
  <2> QED BY <1>1, <2>1
<1> QED BY <1>1, <1>3 DEF Keys

(* Sequences *)

\* A list with an element pushed on it.
LEMMA PushFacts ==
  ASSUME NEW S, NEW s \in Seq(S), NEW x \in S
  PROVE  /\ Append(s, x) \in Seq(S) /\ Len(Append(s, x)) = Len(s) + 1 /\ Len(s) \in Nat
         /\ \A i \in 1 .. Len(s) : Append(s, x)[i] = s[i]
         /\ Append(s, x)[Len(s) + 1] = x
         /\ ToSet(Append(s, x)) = ToSet(s) \cup {x}
         /\ IsInjective(s) /\ x \notin ToSet(s) => IsInjective(Append(s, x))
<1>1. /\ DOMAIN s = 1 .. Len(s) /\ Len(s) \in Nat
      /\ Append(s, x) \in Seq(S) /\ Len(Append(s, x)) = Len(s) + 1
      /\ DOMAIN Append(s, x) = 1 .. (Len(s) + 1)
      /\ \A i \in 1 .. Len(s) : Append(s, x)[i] = s[i]
      /\ Append(s, x)[Len(s) + 1] = x
  OBVIOUS
<1>2. ToSet(Append(s, x)) = ToSet(s) \cup {x}
  BY <1>1 DEF ToSet
<1>3. ASSUME IsInjective(s), x \notin ToSet(s) PROVE IsInjective(Append(s, x))
  <2>1. \A i \in 1 .. Len(s) : s[i] # x
    BY <1>1, <1>3 DEF ToSet
  <2>2. \A i \in 1 .. (Len(s) + 1) : i \in 1 .. Len(s) \/ i = Len(s) + 1
    BY <1>1
  <2> QED BY <1>1, <1>3, <2>1, <2>2 DEF IsInjective
<1> QED BY <1>1, <1>2, <1>3

\* A list without its last element.
LEMMA FrontFacts ==
  ASSUME NEW S, NEW s \in Seq(S), s # <<>>
  PROVE  /\ Front(s) \in Seq(S) /\ Len(Front(s)) = Len(s) - 1 /\ Len(s) \in Nat \ {0}
         /\ \A i \in 1 .. (Len(s) - 1) : Front(s)[i] = s[i]
         /\ Last(s) = s[Len(s)] /\ Last(s) \in S
<1>1. /\ Len(s) \in Nat /\ Len(s) > 0
      /\ \A i \in 1 .. Len(s) : s[i] \in S
  OBVIOUS
<1>2. 1 \in Int /\ Len(s) - 1 \in Int /\ \A i \in 1 .. (Len(s) - 1) : s[i] \in S
  BY <1>1
<1>3. /\ SubSeq(s, 1, Len(s) - 1) \in Seq(S)
      /\ Len(SubSeq(s, 1, Len(s) - 1)) = IF 1 <= Len(s) - 1 THEN (Len(s) - 1) - 1 + 1 ELSE 0
      /\ \A i \in 1 .. ((Len(s) - 1) - 1 + 1) : SubSeq(s, 1, Len(s) - 1)[i] = s[1 + i - 1]
  BY <1>2, SubSeqProperties
<1>4. Front(s) = SubSeq(s, 1, Len(s) - 1) /\ Last(s) = s[Len(s)]
  BY DEF Front, Last
<1>5. Len(Front(s)) = Len(s) - 1
  <2>1. \A m \in Nat \ {0} : (IF 1 <= m - 1 THEN (m - 1) - 1 + 1 ELSE 0) = m - 1
    OBVIOUS
  <2>2. Len(s) \in Nat \ {0}
    BY <1>1
  <2> QED BY <1>3, <1>4, <2>1, <2>2
<1>6. \A i \in 1 .. (Len(s) - 1) : Front(s)[i] = s[i]
  BY <1>1, <1>3, <1>4
<1> QED BY <1>1, <1>3, <1>4, <1>5, <1>6

\* The free list with its top taken off.
LEMMA PopFacts ==
  ASSUME NEW S, NEW s \in Seq(S), s # <<>>, IsInjective(s)
  PROVE  /\ Front(s) \in Seq(S) /\ IsInjective(Front(s))
         /\ Last(s) \in S /\ Last(s) \in ToSet(s)
         /\ ToSet(Front(s)) = ToSet(s) \ {Last(s)}
<1>1. /\ Front(s) \in Seq(S) /\ Len(Front(s)) = Len(s) - 1 /\ Len(s) \in Nat \ {0}
      /\ \A i \in 1 .. (Len(s) - 1) : Front(s)[i] = s[i]
      /\ Last(s) = s[Len(s)] /\ Last(s) \in S
  BY FrontFacts
<1>2. /\ DOMAIN s = 1 .. Len(s) /\ DOMAIN Front(s) = 1 .. (Len(s) - 1)
      /\ Len(s) \in 1 .. Len(s)
      /\ \A i \in 1 .. (Len(s) - 1) : i \in 1 .. Len(s)
  BY <1>1
<1>3. \A i \in 1 .. Len(s) : i \in 1 .. (Len(s) - 1) <=> s[i] # s[Len(s)]
  BY <1>1, <1>2 DEF IsInjective
<1>4. IsInjective(Front(s))
  BY <1>1, <1>2 DEF IsInjective
<1>5. ToSet(Front(s)) = ToSet(s) \ {Last(s)}
  BY <1>1, <1>2, <1>3 DEF ToSet
<1> QED BY <1>1, <1>2, <1>4, <1>5 DEF ToSet

\* A list from which position i has been taken by moving the last element there.
LEMMA SwapRemoveFacts ==
  ASSUME NEW S, NEW s \in Seq(S), IsInjective(s), NEW i \in 1 .. Len(s)
  PROVE  LET r == Front([s EXCEPT ![i] = Last(s)])
         IN /\ r \in Seq(S) /\ Len(r) = Len(s) - 1
            /\ \A j \in 1 .. (Len(s) - 1) : r[j] = IF j = i THEN s[Len(s)] ELSE s[j]
            /\ IsInjective(r) /\ ToSet(r) = ToSet(s) \ {s[i]}
<1> DEFINE q == [s EXCEPT ![i] = Last(s)]
           r == Front(q)
           m == Len(s)
<1>1. m \in Nat \ {0} /\ DOMAIN s = 1 .. m /\ s # <<>> /\ Last(s) = s[m] /\ Last(s) \in S
      /\ \A j \in 1 .. m : s[j] \in S
  BY FrontFacts
<1>2. q \in Seq(S) /\ Len(q) = m /\ q # <<>> /\ \A j \in 1 .. m : q[j] = IF j = i THEN s[m] ELSE s[j]
  BY <1>1
<1> HIDE DEF q, m
<1>3. r \in Seq(S) /\ Len(r) = m - 1 /\ \A j \in 1 .. (m - 1) : r[j] = q[j]
  BY <1>2, FrontFacts
<1> HIDE DEF r
<1>4. /\ DOMAIN r = 1 .. (m - 1) /\ m \in 1 .. m /\ i \in 1 .. m
      /\ \A j \in 1 .. (m - 1) : j \in 1 .. m /\ j # m
      /\ \A j \in 1 .. m : j # m => j \in 1 .. (m - 1)
  <2>1. DOMAIN r = 1 .. (m - 1)
    BY <1>3
  <2>2. i \in 1 .. m
    BY DEF m
  <2> QED BY <1>1, <2>1, <2>2
<1>5. \A j \in 1 .. (m - 1) : r[j] = IF j = i THEN s[m] ELSE s[j]
  BY <1>2, <1>3, <1>4
<1>6. \A j, k \in 1 .. m : s[j] = s[k] => j = k
  BY <1>1 DEF IsInjective
<1>7. IsInjective(r)
  <2>1. SUFFICES ASSUME NEW j \in 1 .. (m - 1), NEW k \in 1 .. (m - 1), r[j] = r[k] PROVE j = k
    BY <1>4 DEF IsInjective
  <2> QED BY <1>4, <1>5, <1>6, <2>1
<1>8. ASSUME NEW x PROVE x \in ToSet(r) <=> x \in ToSet(s) /\ x # s[i]
  <2>1. ASSUME x \in ToSet(r) PROVE x \in ToSet(s) /\ x # s[i]
    <3>1. PICK j \in 1 .. (m - 1) : x = r[j]
      BY <1>4, <2>1 DEF ToSet
    <3>2. PICK k \in 1 .. m : x = s[k] /\ k # i
      <4>1. CASE j = i
        BY <1>4, <1>5, <3>1, <4>1
      <4>2. CASE j # i
        BY <1>4, <1>5, <3>1, <4>2
      <4> QED BY <4>1, <4>2
    <3> QED BY <1>1, <1>4, <1>6, <3>2 DEF ToSet
  <2>2. ASSUME x \in ToSet(s), x # s[i] PROVE x \in ToSet(r)
    <3>1. PICK k \in 1 .. m : x = s[k] /\ k # i
      BY <1>1, <2>2 DEF ToSet
    <3>2. CASE k = m
      <4>1. i \in 1 .. (m - 1) /\ r[i] = x
        BY <1>4, <1>5, <3>1, <3>2
      <4> QED BY <1>4, <4>1 DEF ToSet
    <3>3. CASE k # m
      <4>1. k \in 1 .. (m - 1) /\ r[k] = x
        BY <1>4, <1>5, <3>1, <3>3
      <4> QED BY <1>4, <4>1 DEF ToSet
    <3> QED BY <3>2, <3>3
  <2> QED BY <2>1, <2>2
<1> QED BY <1>3, <1>5, <1>7, <1>8 DEF r, q, m


(* The adjacency lists *)

EdgeRef == [nbr : Vertices, eid : Ids]

\* The lists and positions as remove_edge works on them.
Linked == [adj |-> adj, slot0 |-> slot0, slot1 |-> slot1]
LinkedTypes(s) ==
  /\ s = [adj |-> s.adj, slot0 |-> s.slot0, slot1 |-> s.slot1]
  /\ s.adj \in [Vertices -> Seq(EdgeRef)]
  /\ s.slot0 \in [Ids -> Nat] /\ s.slot1 \in [Ids -> Nat]

\* The live edges at a vertex; the entry of one in the vertex's list, and its
\* position there.
EdgesAt(w) == {e \in Ids : Alive(e) /\ (eu[e] = w \/ ev[e] = w)}
RefTo(e, w) == [nbr |-> IF eu[e] = w THEN ev[e] ELSE eu[e], eid |-> e]
Pos(s, e, w) == IF eu[e] = w THEN s.slot0[e] ELSE s.slot1[e]

\* The list of w holds the edges E, once each, and they know where.
Holds(s, w, E) ==
  /\ IsInjective(s.adj[w])
  /\ ToSet(s.adj[w]) = {RefTo(e, w) : e \in E}
  /\ \A e \in E : Pos(s, e, w) + 1 \in 1 .. Len(s.adj[w]) /\ s.adj[w][Pos(s, e, w) + 1] = RefTo(e, w)

EndsTypes == eu \in [Ids -> Vertices \cup {NoVertex}] /\ ev \in [Ids -> Vertices \cup {NoVertex}]

\* The ends of live edges.
LEMMA EndsFacts ==
  ASSUME EndsTypes, EndsSound
  PROVE  /\ NoVertex \notin Vertices
         /\ \A e \in Ids : Alive(e) => /\ <<eu[e], ev[e]>> \in Pairs
                                       /\ eu[e] \in Vertices /\ ev[e] \in Vertices /\ eu[e] # ev[e]
         /\ \A e \in Ids : ~Alive(e) => eu[e] = NoVertex /\ ev[e] = NoVertex
         /\ \A w \in Vertices : \A e \in EdgesAt(w) : RefTo(e, w) \in EdgeRef
<1>1. NoVertex \notin Vertices
  BY GraphAssumption DEF NoVertex, Vertices
<1>2. ASSUME NEW e \in Ids, Alive(e)
      PROVE  <<eu[e], ev[e]>> \in Pairs /\ eu[e] \in Vertices /\ ev[e] \in Vertices /\ eu[e] # ev[e]
  <2> DEFINE p == <<eu[e], ev[e]>>
  <2>1. p \in Pairs
    BY <1>2 DEF EndsSound
  <2>2. p \in Vertices \X Vertices /\ p[1] < p[2]
    BY <2>1, GraphAssumption
  <2>3. \A x, y \in Vertices : x < y => x # y
    BY GraphAssumption DEF Vertices
  <2> QED BY <2>1, <2>2, <2>3
<1>3. ASSUME NEW e \in Ids, ~Alive(e) PROVE eu[e] = NoVertex /\ ev[e] = NoVertex
  BY <1>3 DEF EndsSound, Alive
<1>4. \A w \in Vertices : \A e \in EdgesAt(w) : RefTo(e, w) \in EdgeRef
  BY <1>2 DEF EdgesAt, RefTo, EdgeRef
<1> QED BY <1>1, <1>2, <1>3, <1>4

\* Taking an edge out of the list of one of its ends: the others stay in it and
\* know where, and no other list and no position in one changes.
LEMMA UnlinkFacts ==
  ASSUME EndsTypes, EndsSound, NEW s, LinkedTypes(s),
         NEW w \in Vertices, NEW E \in SUBSET EdgesAt(w), Holds(s, w, E), NEW e \in E
  PROVE  LET t == Unlink(s, w, Pos(s, e, w))
         IN /\ LinkedTypes(t)
            /\ Holds(t, w, E \ {e})
            /\ \A x \in Vertices \ {w} : \A F \in SUBSET EdgesAt(x) :
                 Holds(s, x, F) => Holds(t, x, F) /\ \A f \in F : Pos(t, f, x) = Pos(s, f, x)
<1> DEFINE p == Pos(s, e, w)
           t == Unlink(s, w, p)
           q == s.adj[w]
           r == Front([q EXCEPT ![p + 1] = Last(q)])
           m == Last(q).eid
<1>1. /\ s = [adj |-> s.adj, slot0 |-> s.slot0, slot1 |-> s.slot1]
      /\ s.adj \in [Vertices -> Seq(EdgeRef)] /\ q \in Seq(EdgeRef)
      /\ s.slot0 \in [Ids -> Nat] /\ s.slot1 \in [Ids -> Nat]
  BY DEF LinkedTypes
<1>2. /\ IsInjective(q)
      /\ ToSet(q) = {RefTo(f, w) : f \in E}
      /\ p + 1 \in 1 .. Len(q) /\ q[p + 1] = RefTo(e, w)
      /\ \A f \in E : Pos(s, f, w) + 1 \in 1 .. Len(q) /\ q[Pos(s, f, w) + 1] = RefTo(f, w)
  BY DEF Holds
<1>3. E \in SUBSET Ids /\ \A f \in E : RefTo(f, w).eid = f
  BY DEF EdgesAt, RefTo
<1>4. \A f \in Ids : Pos(s, f, w) \in Nat
  BY <1>1 DEF Pos
<1>5. q # <<>> /\ Len(q) \in Nat \ {0} /\ Last(q) = q[Len(q)] /\ DOMAIN q = 1 .. Len(q)
  BY <1>1, <1>2 DEF Last
<1>6. m \in E /\ Last(q) = RefTo(m, w)
  <2>1. Last(q) \in ToSet(q)
    BY <1>5 DEF ToSet
  <2>2. PICK f \in E : Last(q) = RefTo(f, w)
    BY <1>2, <2>1
  <2> QED BY <1>3, <2>2
<1>7. Pos(s, m, w) + 1 = Len(q)
  <2>1. q[Pos(s, m, w) + 1] = q[Len(q)] /\ Pos(s, m, w) + 1 \in DOMAIN q /\ Len(q) \in DOMAIN q
    BY <1>2, <1>5, <1>6
  <2> QED BY <1>2, <2>1 DEF IsInjective
<1>8. /\ r \in Seq(EdgeRef) /\ Len(r) = Len(q) - 1
      /\ \A j \in 1 .. (Len(q) - 1) : r[j] = IF j = p + 1 THEN q[Len(q)] ELSE q[j]
      /\ IsInjective(r) /\ ToSet(r) = ToSet(q) \ {q[p + 1]}
  <2> DEFINE i == p + 1
  <2>1. q \in Seq(EdgeRef) /\ IsInjective(q) /\ i \in 1 .. Len(q)
    BY <1>1, <1>2
  <2> HIDE DEF q, i
  <2>2. LET z == Front([q EXCEPT ![i] = Last(q)])
        IN /\ z \in Seq(EdgeRef) /\ Len(z) = Len(q) - 1
           /\ \A j \in 1 .. (Len(q) - 1) : z[j] = IF j = i THEN q[Len(q)] ELSE q[j]
           /\ IsInjective(z) /\ ToSet(z) = ToSet(q) \ {q[i]}
    BY <2>1, SwapRemoveFacts
  <2> QED BY <2>2 DEF i
<1>9. t = [adj   |-> [s.adj EXCEPT ![w] = r],
           slot0 |-> IF eu[m] = w THEN [s.slot0 EXCEPT ![m] = p] ELSE s.slot0,
           slot1 |-> IF eu[m] = w THEN s.slot1 ELSE [s.slot1 EXCEPT ![m] = p]]
  <2>1. CASE eu[m] = w
    <3>1. t = [[s EXCEPT !.adj[w] = r] EXCEPT !.slot0[m] = p]
      BY <2>1 DEF Unlink
    <3> HIDE DEF r, p, m, t
    <3> QED BY <1>1, <2>1, <3>1
  <2>2. CASE eu[m] # w
    <3>1. t = [[s EXCEPT !.adj[w] = r] EXCEPT !.slot1[m] = p]
      BY <2>2 DEF Unlink
    <3> HIDE DEF r, p, m, t
    <3> QED BY <1>1, <2>2, <3>1
  <2> QED BY <2>1, <2>2
<1> HIDE DEF t, r, p
<1>10. p \in Nat /\ m \in Ids /\ e \in Ids
  BY <1>3, <1>4, <1>6 DEF p
<1>11. LinkedTypes(t)
  BY <1>1, <1>8, <1>9, <1>10 DEF LinkedTypes
<1>12. /\ t.adj[w] = r
       /\ \A x \in Vertices \ {w} : t.adj[x] = s.adj[x]
  BY <1>1, <1>9
<1>13. /\ Pos(t, m, w) = p
       /\ \A f \in Ids \ {m} : \A x : Pos(t, f, x) = Pos(s, f, x)
       /\ \A x \in Vertices \ {w} : m \in EdgesAt(x) => Pos(t, m, x) = Pos(s, m, x)
  <2>1. CASE eu[m] = w
    BY <1>1, <1>9, <1>10, <2>1 DEF Pos
  <2>2. CASE eu[m] # w
    <3>1. m \in EdgesAt(w)
      BY <1>6
    <3>2. \A x \in Vertices \ {w} : m \in EdgesAt(x) => eu[m] = x
      BY <2>2, <3>1 DEF EdgesAt
    <3> QED BY <1>1, <1>9, <1>10, <2>2, <3>2 DEF Pos
  <2> QED BY <2>1, <2>2
<1>14. Holds(t, w, E \ {e})
  <2>1. ToSet(r) = {RefTo(f, w) : f \in E \ {e}}
    <3>1. \A f \in E : RefTo(f, w) = RefTo(e, w) => f = e
      BY <1>3
    <3> QED BY <1>2, <1>8, <3>1
  <2>2. ASSUME NEW f \in E \ {e}
        PROVE  Pos(t, f, w) + 1 \in 1 .. Len(r) /\ r[Pos(t, f, w) + 1] = RefTo(f, w)
    <3>1. Pos(s, f, w) + 1 # p + 1
      BY <1>2, <1>3
    <3>2. CASE f = m
      <4>1. p + 1 # Len(q)
        BY <1>2, <1>3, <1>5, <1>6, <3>2
      <4>2. p + 1 \in 1 .. (Len(q) - 1) /\ Pos(t, f, w) = p
        BY <1>2, <1>5, <1>13, <3>2, <4>1
      <4>3. r[p + 1] = q[Len(q)]
        BY <1>8, <4>2
      <4> QED BY <1>5, <1>6, <1>8, <3>2, <4>2, <4>3
    <3>3. CASE f # m
      <4>1. Pos(t, f, w) = Pos(s, f, w) /\ Pos(s, f, w) + 1 \in 1 .. Len(q)
            /\ q[Pos(s, f, w) + 1] = RefTo(f, w)
        BY <1>2, <1>3, <1>13, <3>3
      <4>2. Pos(s, f, w) + 1 # Len(q)
        BY <1>3, <1>5, <1>6, <3>3, <4>1
      <4>3. Pos(s, f, w) + 1 \in 1 .. (Len(q) - 1)
        BY <1>5, <4>1, <4>2
      <4>4. r[Pos(s, f, w) + 1] = q[Pos(s, f, w) + 1]
        BY <1>8, <3>1, <4>3
      <4> QED BY <1>8, <4>1, <4>3, <4>4
    <3> QED BY <3>2, <3>3
  <2> QED BY <1>8, <1>12, <2>1, <2>2 DEF Holds
<1>15. ASSUME NEW x \in Vertices \ {w}, NEW F \in SUBSET EdgesAt(x), Holds(s, x, F)
       PROVE  Holds(t, x, F) /\ \A f \in F : Pos(t, f, x) = Pos(s, f, x)
  <2>1. \A f \in F : Pos(t, f, x) = Pos(s, f, x)
    BY <1>13, <1>15 DEF EdgesAt
  <2> QED BY <1>12, <1>15, <2>1 DEF Holds
<1> QED BY <1>11, <1>14, <1>15 DEF t, p


(* The invariant *)

GraphTypes ==
  /\ LinkedTypes(Linked) /\ EndsTypes
  /\ freeIds \in Seq(Ids) /\ capEdges \in Nat /\ slots \in Nat

\* The hash table names the live edges.
Names == \A p \in Pairs : \A e \in Ids : Find(p) = e <=> (eu[e] = p[1] /\ ev[e] = p[2])

\* IInv and TableSound, in the terms of the proofs.
Inv ==
  /\ HashInv /\ GraphTypes /\ EndsSound /\ Names /\ IdsSound
  /\ \A w \in Vertices : Holds(Linked, w, EdgesAt(w))

\* The lists in the words of ListsExact and SlotsPoint.
LEMMA ListsMean ==
  ASSUME GraphTypes, EndsSound
  PROVE  (\A w \in Vertices : Holds(Linked, w, EdgesAt(w))) /\ Names <=> SlotsPoint /\ ListsExact
<1>1. /\ Linked.adj = adj /\ Linked.slot0 = slot0 /\ Linked.slot1 = slot1
      /\ adj \in [Vertices -> Seq(EdgeRef)]
      /\ slot0 \in [Ids -> Nat] /\ slot1 \in [Ids -> Nat]
  BY DEF GraphTypes, LinkedTypes, Linked
<1>2. /\ \A e \in Ids : Alive(e) => /\ eu[e] \in Vertices /\ ev[e] \in Vertices /\ eu[e] # ev[e]
      /\ \A e \in Ids : ~Alive(e) => eu[e] \notin Vertices /\ ev[e] \notin Vertices
  BY EndsFacts DEF GraphTypes
<1>3. ASSUME NEW w \in Vertices
      PROVE  {RefTo(e, w) : e \in EdgesAt(w)} =
               {[nbr |-> ev[e], eid |-> e] : e \in {x \in Ids : eu[x] = w}}
                 \cup {[nbr |-> eu[e], eid |-> e] : e \in {x \in Ids : ev[x] = w}}
  <2> DEFINE A == {[nbr |-> ev[e], eid |-> e] : e \in {x \in Ids : eu[x] = w}}
             B == {[nbr |-> eu[e], eid |-> e] : e \in {x \in Ids : ev[x] = w}}
             C == {RefTo(e, w) : e \in EdgesAt(w)}
  <2>1. ASSUME NEW e \in EdgesAt(w) PROVE RefTo(e, w) \in A \cup B
    BY <1>2 DEF EdgesAt, RefTo
  <2>2. ASSUME NEW e \in Ids, eu[e] = w PROVE [nbr |-> ev[e], eid |-> e] \in C
    <3>1. e \in EdgesAt(w) /\ RefTo(e, w) = [nbr |-> ev[e], eid |-> e]
      BY <1>2, <2>2 DEF EdgesAt, RefTo
    <3> QED BY <3>1
  <2>3. ASSUME NEW e \in Ids, ev[e] = w PROVE [nbr |-> eu[e], eid |-> e] \in C
    <3>1. e \in EdgesAt(w) /\ RefTo(e, w) = [nbr |-> eu[e], eid |-> e]
      BY <1>2, <2>3 DEF EdgesAt, RefTo
    <3> QED BY <3>1
  <2>4. C \subseteq A \cup B
    BY <2>1
  <2>5. A \subseteq C /\ B \subseteq C
    BY <2>2, <2>3
  <2> QED BY <2>4, <2>5
<1>4. SlotsPoint <=>
        \A w \in Vertices : \A e \in EdgesAt(w) :
          /\ Pos(Linked, e, w) + 1 \in 1 .. Len(adj[w])
          /\ adj[w][Pos(Linked, e, w) + 1] = RefTo(e, w)
  <2>1. ASSUME NEW e \in Ids, Alive(e)
        PROVE  /\ e \in EdgesAt(eu[e]) /\ e \in EdgesAt(ev[e])
               /\ Pos(Linked, e, eu[e]) = slot0[e] /\ Pos(Linked, e, ev[e]) = slot1[e]
               /\ RefTo(e, eu[e]) = [nbr |-> ev[e], eid |-> e]
               /\ RefTo(e, ev[e]) = [nbr |-> eu[e], eid |-> e]
    BY <1>1, <1>2, <2>1 DEF EdgesAt, Pos, RefTo
  <2>2. \A w \in Vertices : Len(adj[w]) \in Nat
    BY <1>1
  <2>3. \A k \in Nat : \A m \in Nat : k + 1 \in 1 .. m <=> k < m
    OBVIOUS
  <2>4. \A e \in Ids : slot0[e] \in Nat /\ slot1[e] \in Nat
    BY <1>1
  <2>5. \A w \in Vertices : \A e \in EdgesAt(w) : e \in Ids /\ Alive(e) /\ (w = eu[e] \/ w = ev[e])
    BY DEF EdgesAt
  <2>6. ASSUME NEW e \in Ids, Alive(e)
        PROVE  /\ slot0[e] < Len(adj[eu[e]]) <=> Pos(Linked, e, eu[e]) + 1 \in 1 .. Len(adj[eu[e]])
               /\ slot1[e] < Len(adj[ev[e]]) <=> Pos(Linked, e, ev[e]) + 1 \in 1 .. Len(adj[ev[e]])
    BY <1>2, <2>1, <2>2, <2>3, <2>4, <2>6
  <2>7. ASSUME SlotsPoint, NEW w \in Vertices, NEW e \in EdgesAt(w)
        PROVE  /\ Pos(Linked, e, w) + 1 \in 1 .. Len(adj[w])
               /\ adj[w][Pos(Linked, e, w) + 1] = RefTo(e, w)
    <3>1. e \in Ids /\ Alive(e)
      BY <2>5
    <3>2. /\ slot0[e] < Len(adj[eu[e]]) /\ adj[eu[e]][slot0[e] + 1] = [nbr |-> ev[e], eid |-> e]
          /\ slot1[e] < Len(adj[ev[e]]) /\ adj[ev[e]][slot1[e] + 1] = [nbr |-> eu[e], eid |-> e]
      BY <2>7, <3>1 DEF SlotsPoint
    <3>3. /\ Pos(Linked, e, eu[e]) + 1 \in 1 .. Len(adj[eu[e]])
          /\ adj[eu[e]][Pos(Linked, e, eu[e]) + 1] = RefTo(e, eu[e])
      BY <2>1, <2>6, <3>1, <3>2
    <3>4. /\ Pos(Linked, e, ev[e]) + 1 \in 1 .. Len(adj[ev[e]])
          /\ adj[ev[e]][Pos(Linked, e, ev[e]) + 1] = RefTo(e, ev[e])
      BY <2>1, <2>6, <3>1, <3>2
    <3>5. CASE w = eu[e]
      BY <3>3, <3>5
    <3>6. CASE w = ev[e]
      BY <3>4, <3>6
    <3> QED BY <2>5, <3>5, <3>6
  <2>8. ASSUME \A w \in Vertices : \A e \in EdgesAt(w) :
                 /\ Pos(Linked, e, w) + 1 \in 1 .. Len(adj[w])
                 /\ adj[w][Pos(Linked, e, w) + 1] = RefTo(e, w),
               NEW e \in Ids, Alive(e)
        PROVE  /\ slot0[e] < Len(adj[eu[e]]) /\ adj[eu[e]][slot0[e] + 1] = [nbr |-> ev[e], eid |-> e]
               /\ slot1[e] < Len(adj[ev[e]]) /\ adj[ev[e]][slot1[e] + 1] = [nbr |-> eu[e], eid |-> e]
    BY <1>2, <2>1, <2>6, <2>8
  <2> QED BY <2>7, <2>8 DEF SlotsPoint
<1> QED BY <1>1, <1>3, <1>4 DEF Holds, ListsExact, Names

\* The inductive invariant is the two properties that are checked.
LEMMA InvMeans == Inv <=> IInv /\ TableSound
<1>1. TypeOK <=> GraphTypes /\ Hash!TypeOK
  BY DEF TypeOK, GraphTypes, LinkedTypes, EndsTypes, Linked, EdgeRef
<1>2. HashInv <=> Hash!TypeOK /\ TableSound
  BY HashInvMeans DEF TableSound
<1> QED BY <1>1, <1>2, ListsMean DEF Inv, IInv

\* The empty graph.
LEMMA InitInv == Init => Inv
<1> SUFFICES ASSUME Init PROVE Inv
  OBVIOUS
<1>1. HashInv /\ \A k \in Keys : Hash!Find(k) = -1
  BY InitHash DEF Init
<1>2. GraphTypes
  BY GraphAssumption DEF Init, GraphTypes, LinkedTypes, EndsTypes, Linked
<1>3. \A e \in Ids : eu[e] = NoVertex /\ ev[e] = NoVertex /\ ~Alive(e)
  BY DEF Init, Alive
<1>4. EndsSound
  BY <1>3 DEF EndsSound
<1>5. NoVertex \notin Vertices /\ -1 \notin Ids
  BY GraphAssumption DEF NoVertex, Vertices, Ids
<1>6. Names
  <2>1. \A p \in Pairs : Find(p) = -1 /\ p[1] \in Vertices
    BY <1>1, KeyFacts DEF Find
  <2> QED BY <1>3, <1>5, <2>1 DEF Names
<1>7. IdsSound
  <2>1. {e \in Ids : Alive(e)} = {} /\ ToSet(freeIds) = {} /\ IsInjective(freeIds)
    BY <1>3 DEF Init, ToSet, IsInjective
  <2>2. capEdges = FirstId /\ FirstId <= capEdges /\ capEdges <= slots /\ FirstId .. (FirstId - 1) = {}
    BY GraphAssumption DEF Init
  <2> QED BY <2>1, <2>2 DEF IdsSound
<1>8. ASSUME NEW w \in Vertices PROVE Holds(Linked, w, EdgesAt(w))
  <2>1. EdgesAt(w) = {} /\ Linked.adj[w] = <<>>
    BY <1>3 DEF EdgesAt, Linked, Init
  <2> QED BY <2>1 DEF Holds, ToSet, IsInjective
<1> QED BY <1>1, <1>2, <1>4, <1>6, <1>7, <1>8 DEF Inv


(* The steps *)

\* A list that holds its edges still does when their ends stay.
LEMMA HoldsLater ==
  ASSUME NEW w \in Vertices, NEW s, NEW E, Holds(s, w, E),
         \A e \in E : eu'[e] = eu[e] /\ ev'[e] = ev[e],
         EdgesAt(w)' = E, Linked' = s
  PROVE  Holds(Linked, w, EdgesAt(w))'
<1>1. \A e \in E : RefTo(e, w)' = RefTo(e, w) /\ Pos(Linked, e, w)' = Pos(s, e, w)
  BY DEF RefTo, Pos
<1>2. /\ IsInjective(s.adj[w])
      /\ ToSet(s.adj[w]) = {RefTo(e, w) : e \in E}
      /\ \A e \in E : Pos(s, e, w) + 1 \in 1 .. Len(s.adj[w]) /\ s.adj[w][Pos(s, e, w) + 1] = RefTo(e, w)
  BY DEF Holds
<1>3. {RefTo(e, w)' : e \in E} = {RefTo(e, w) : e \in E}
  BY <1>1
<1>4. ToSet(s.adj[w]) = {RefTo(e, w)' : e \in E}
  BY <1>2, <1>3
<1>5. \A e \in E : /\ Pos(Linked, e, w)' + 1 \in 1 .. Len(s.adj[w])
                   /\ s.adj[w][Pos(Linked, e, w)' + 1] = RefTo(e, w)'
  BY <1>1, <1>2
<1> QED BY <1>2, <1>4, <1>5 DEF Holds

\* remove_edge takes the edge out of both lists, the table and the live ids.
LEMMA RemoveKeeps ==
  ASSUME Inv, NEW e \in Ids, RemoveEdge(e)
  PROVE  Inv'
<1>1. /\ HashInv /\ EndsSound /\ Names /\ IdsSound
      /\ LinkedTypes(Linked) /\ EndsTypes
      /\ freeIds \in Seq(Ids) /\ capEdges \in Nat /\ slots \in Nat
      /\ \A w \in Vertices : Holds(Linked, w, EdgesAt(w))
  BY DEF Inv, GraphTypes
<1>2. Alive(e)
  BY DEF RemoveEdge
<1>3. /\ NoVertex \notin Vertices
      /\ \A f \in Ids : Alive(f) => /\ eu[f] \in Vertices /\ ev[f] \in Vertices /\ eu[f] # ev[f]
                                    /\ <<eu[f], ev[f]>> \in Pairs
      /\ \A f \in Ids : ~Alive(f) => eu[f] = NoVertex /\ ev[f] = NoVertex
  BY <1>1, EndsFacts
<1>4. PICK u \in Vertices, v \in Vertices : u = eu[e] /\ v = ev[e] /\ u # v /\ <<u, v>> \in Pairs
  BY <1>2, <1>3
<1> DEFINE p == <<u, v>>
           half == Unlink(Linked, u, Pos(Linked, e, u))
           done == Unlink(half, v, Pos(Linked, e, v))
<1>5. e \in EdgesAt(u) /\ e \in EdgesAt(v) /\ \A w \in Vertices \ {u, v} : e \notin EdgesAt(w)
  BY <1>2, <1>4 DEF EdgesAt
<1>6. /\ Linked' = [adj |-> done.adj, slot0 |-> done.slot0, slot1 |-> done.slot1]
      /\ Hash!HashDelete(EKey(p))
      /\ eu' = [eu EXCEPT ![e] = NoVertex] /\ ev' = [ev EXCEPT ![e] = NoVertex]
      /\ freeIds' = Append(freeIds, e)
      /\ capEdges' = capEdges /\ slots' = slots
  <2>1. slot0[e] = Pos(Linked, e, u) /\ slot1[e] = Pos(Linked, e, v)
    BY <1>4 DEF Pos, Linked
  <2> QED BY <1>4, <2>1 DEF RemoveEdge, Linked
<1>7. /\ LinkedTypes(half)
      /\ Holds(half, u, EdgesAt(u) \ {e})
      /\ \A x \in Vertices \ {u} : \A F \in SUBSET EdgesAt(x) :
           Holds(Linked, x, F) => Holds(half, x, F) /\ \A f \in F : Pos(half, f, x) = Pos(Linked, f, x)
  <2>1. EdgesAt(u) \in SUBSET EdgesAt(u) /\ Holds(Linked, u, EdgesAt(u))
    BY <1>1
  <2> QED BY <1>1, <1>5, <2>1, UnlinkFacts
<1> HIDE DEF half
<1>8. /\ LinkedTypes(done)
      /\ Holds(done, v, EdgesAt(v) \ {e})
      /\ \A x \in Vertices \ {v} : \A F \in SUBSET EdgesAt(x) :
           Holds(half, x, F) => Holds(done, x, F) /\ \A f \in F : Pos(done, f, x) = Pos(half, f, x)
  <2>1. EdgesAt(v) \in SUBSET EdgesAt(v) /\ Holds(Linked, v, EdgesAt(v))
    BY <1>1
  <2>2. Holds(half, v, EdgesAt(v)) /\ Pos(Linked, e, v) = Pos(half, e, v)
    BY <1>4, <1>5, <1>7, <2>1
  <2>3. done = Unlink(half, v, Pos(half, e, v))
    BY <2>2
  <2> HIDE DEF done
  <2> QED BY <1>1, <1>5, <1>7, <2>1, <2>2, <2>3, UnlinkFacts
<1> HIDE DEF done
<1>9. Linked' = done
  BY <1>6, <1>8 DEF LinkedTypes
<1>10. \A w \in Vertices : Holds(done, w, EdgesAt(w) \ {e})
  <2>1. SUFFICES ASSUME NEW w \in Vertices PROVE Holds(done, w, EdgesAt(w) \ {e})
    OBVIOUS
  <2>2. CASE w = u
    <3>1. EdgesAt(u) \ {e} \in SUBSET EdgesAt(u)
      OBVIOUS
    <3> QED BY <1>4, <1>7, <1>8, <2>2, <3>1
  <2>3. CASE w = v
    BY <1>8, <2>3
  <2>4. CASE w \notin {u, v}
    <3>1. EdgesAt(w) \ {e} = EdgesAt(w)
      BY <1>5, <2>4
    <3>2. Holds(half, w, EdgesAt(w))
      BY <1>1, <1>7, <2>4
    <3>3. Holds(done, w, EdgesAt(w))
      BY <1>8, <2>4, <3>2
    <3> QED BY <3>1, <3>3
  <2> QED BY <2>2, <2>3, <2>4
<1>11. /\ eu'[e] = NoVertex /\ ev'[e] = NoVertex
       /\ \A f \in Ids \ {e} : eu'[f] = eu[f] /\ ev'[f] = ev[f]
       /\ \A f \in Ids : Alive(f)' <=> Alive(f) /\ f # e
  BY <1>1, <1>6 DEF Alive, EndsTypes
<1>12. \A w \in Vertices : EdgesAt(w)' = EdgesAt(w) \ {e}
  BY <1>11 DEF EdgesAt
<1>13. \A w \in Vertices : Holds(Linked, w, EdgesAt(w))'
  <2>1. SUFFICES ASSUME NEW w \in Vertices PROVE Holds(Linked, w, EdgesAt(w))'
    OBVIOUS
  <2>2. \A f \in EdgesAt(w) \ {e} : eu'[f] = eu[f] /\ ev'[f] = ev[f]
    BY <1>11 DEF EdgesAt
  <2> QED BY <1>9, <1>10, <1>12, <2>2, HoldsLater
<1>14. GraphTypes'
  <2>1. LinkedTypes(Linked)'
    <3>1. LinkedTypes(Linked')
      BY <1>8, <1>9
    <3> QED BY <3>1 DEF LinkedTypes
  <2>2. EndsTypes'
    BY <1>1, <1>6 DEF EndsTypes
  <2>3. freeIds' \in Seq(Ids)
    BY <1>1, <1>6, PushFacts
  <2> QED BY <1>1, <1>6, <2>1, <2>2, <2>3 DEF GraphTypes
<1>15. EndsSound'
  <2>1. ASSUME NEW f \in Ids
        PROVE  IF Alive(f)' THEN <<eu'[f], ev'[f]>> \in Pairs ELSE ev'[f] = NoVertex
    BY <1>1, <1>11 DEF EndsSound
  <2> QED BY <2>1 DEF EndsSound, Alive
<1>16. HashInv' /\ Names'
  <2>1. EKey(p) \in Keys
    BY <1>4, KeyFacts
  <2>2. /\ HashInv' /\ Hash!Find(EKey(p))' = -1
        /\ \A x \in Keys \ {EKey(p)} : Hash!Find(x)' = Hash!Find(x)
    BY <1>1, <1>6, <2>1, HashDeleteFacts
  <2>3. -1 \notin Ids
    BY DEF Ids
  <2>4. ASSUME NEW q \in Pairs, NEW f \in Ids
        PROVE  Find(q)' = f <=> (eu'[f] = q[1] /\ ev'[f] = q[2])
    <3>1. EKey(q) \in Keys /\ q[1] \in Vertices /\ q = <<q[1], q[2]>> /\ (q # p => EKey(q) # EKey(p))
      BY <1>4, KeyFacts
    <3>2. CASE q = p
      <4>1. Find(q)' = -1
        BY <2>2, <3>2 DEF Find
      <4>2. ~(eu'[f] = q[1] /\ ev'[f] = q[2])
        <5>1. CASE f = e
          BY <1>3, <1>11, <3>1, <5>1
        <5>2. CASE f # e
          <6>1. SUFFICES ASSUME eu[f] = u, ev[f] = v PROVE FALSE
            BY <1>11, <3>2, <5>2
          <6>2. Find(p) = f /\ Find(p) = e
            BY <1>1, <1>4, <6>1 DEF Names
          <6> QED BY <5>2, <6>2
        <5> QED BY <5>1, <5>2
      <4> QED BY <2>3, <4>1, <4>2
    <3>3. CASE q # p
      <4>1. Find(q)' = Find(q)
        BY <2>2, <3>1, <3>3 DEF Find
      <4>2. Find(q) = f <=> (eu[f] = q[1] /\ ev[f] = q[2])
        BY <1>1 DEF Names
      <4>3. CASE f = e
        BY <1>3, <1>4, <1>11, <3>1, <3>3, <4>1, <4>2, <4>3
      <4>4. CASE f # e
        BY <1>11, <4>1, <4>2, <4>4
      <4> QED BY <4>3, <4>4
    <3> QED BY <3>2, <3>3
  <2> QED BY <2>2, <2>4 DEF Names
<1>17. IdsSound'
  <2> DEFINE live == {f \in Ids : Alive(f)}
  <2>1. /\ IsInjective(freeIds) /\ live \cap ToSet(freeIds) = {}
        /\ live \cup ToSet(freeIds) = FirstId .. (capEdges - 1)
      /\ FirstId <= capEdges /\ capEdges <= slots
    BY <1>1 DEF IdsSound
  <2>2. e \in live /\ e \notin ToSet(freeIds)
    BY <1>2, <2>1
  <2>3. IsInjective(freeIds') /\ ToSet(freeIds') = ToSet(freeIds) \cup {e}
    <3>1. IsInjective(Append(freeIds, e)) /\ ToSet(Append(freeIds, e)) = ToSet(freeIds) \cup {e}
      BY <1>1, <2>1, <2>2, PushFacts
    <3> QED BY <1>6, <3>1
  <2>4. {f \in Ids : Alive(f)'} = live \ {e}
    BY <1>11
  <2>5. /\ IsInjective(freeIds') /\ (live \ {e}) \cap ToSet(freeIds') = {}
        /\ (live \ {e}) \cup ToSet(freeIds') = FirstId .. (capEdges' - 1)
        /\ FirstId <= capEdges' /\ capEdges' <= slots'
    BY <1>6, <2>1, <2>2, <2>3
  <2> QED BY <2>4, <2>5 DEF IdsSound
<1> QED BY <1>13, <1>14, <1>15, <1>16, <1>17 DEF Inv

\* add_edge adds one edge to both lists, the table and the live ids.
LEMMA AddKeeps ==
  ASSUME Inv, NEW u \in Vertices, NEW v \in Vertices, <<u, v>> \in Pairs, AddEdge(u, v)
  PROVE  Inv'
<1>1. /\ HashInv /\ EndsSound /\ Names /\ IdsSound
      /\ LinkedTypes(Linked) /\ EndsTypes
      /\ freeIds \in Seq(Ids) /\ capEdges \in Nat /\ slots \in Nat
      /\ \A w \in Vertices : Holds(Linked, w, EdgesAt(w))
  BY DEF Inv, GraphTypes
<1> DEFINE p == <<u, v>>
           live == {f \in Ids : Alive(f)}
<1>2. EKey(p) \in Keys /\ u # v
  <2>1. EKey(p) \in Keys /\ p[1] < p[2]
    BY KeyFacts
  <2> QED BY <2>1, GraphAssumption DEF Vertices
<1>3. PICK e \in Ids : e = IF freeIds = <<>> THEN capEdges ELSE Last(freeIds)
  BY DEF AddEdge
<1>4. /\ freeIds' = IF freeIds = <<>> THEN freeIds ELSE Front(freeIds)
      /\ capEdges' = IF freeIds = <<>> THEN capEdges + 1 ELSE capEdges
      /\ slots' = IF freeIds = <<>> /\ capEdges' > slots THEN 2 * slots + Increment ELSE slots
      /\ eu' = [eu EXCEPT ![e] = u]
      /\ ev' = [ev EXCEPT ![e] = v]
      /\ slot0' = [slot0 EXCEPT ![e] = Len(adj[u])]
      /\ slot1' = [slot1 EXCEPT ![e] = Len(adj[v])]
      /\ adj' = [adj EXCEPT ![u] = Append(@, [nbr |-> v, eid |-> e]),
                            ![v] = Append(@, [nbr |-> u, eid |-> e])]
      /\ Hash!HashInsert(EKey(p), e)
  BY <1>3 DEF AddEdge
<1>5. /\ adj \in [Vertices -> Seq(EdgeRef)]
      /\ slot0 \in [Ids -> Nat] /\ slot1 \in [Ids -> Nat]
      /\ Linked.adj = adj /\ Linked.slot0 = slot0 /\ Linked.slot1 = slot1
  BY <1>1 DEF LinkedTypes, Linked
<1>6. /\ NoVertex \notin Vertices
      /\ \A f \in Ids : Alive(f) => /\ eu[f] \in Vertices /\ ev[f] \in Vertices /\ eu[f] # ev[f]
                                    /\ <<eu[f], ev[f]>> \in Pairs
      /\ \A f \in Ids : ~Alive(f) => eu[f] = NoVertex /\ ev[f] = NoVertex
  BY <1>1, EndsFacts
<1>7. /\ IsInjective(freeIds) /\ live \cap ToSet(freeIds) = {}
      /\ live \cup ToSet(freeIds) = FirstId .. (capEdges - 1)
      /\ FirstId <= capEdges /\ capEdges <= slots
  BY <1>1 DEF IdsSound
<1>8. FirstId \in Nat /\ Increment \in Nat /\ Increment > 0
  BY GraphAssumption
<1>9. /\ ~Alive(e)
      /\ freeIds' \in Seq(Ids) /\ IsInjective(freeIds') /\ ToSet(freeIds') = ToSet(freeIds) \ {e}
      /\ live \cup ToSet(freeIds) \cup {e} = FirstId .. (capEdges' - 1)
      /\ capEdges' \in Nat /\ slots' \in Nat /\ FirstId <= capEdges' /\ capEdges' <= slots'
  <2>1. CASE freeIds = <<>>
    <3>1. e = capEdges /\ capEdges' = capEdges + 1 /\ freeIds' = freeIds
      BY <1>3, <1>4, <2>1
    <3>2. e \notin FirstId .. (capEdges - 1)
      BY <1>1, <1>8, <3>1
    <3>3. e \notin live /\ e \notin ToSet(freeIds)
      BY <1>7, <3>2
    <3>4. FirstId .. (capEdges' - 1) = (FirstId .. (capEdges - 1)) \cup {capEdges}
      BY <1>1, <1>7, <1>8, <3>1
    <3>5. slots' \in Nat /\ FirstId <= capEdges' /\ capEdges' <= slots'
      BY <1>1, <1>4, <1>7, <1>8, <2>1, <3>1
    <3> QED BY <1>1, <1>7, <1>8, <3>1, <3>3, <3>4, <3>5
  <2>2. CASE freeIds # <<>>
    <3>1. e = Last(freeIds) /\ capEdges' = capEdges /\ freeIds' = Front(freeIds) /\ slots' = slots
      BY <1>3, <1>4, <2>2
    <3>2. /\ Front(freeIds) \in Seq(Ids) /\ IsInjective(Front(freeIds))
          /\ Last(freeIds) \in ToSet(freeIds)
          /\ ToSet(Front(freeIds)) = ToSet(freeIds) \ {Last(freeIds)}
      BY <1>1, <1>7, <2>2, PopFacts
    <3> QED BY <1>1, <1>7, <1>8, <3>1, <3>2
  <2> QED BY <2>1, <2>2
<1>10. /\ eu'[e] = u /\ ev'[e] = v
       /\ \A f \in Ids \ {e} : eu'[f] = eu[f] /\ ev'[f] = ev[f]
       /\ \A f \in Ids : Alive(f)' <=> Alive(f) \/ f = e
       /\ {f \in Ids : Alive(f)'} = live \cup {e}
  BY <1>1, <1>4, <1>6 DEF Alive, EndsTypes
<1>11. \A w \in Vertices : EdgesAt(w)' = IF w \in {u, v} THEN EdgesAt(w) \cup {e} ELSE EdgesAt(w)
  BY <1>9, <1>10 DEF EdgesAt
<1>12. RefTo(e, u)' = [nbr |-> v, eid |-> e] /\ RefTo(e, v)' = [nbr |-> u, eid |-> e]
       /\ RefTo(e, u)' \in EdgeRef /\ RefTo(e, v)' \in EdgeRef
       /\ \A w : \A f \in Ids \ {e} : RefTo(f, w)' = RefTo(f, w)
  BY <1>2, <1>10 DEF RefTo, EdgeRef
<1>13. /\ Linked'.adj = adj'
       /\ \A w \in Vertices : adj'[w] = IF w \in {u, v} THEN Append(adj[w], RefTo(e, w)') ELSE adj[w]
       /\ adj' \in [Vertices -> Seq(EdgeRef)]
       /\ Pos(Linked, e, u)' = Len(adj[u]) /\ Pos(Linked, e, v)' = Len(adj[v])
       /\ \A w : \A f \in Ids \ {e} : Pos(Linked, f, w)' = Pos(Linked, f, w)
  <2>1. \A w \in Vertices : adj'[w] = IF w \in {u, v} THEN Append(adj[w], RefTo(e, w)') ELSE adj[w]
    BY <1>2, <1>4, <1>5, <1>12
  <2>2. ASSUME NEW w \in Vertices PROVE adj'[w] \in Seq(EdgeRef)
    <3>1. adj[w] \in Seq(EdgeRef) /\ (w \in {u, v} => RefTo(e, w)' \in EdgeRef)
      BY <1>5, <1>12
    <3>2. CASE w \in {u, v}
      <4> DEFINE q == adj[w]
                 x == RefTo(e, w)'
      <4>1. q \in Seq(EdgeRef) /\ x \in EdgeRef /\ adj'[w] = Append(q, x)
        BY <2>1, <3>1, <3>2
      <4> HIDE DEF q, x
      <4> QED BY <4>1, PushFacts
    <3>3. CASE w \notin {u, v}
      BY <2>1, <3>1, <3>3
    <3> QED BY <3>2, <3>3
  <2>3. adj' \in [Vertices -> Seq(EdgeRef)]
    BY <1>4, <1>5, <2>2
  <2>4. slot0'[e] = Len(adj[u]) /\ slot1'[e] = Len(adj[v])
        /\ \A f \in Ids \ {e} : slot0'[f] = slot0[f] /\ slot1'[f] = slot1[f]
    BY <1>4, <1>5
  <2> QED BY <1>2, <1>10, <2>1, <2>3, <2>4 DEF Pos, Linked
<1>14. ASSUME NEW w \in Vertices PROVE Holds(Linked, w, EdgesAt(w))'
  <2> DEFINE E == EdgesAt(w)
             q == adj[w]
  <2>1. /\ IsInjective(q) /\ ToSet(q) = {RefTo(f, w) : f \in E}
        /\ \A f \in E : Pos(Linked, f, w) + 1 \in 1 .. Len(q) /\ q[Pos(Linked, f, w) + 1] = RefTo(f, w)
    BY <1>1, <1>5 DEF Holds
  <2>2. E \in SUBSET (Ids \ {e}) /\ q \in Seq(EdgeRef)
    BY <1>5, <1>9 DEF EdgesAt
  <2>3. \A f \in E : RefTo(f, w)' = RefTo(f, w) /\ Pos(Linked, f, w)' = Pos(Linked, f, w)
    BY <1>12, <1>13, <2>2
  <2> HIDE DEF E, q
  <2>4. ToSet(q) = {RefTo(f, w)' : f \in E}
    <3>1. {RefTo(f, w)' : f \in E} = {RefTo(f, w) : f \in E}
      BY <2>3
    <3> QED BY <2>1, <3>1
  <2>5. CASE w \notin {u, v}
    <3>1. adj'[w] = q /\ EdgesAt(w)' = E
      BY <1>11, <1>13, <2>5 DEF E, q
    <3>2. /\ IsInjective(adj'[w]) /\ ToSet(adj'[w]) = {RefTo(f, w)' : f \in EdgesAt(w)'}
          /\ \A f \in EdgesAt(w)' : /\ Pos(Linked, f, w)' + 1 \in 1 .. Len(adj'[w])
                                    /\ adj'[w][Pos(Linked, f, w)' + 1] = RefTo(f, w)'
      BY <2>1, <2>3, <2>4, <3>1
    <3> QED BY <1>13, <3>2 DEF Holds
  <2>6. CASE w \in {u, v}
    <3> DEFINE x == RefTo(e, w)'
               r == Append(q, x)
    <3>1. adj'[w] = r /\ EdgesAt(w)' = E \cup {e} /\ x \in EdgeRef /\ Pos(Linked, e, w)' = Len(q)
      BY <1>11, <1>12, <1>13, <2>6 DEF E, q
    <3>2. x.eid = e /\ \A f \in E : RefTo(f, w)'.eid = f
      BY DEF RefTo
    <3>3. x \notin ToSet(q)
      BY <2>2, <2>4, <3>2
    <3> HIDE DEF x
    <3>4. /\ r \in Seq(EdgeRef) /\ Len(r) = Len(q) + 1 /\ Len(q) \in Nat
          /\ \A i \in 1 .. Len(q) : r[i] = q[i]
          /\ r[Len(q) + 1] = x
          /\ ToSet(r) = ToSet(q) \cup {x} /\ IsInjective(r)
      BY <2>1, <2>2, <3>1, <3>3, PushFacts
    <3> HIDE DEF r
    <3>5. ToSet(r) = {RefTo(f, w)' : f \in E \cup {e}}
      BY <2>4, <3>4 DEF x
    <3>6. \A f \in E : Pos(Linked, f, w)' + 1 \in 1 .. Len(r) /\ r[Pos(Linked, f, w)' + 1] = RefTo(f, w)'
      <4>1. ASSUME NEW i \in 1 .. Len(q) PROVE i \in 1 .. Len(r) /\ r[i] = q[i]
        BY <3>4
      <4> QED BY <2>1, <2>3, <4>1
    <3>7. Pos(Linked, e, w)' + 1 \in 1 .. Len(r) /\ r[Pos(Linked, e, w)' + 1] = RefTo(e, w)'
      BY <3>1, <3>4 DEF x
    <3>8. /\ IsInjective(adj'[w]) /\ ToSet(adj'[w]) = {RefTo(f, w)' : f \in EdgesAt(w)'}
          /\ \A f \in EdgesAt(w)' : /\ Pos(Linked, f, w)' + 1 \in 1 .. Len(adj'[w])
                                    /\ adj'[w][Pos(Linked, f, w)' + 1] = RefTo(f, w)'
      BY <3>1, <3>4, <3>5, <3>6, <3>7
    <3> QED BY <1>13, <3>8 DEF Holds
  <2> QED BY <2>5, <2>6
<1>15. GraphTypes'
  <2>1. slot0' \in [Ids -> Nat] /\ slot1' \in [Ids -> Nat]
    <3>1. Len(adj[u]) \in Nat /\ Len(adj[v]) \in Nat
      BY <1>5
    <3> QED BY <1>4, <1>5, <3>1
  <2>2. LinkedTypes(Linked)'
    BY <1>13, <2>1 DEF LinkedTypes, Linked
  <2>3. EndsTypes'
    BY <1>1, <1>4 DEF EndsTypes
  <2> QED BY <1>9, <2>2, <2>3 DEF GraphTypes
<1>16. EndsSound'
  <2>1. ASSUME NEW f \in Ids
        PROVE  IF Alive(f)' THEN <<eu'[f], ev'[f]>> \in Pairs ELSE ev'[f] = NoVertex
    BY <1>6, <1>10
  <2> QED BY <2>1 DEF EndsSound, Alive
<1>17. HashInv' /\ Names'
  <2>1. /\ HashInv' /\ Hash!Find(EKey(p)) = -1 /\ Hash!Find(EKey(p))' = e
        /\ \A x \in Keys \ {EKey(p)} : Hash!Find(x)' = Hash!Find(x)
    BY <1>1, <1>2, <1>4, HashInsertFacts
  <2>2. -1 \notin Ids
    BY DEF Ids
  <2>3. ASSUME NEW q \in Pairs, NEW f \in Ids
        PROVE  Find(q)' = f <=> (eu'[f] = q[1] /\ ev'[f] = q[2])
    <3>1. EKey(q) \in Keys /\ q[1] \in Vertices /\ q = <<q[1], q[2]>> /\ (q # p => EKey(q) # EKey(p))
      BY KeyFacts
    <3>2. CASE q = p
      <4>1. Find(q)' = e
        BY <2>1, <3>2 DEF Find
      <4>2. f # e => ~(eu[f] = u /\ ev[f] = v)
        <5>1. SUFFICES ASSUME eu[f] = u, ev[f] = v PROVE FALSE
          OBVIOUS
        <5>2. Find(p) = f
          BY <1>1, <5>1 DEF Names
        <5> QED BY <2>1, <2>2, <5>2 DEF Find
      <4> QED BY <1>10, <3>2, <4>1, <4>2
    <3>3. CASE q # p
      <4>1. Find(q)' = Find(q)
        BY <2>1, <3>1, <3>3 DEF Find
      <4>2. Find(q) = f <=> (eu[f] = q[1] /\ ev[f] = q[2])
        BY <1>1 DEF Names
      <4>3. CASE f = e
        BY <1>6, <1>9, <1>10, <3>1, <3>3, <4>1, <4>2, <4>3
      <4>4. CASE f # e
        BY <1>10, <4>1, <4>2, <4>4
      <4> QED BY <4>3, <4>4
    <3> QED BY <3>2, <3>3
  <2> QED BY <2>1, <2>3 DEF Names
<1>18. IdsSound'
  <2>1. /\ (live \cup {e}) \cap ToSet(freeIds') = {}
        /\ (live \cup {e}) \cup ToSet(freeIds') = FirstId .. (capEdges' - 1)
    BY <1>7, <1>9
  <2> QED BY <1>9, <1>10, <2>1 DEF IdsSound
<1> QED BY <1>14, <1>15, <1>16, <1>17, <1>18 DEF Inv

\* Every step keeps the invariant.
LEMMA StepInv == Inv /\ [Next]_vars => Inv'
<1> SUFFICES ASSUME Inv, [Next]_vars PROVE Inv'
  OBVIOUS
<1>1. ASSUME NEW p \in Pairs, AddEdge(p[1], p[2]) PROVE Inv'
  <2>1. p[1] \in Vertices /\ p[2] \in Vertices /\ <<p[1], p[2]>> \in Pairs
    BY KeyFacts
  <2> QED BY <1>1, <2>1, AddKeeps
<1>2. ASSUME NEW e \in Ids, RemoveEdge(e) PROVE Inv'
  BY <1>2, RemoveKeeps
<1>3. CASE UNCHANGED vars
  <2> USE <1>3 DEF vars, adjVars, hashVars
  <2>1. Table' = Table /\ Linked' = Linked
    BY DEF Table, Linked
  <2>2. HashInv'
    BY <2>1 DEF Inv, HashInv
  <2>3. GraphTypes' /\ EndsSound' /\ IdsSound'
    BY <2>1 DEF Inv, GraphTypes, LinkedTypes, EndsTypes, EndsSound, IdsSound, Alive
  <2>4. Names'
    BY DEF Inv, Names, Find, Hash!Find, Hash!Stops
  <2>5. \A w \in Vertices : Holds(Linked, w, EdgesAt(w))'
    BY <2>1 DEF Inv, Holds, EdgesAt, Alive, RefTo, Pos
  <2> QED BY <2>2, <2>3, <2>4, <2>5 DEF Inv
<1> QED BY <1>1, <1>2, <1>3 DEF Next


\* Under every sequence of insertions and removals the lists, the positions, the
\* ids and the hash table agree, however the arrays and the table grow and
\* whatever ids and slots are reused (graph.h:114-169).
THEOREM GraphInvariance == Spec => []IInv
BY InitInv, StepInv, InvMeans, PTL DEF Spec

\* Every search ends, also for absent keys, with tombstones in the table and
\* hused not counting slots (graph.h:62-109).
THEOREM TableAlwaysSound == Spec => []TableSound
BY InitInv, StepInv, InvMeans, PTL DEF Spec

(* The table as a map *)

\* An insertion changes what a search returns for its own key only.
LEMMA InsertPuts ==
  ASSUME HashInv, NEW k \in Keys, NEW v \in Ids, Hash!HashInsert(k, v)
  PROVE  Map!Put(k, v)
<1>1. /\ Hash!Find(k) = -1 /\ Hash!Find(k)' = v
      /\ \A x \in Keys \ {k} : Hash!Find(x)' = Hash!Find(x)
  BY HashInsertFacts
<1>2. -1 \notin Ids
  BY DEF Ids
<1>3. {x \in Keys : Hash!Find(x)' # -1} = {x \in Keys : Hash!Find(x) # -1} \cup {k}
  BY <1>1, <1>2
<1>4. /\ DOMAIN Hash!Contents = {x \in Keys : Hash!Find(x) # -1}
      /\ \A x \in Keys : Hash!Find(x) # -1 => Hash!Contents[x] = Hash!Find(x)
  BY DEF Hash!Contents
<1>5. Hash!Contents' = [x \in {y \in Keys : Hash!Find(y)' # -1} |-> Hash!Find(x)']
  BY DEF Hash!Contents
<1>6. Hash!Contents' =
        [x \in DOMAIN Hash!Contents \cup {k} |-> IF x = k THEN v ELSE Hash!Contents[x]]
  BY <1>1, <1>3, <1>4, <1>5
<1>7. k \notin DOMAIN Hash!Contents
  BY <1>1, <1>4
<1> QED BY <1>6, <1>7 DEF Map!Put

\* A deletion makes its own key absent and leaves every other search as it was.
LEMMA DeleteDeletes ==
  ASSUME HashInv, NEW k \in Keys, Hash!HashDelete(k)
  PROVE  Map!Delete(k)
<1>1. /\ Hash!Find(k) # -1 /\ Hash!Find(k)' = -1
      /\ \A x \in Keys \ {k} : Hash!Find(x)' = Hash!Find(x)
  BY HashDeleteFacts
<1>2. {x \in Keys : Hash!Find(x)' # -1} = {x \in Keys : Hash!Find(x) # -1} \ {k}
  BY <1>1
<1>3. /\ DOMAIN Hash!Contents = {x \in Keys : Hash!Find(x) # -1}
      /\ \A x \in Keys : Hash!Find(x) # -1 => Hash!Contents[x] = Hash!Find(x)
  BY DEF Hash!Contents
<1>4. Hash!Contents' = [x \in {y \in Keys : Hash!Find(y)' # -1} |-> Hash!Find(x)']
  BY DEF Hash!Contents
<1>5. Hash!Contents' = [x \in DOMAIN Hash!Contents \ {k} |-> Hash!Contents[x]]
  BY <1>1, <1>2, <1>3, <1>4
<1>6. k \in DOMAIN Hash!Contents
  BY <1>1, <1>3
<1> QED BY <1>5, <1>6 DEF Map!Delete

\* The empty table is the empty map.
LEMMA InitMaps == Init => Map!Init
<1> SUFFICES ASSUME Init PROVE Map!Init
  OBVIOUS
<1>1. \A k \in Keys : Hash!Find(k) = -1
  BY InitHash DEF Init
<1>2. {x \in Keys : Hash!Find(x) # -1} = {}
  BY <1>1
<1>3. Hash!Contents = [k \in {} |-> k]
  BY <1>2 DEF Hash!Contents
<1> QED BY <1>3 DEF Map!Init

\* Every step of the graph is a step of the map, or none.
LEMMA StepMaps == Inv /\ [Next]_vars => [Map!Next]_(Hash!Contents)
<1> SUFFICES ASSUME Inv, [Next]_vars PROVE [Map!Next]_(Hash!Contents)
  OBVIOUS
<1>1. HashInv /\ GraphTypes /\ EndsSound
  BY DEF Inv
<1>2. ASSUME NEW p \in Pairs, AddEdge(p[1], p[2]) PROVE Map!Next
  <2>1. p = <<p[1], p[2]>> /\ EKey(p) \in Keys
    BY KeyFacts
  <2>2. PICK e \in Ids : Hash!HashInsert(EKey(<<p[1], p[2]>>), e)
    BY <1>2 DEF AddEdge
  <2>3. Map!Put(EKey(p), e)
    BY <1>1, <2>1, <2>2, InsertPuts
  <2> QED BY <2>1, <2>3 DEF Map!Next
<1>3. ASSUME NEW e \in Ids, RemoveEdge(e) PROVE Map!Next
  <2>1. Alive(e) /\ Hash!HashDelete(EKey(<<eu[e], ev[e]>>))
    BY <1>3 DEF RemoveEdge
  <2>2. <<eu[e], ev[e]>> \in Pairs
    BY <1>1, <2>1, EndsFacts DEF GraphTypes
  <2>3. PICK k \in Keys : k = EKey(<<eu[e], ev[e]>>)
    BY <2>2, KeyFacts
  <2>4. Map!Delete(k)
    BY <1>1, <2>1, <2>3, DeleteDeletes
  <2> QED BY <2>4 DEF Map!Next
<1>4. CASE UNCHANGED vars
  BY <1>4 DEF vars, hashVars, adjVars, Hash!Contents, Hash!Find, Hash!Stops
<1> QED BY <1>2, <1>3, <1>4 DEF Next

\* The hash table implements a map from keys to ids: an insertion, with or
\* without rehash, and a deletion change what find returns for their own key and
\* for no other (graph.h:55-109).
THEOREM HashImplementsMap == Spec => MapSpec
BY InitInv, StepInv, InitMaps, StepMaps, PTL DEF Spec, MapSpec, Map!Spec

(* common_neighbors *)

\* A vertex has an entry for another if and only if an edge joins them, and the
\* entry has its id.
LEMMA NeighbourFacts ==
  ASSUME Inv, NEW w \in Vertices
  PROVE  /\ \A x \in Vertices : IdOf(w, x) \in Ids \cup {-1} /\ IdOf(w, w) = -1
         /\ \A r \in ToSet(adj[w]) : r.nbr \in Vertices /\ r.eid \in Ids /\ IdOf(w, r.nbr) = r.eid
                                     /\ r = [nbr |-> r.nbr, eid |-> r.eid]
         /\ \A x \in Vertices : IdOf(w, x) \in Ids => [nbr |-> x, eid |-> IdOf(w, x)] \in ToSet(adj[w])
<1>1. HashInv /\ GraphTypes /\ EndsSound /\ Names /\ Holds(Linked, w, EdgesAt(w))
  BY DEF Inv
<1>2. ToSet(adj[w]) = {RefTo(f, w) : f \in EdgesAt(w)}
  BY <1>1 DEF Holds, Linked
<1>3. /\ NoVertex \notin Vertices
      /\ \A e \in Ids : Alive(e) => /\ <<eu[e], ev[e]>> \in Pairs
                                    /\ eu[e] \in Vertices /\ ev[e] \in Vertices /\ eu[e] # ev[e]
      /\ \A e \in Ids : ~Alive(e) => eu[e] = NoVertex /\ ev[e] = NoVertex
  BY <1>1, EndsFacts DEF GraphTypes
<1>4. \A q \in Pairs : Find(q) \in Ids \cup {-1} /\ q[1] \in Vertices /\ q[2] \in Vertices /\ q[1] < q[2]
  BY <1>1, FindFacts, KeyFacts DEF Find
<1>5. \A a, b \in Vertices : a \in Nat /\ b \in Nat /\ (a < b \/ b < a \/ a = b)
  BY GraphAssumption DEF Vertices
<1>6. \A x \in Vertices : IdOf(w, x) \in Ids \cup {-1}
  BY <1>4 DEF IdOf
<1>7. IdOf(w, w) = -1
  <2>1. <<w, w>> \notin Pairs
    <3>1. SUFFICES ASSUME <<w, w>> \in Pairs PROVE FALSE
      OBVIOUS
    <3>2. w < w
      BY <1>4, <3>1
    <3> QED BY <1>5, <3>2
  <2> QED BY <2>1 DEF IdOf
<1>8. ASSUME NEW f \in EdgesAt(w)
      PROVE  /\ RefTo(f, w).nbr \in Vertices /\ RefTo(f, w).eid = f /\ f \in Ids
             /\ IdOf(w, RefTo(f, w).nbr) = f
             /\ RefTo(f, w) = [nbr |-> RefTo(f, w).nbr, eid |-> f]
  <2>1. f \in Ids /\ Alive(f) /\ (eu[f] = w \/ ev[f] = w)
    BY DEF EdgesAt
  <2>2. <<eu[f], ev[f]>> \in Pairs /\ eu[f] \in Vertices /\ ev[f] \in Vertices /\ eu[f] # ev[f]
    BY <1>3, <2>1
  <2>3. eu[f] < ev[f] /\ ~(ev[f] < eu[f])
    <3>1. eu[f] < ev[f]
      BY <1>4, <2>2
    <3> QED BY <1>5, <2>2, <3>1
  <2>4. Find(<<eu[f], ev[f]>>) = f
    BY <1>1, <2>1, <2>2 DEF Names
  <2>5. CASE eu[f] = w
    <3>1. RefTo(f, w) = [nbr |-> ev[f], eid |-> f]
      BY <2>5 DEF RefTo
    <3>2. IdOf(w, ev[f]) = f
      BY <2>2, <2>3, <2>4, <2>5 DEF IdOf
    <3> QED BY <2>1, <2>2, <3>1, <3>2
  <2>6. CASE ev[f] = w
    <3>1. RefTo(f, w) = [nbr |-> eu[f], eid |-> f]
      BY <2>2, <2>6 DEF RefTo
    <3>2. IdOf(w, eu[f]) = f
      BY <2>2, <2>3, <2>4, <2>6 DEF IdOf
    <3> QED BY <2>1, <2>2, <3>1, <3>2
  <2> QED BY <2>1, <2>5, <2>6
<1>9. \A r \in ToSet(adj[w]) : r.nbr \in Vertices /\ r.eid \in Ids /\ IdOf(w, r.nbr) = r.eid
                               /\ r = [nbr |-> r.nbr, eid |-> r.eid]
  BY <1>2, <1>8
<1>10. ASSUME NEW x \in Vertices, IdOf(w, x) \in Ids
       PROVE  [nbr |-> x, eid |-> IdOf(w, x)] \in ToSet(adj[w])
  <2> DEFINE q == IF w < x THEN <<w, x>> ELSE <<x, w>>
             f == IdOf(w, x)
  <2>1. -1 \notin Ids
    BY DEF Ids
  <2>2. q \in Pairs /\ f = Find(q)
    BY <1>10, <2>1 DEF IdOf
  <2>3. f \in Ids /\ eu[f] = q[1] /\ ev[f] = q[2]
    BY <1>1, <1>10, <2>2 DEF Names
  <2>4. x # w
    BY <1>7, <1>10, <2>1
  <2>5. Alive(f) /\ f \in EdgesAt(w)
    BY <1>3, <1>4, <2>2, <2>3 DEF EdgesAt, Alive
  <2>6. RefTo(f, w) = [nbr |-> x, eid |-> f]
    BY <2>3, <2>4 DEF RefTo
  <2> QED BY <1>2, <2>5, <2>6
<1> QED BY <1>6, <1>7, <1>9, <1>10

\* The invariant is what the listing of triangles relies on.
LEMMA InvTriangles == Inv => TrianglesFound
<1> SUFFICES ASSUME Inv, NEW u \in Vertices, NEW v \in Vertices
             PROVE  LET found == CommonNeighbors(u, v)
                        third == {w \in Vertices \ {u, v} : IdOf(u, w) >= 0 /\ IdOf(v, w) >= 0}
                    IN /\ IsInjective(found)
                       /\ ToSet(found) = {<<w, IdOf(u, w), IdOf(v, w)>> : w \in third}
  BY KeyFacts DEF TrianglesFound
<1> DEFINE marked == Marked(u)
           q == adj[v]
           common == {i \in DOMAIN q : q[i].nbr \in DOMAIN marked}
           found == CommonNeighbors(u, v)
           third == {w \in Vertices \ {u, v} : IdOf(u, w) >= 0 /\ IdOf(v, w) >= 0}
<1>1. \A f \in Ids : f >= 0
  BY DEF Ids
<1>2. \A w, x \in Vertices : (IdOf(w, x) >= 0 <=> IdOf(w, x) \in Ids) /\ IdOf(w, w) = -1
  BY <1>1, NeighbourFacts
<1>3. /\ DOMAIN marked = {w \in Vertices : IdOf(u, w) \in Ids}
      /\ \A w \in DOMAIN marked : marked[w] = IdOf(u, w)
  <2>1. DOMAIN marked = {r.nbr : r \in ToSet(adj[u])}
        /\ \A w \in DOMAIN marked : marked[w] = (CHOOSE r \in ToSet(adj[u]) : r.nbr = w).eid
    BY DEF Marked
  <2>2. ASSUME NEW w \in DOMAIN marked
        PROVE  w \in Vertices /\ IdOf(u, w) \in Ids /\ marked[w] = IdOf(u, w)
    <3>1. \E r \in ToSet(adj[u]) : r.nbr = w
      BY <2>1
    <3>2. PICK r \in ToSet(adj[u]) : r = (CHOOSE x \in ToSet(adj[u]) : x.nbr = w) /\ r.nbr = w
      BY <3>1
    <3>3. marked[w] = r.eid
      BY <2>1, <3>2
    <3> QED BY <3>2, <3>3, NeighbourFacts
  <2>3. ASSUME NEW w \in Vertices, IdOf(u, w) \in Ids PROVE w \in DOMAIN marked
    <3>1. [nbr |-> w, eid |-> IdOf(u, w)] \in ToSet(adj[u])
      BY <2>3, NeighbourFacts
    <3>2. [nbr |-> w, eid |-> IdOf(u, w)].nbr = w
      OBVIOUS
    <3> QED BY <2>1, <3>1, <3>2
  <2> QED BY <2>2, <2>3
<1>4. /\ DOMAIN found = common
      /\ \A i \in common : found[i] = <<q[i].nbr, marked[q[i].nbr], q[i].eid>>
  BY DEF CommonNeighbors
<1>5. IsInjective(q)
  BY DEF Inv, Holds, Linked
<1> HIDE DEF marked, found
<1>6. ASSUME NEW i \in common
      PROVE  /\ i \in DOMAIN q /\ q[i].nbr \in third
             /\ q[i] = [nbr |-> q[i].nbr, eid |-> IdOf(v, q[i].nbr)]
             /\ found[i] = <<q[i].nbr, IdOf(u, q[i].nbr), IdOf(v, q[i].nbr)>>
  <2>1. q[i] \in ToSet(q) /\ q[i].nbr \in DOMAIN marked
    BY DEF ToSet
  <2>2. /\ q[i].nbr \in Vertices /\ IdOf(v, q[i].nbr) = q[i].eid /\ q[i].eid \in Ids
        /\ q[i] = [nbr |-> q[i].nbr, eid |-> q[i].eid]
    BY <2>1, NeighbourFacts
  <2>3. IdOf(u, q[i].nbr) \in Ids /\ marked[q[i].nbr] = IdOf(u, q[i].nbr)
    BY <1>3, <2>1
  <2>4. -1 \notin Ids
    BY DEF Ids
  <2>5. q[i].nbr \in third
    BY <1>2, <2>2, <2>3, <2>4
  <2> QED BY <1>4, <2>2, <2>3, <2>5
<1>7. IsInjective(found)
  <2>1. SUFFICES ASSUME NEW i \in common, NEW j \in common, found[i] = found[j] PROVE i = j
    BY <1>4 DEF IsInjective
  <2>2. q[i].nbr = q[j].nbr
    <3>1. found[i] = <<q[i].nbr, IdOf(u, q[i].nbr), IdOf(v, q[i].nbr)>>
          /\ found[j] = <<q[j].nbr, IdOf(u, q[j].nbr), IdOf(v, q[j].nbr)>>
      BY <1>6
    <3>2. found[i][1] = q[i].nbr /\ found[j][1] = q[j].nbr
      BY <3>1
    <3> QED BY <2>1, <3>2
  <2>3. q[i] = q[j]
    BY <1>6, <2>2
  <2> QED BY <1>5, <1>6, <2>3 DEF IsInjective
<1>8. ToSet(found) = {<<w, IdOf(u, w), IdOf(v, w)>> : w \in third}
  <2>1. ToSet(found) = {found[i] : i \in common}
    BY <1>4 DEF ToSet
  <2>2. ASSUME NEW w \in third PROVE \E i \in common : found[i] = <<w, IdOf(u, w), IdOf(v, w)>>
    <3>1. w \in Vertices /\ IdOf(u, w) \in Ids /\ IdOf(v, w) \in Ids
      BY <1>2
    <3>2. [nbr |-> w, eid |-> IdOf(v, w)] \in ToSet(q)
      BY <3>1, NeighbourFacts
    <3>3. PICK i \in DOMAIN q : q[i] = [nbr |-> w, eid |-> IdOf(v, w)]
      BY <3>2 DEF ToSet
    <3>4. q[i].nbr = w
      BY <3>3
    <3>5. i \in common
      BY <1>3, <3>1, <3>4
    <3> QED BY <1>6, <3>4, <3>5
  <2>3. \A i \in common : \E w \in third : found[i] = <<w, IdOf(u, w), IdOf(v, w)>>
    BY <1>6
  <2> HIDE DEF third, common
  <2> QED BY <2>1, <2>2, <2>3
<1> QED BY <1>7, <1>8 DEF found

\* common_neighbors meets every triangle on an edge, once, with the ids of its
\* two other edges (graph.h:174-184).
THEOREM TrianglesAlwaysFound == Spec => []TrianglesFound
BY InitInv, StepInv, InvTriangles, PTL DEF Spec

=============================================================================
