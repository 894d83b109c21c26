---------------------------- MODULE WorkloadProofs ----------------------------
(***************************************************************************)
(* How the measurements come about, for every input.                       *)
(*                                                                         *)
(* First the workloads (Streams): a generated stream stays within the      *)
(* graph it was drawn from and leads every engine to the same graph; what  *)
(* snap makes of a log is exact; a saved graph loads as it was.  The       *)
(* operators read and write sequences, so the lemmas about sequences and   *)
(* about the recursive functions over them come first.                     *)
(*                                                                         *)
(* Then the suite that measures them (Suite), for every set of graphs,     *)
(* every plan and any number of kills: a graph never has two workers, no   *)
(* slot is measured more than twice, and a suite that says it is done has  *)
(* lost rows only where a kill went unnoticed.                             *)
(***************************************************************************)
EXTENDS Streams, Suite, FiniteSetTheorems, FunctionTheorems, SequenceTheorems, TLAPS

-----------------------------------------------------------------------------
(* Counting up *)

\* A set of numbers that holds 0 and with every number below n the next holds
\* all numbers up to n.
LEMMA CountingUp ==
  ASSUME NEW n \in Nat, NEW P, 0 \in P, \A i \in 1 .. n : i - 1 \in P => i \in P
  PROVE  \A i \in 0 .. n : i \in P
<1> DEFINE Missing == {i \in 0 .. n : i \notin P}
<1>1. SUFFICES ASSUME Missing # {} PROVE FALSE
  OBVIOUS
<1>2. PICK m \in Missing : \A k \in Missing : ~(k < m)
  <2>1. IsWellFoundedOn(OpToRel(<, Nat), Nat)
    BY NatLessThanWellFounded
  <2>2. Missing \in SUBSET Nat
    OBVIOUS
  <2>3. PICK m \in Missing : \A k \in Missing : <<k, m>> \notin OpToRel(<, Nat)
    BY <1>1, <2>1, <2>2, WFMin
  <2> QED BY <2>2, <2>3 DEF OpToRel
<1>3. m \in 1 .. n /\ m - 1 \notin Missing /\ m - 1 \in 0 .. n
  BY <1>2
<1> QED BY <1>2, <1>3

\* R relates a round's number and the state in S before it to one after it.
Goes(R, n, S) == \A i \in 1 .. n : \A s \in S : \E t \in S : <<i, s, t>> \in R

\* f gives the states of S after each of n rounds that start from s0.
Upto(f, R, n, S, s0) ==
  f \in [0 .. n -> S] /\ f[0] = s0 /\ \A i \in 1 .. n : <<i, f[i - 1], f[i]>> \in R

\* A loop of n rounds, each of which can be gone through, has a run.
LEMMA RoundsExist ==
  ASSUME NEW n \in Nat, NEW S, NEW s0 \in S, NEW R, Goes(R, n, S)
  PROVE  \E f : Upto(f, R, n, S, s0)
<1> DEFINE P == {k \in 0 .. n : \E f : Upto(f, R, k, S, s0)}
<1>1. 0 \in P
  <2>1. 0 .. 0 = {0}
    OBVIOUS
  <2>2. Upto([i \in 0 .. 0 |-> s0], R, 0, S, s0)
    BY <2>1 DEF Upto
  <2> QED BY <2>2
<1>2. ASSUME NEW k \in 1 .. n, k - 1 \in P PROVE k \in P
  <2>1. PICK f : Upto(f, R, k - 1, S, s0)
    BY <1>2
  <2>2. /\ f \in [0 .. (k - 1) -> S] /\ f[0] = s0
        /\ \A i \in 1 .. (k - 1) : <<i, f[i - 1], f[i]>> \in R
    BY <2>1 DEF Upto
  <2>3. k \in Nat \ {0} /\ k - 1 \in 0 .. (k - 1) /\ k \in 0 .. n
    OBVIOUS
  <2>4. f[k - 1] \in S
    BY <2>2, <2>3
  <2>5. PICK t \in S : <<k, f[k - 1], t>> \in R
    BY <2>4 DEF Goes
  <2> DEFINE h == [i \in 0 .. k |-> IF i = k THEN t ELSE f[i]]
  <2>6. \A i \in 0 .. (k - 1) : h[i] = f[i] /\ f[i] \in S
    <3>1. \A i \in 0 .. (k - 1) : f[i] \in S
      BY <2>2
    <3>2. \A i \in 0 .. (k - 1) : i \in 0 .. k /\ i # k
      BY <2>3
    <3> QED BY <3>1, <3>2
  <2>7. \A i \in 0 .. k : i = k \/ i \in 0 .. (k - 1)
    BY <2>3
  <2>8. h \in [0 .. k -> S] /\ h[0] = s0 /\ h[k] = t
    <3>1. 0 \in 0 .. (k - 1) /\ k \in 0 .. k
      BY <2>3
    <3>2. \A i \in 0 .. k : h[i] \in S
      BY <2>5, <2>6, <2>7
    <3>3. h[0] = s0
      BY <2>2, <2>6, <3>1
    <3>4. h[k] = t
      BY <3>1
    <3> QED BY <3>2, <3>3, <3>4
  <2> HIDE DEF h
  <2>9. ASSUME NEW i \in 1 .. k PROVE <<i, h[i - 1], h[i]>> \in R
    <3>1. i - 1 \in 0 .. (k - 1)
      BY <2>3
    <3>2. h[i - 1] = f[i - 1]
      BY <2>6, <3>1
    <3>3. CASE i = k
      BY <2>5, <2>8, <3>2, <3>3
    <3>4. CASE i # k
      <4>1. i \in 1 .. (k - 1) /\ i \in 0 .. (k - 1)
        BY <2>3, <3>4
      <4> QED BY <2>2, <2>6, <3>2, <4>1
    <3> QED BY <3>3, <3>4
  <2>10. Upto(h, R, k, S, s0)
    BY <2>8, <2>9 DEF Upto
  <2> QED BY <2>3, <2>10
<1>3. n \in P
  <2> HIDE DEF P
  <2>1. \A i \in 0 .. n : i \in P
    BY <1>1, <1>2, CountingUp
  <2> QED BY <2>1
<1> QED BY <1>3

-----------------------------------------------------------------------------
(* Sequences *)

\* The elements of a sequence with one more, of two sequences in a row, and of a
\* part of a sequence.
LEMMA ElementsFacts ==
  ASSUME NEW X, NEW s \in Seq(X)
  PROVE  /\ ToSet(s) \subseteq X
         /\ \A x \in X : ToSet(Append(s, x)) = ToSet(s) \cup {x}
         /\ \A t \in Seq(X) : ToSet(s \o t) = ToSet(s) \cup ToSet(t)
         /\ s # <<>> => /\ Head(s) \in ToSet(s) 
                        /\ ToSet(s) = {Head(s)} \cup ToSet(Tail(s))
<1>1. ToSet(s) \subseteq X
  BY DEF ToSet
<1>2. ASSUME NEW x \in X PROVE ToSet(Append(s, x)) = ToSet(s) \cup {x}
  <2> DEFINE t == Append(s, x)
  <2>1. /\ Len(t) = Len(s) + 1 /\ DOMAIN t = 1 .. Len(t) /\ t[Len(s) + 1] = x
        /\ \A i \in 1 .. Len(s) : t[i] = s[i]
    OBVIOUS
  <2> HIDE DEF t
  <2>2. Len(s) \in Nat /\ DOMAIN s = 1 .. Len(s)
    OBVIOUS
  <2>3. ASSUME NEW y \in ToSet(t) PROVE y \in ToSet(s) \cup {x}
    BY <2>1, <2>2 DEF ToSet
  <2>4. ASSUME NEW y \in ToSet(s) PROVE y \in ToSet(t)
    <3>1. PICK i \in 1 .. Len(s) : s[i] = y
      BY <2>2 DEF ToSet
    <3>2. i \in DOMAIN t /\ t[i] = y
      BY <2>1, <2>2, <3>1
    <3> QED BY <3>2 DEF ToSet
  <2>5. x \in ToSet(t)
    <3>1. Len(s) + 1 \in DOMAIN t
      BY <2>1, <2>2
    <3> QED BY <2>1, <3>1 DEF ToSet
  <2> QED BY <2>3, <2>4, <2>5 DEF t
<1>3. ASSUME NEW t \in Seq(X) PROVE ToSet(s \o t) = ToSet(s) \cup ToSet(t)
  <2> DEFINE w == s \o t
  <2>1. /\ Len(w) = Len(s) + Len(t) /\ DOMAIN w = 1 .. Len(w)
        /\ \A i \in 1 .. Len(s) + Len(t) : w[i] = IF i <= Len(s) THEN s[i] ELSE t[i - Len(s)]
    OBVIOUS
  <2> HIDE DEF w
  <2>2. Len(s) \in Nat /\ DOMAIN s = 1 .. Len(s) /\ Len(t) \in Nat /\ DOMAIN t = 1 .. Len(t)
    OBVIOUS
  <2>3. ASSUME NEW y \in ToSet(w) PROVE y \in ToSet(s) \cup ToSet(t)
    <3>1. PICK i \in 1 .. Len(s) + Len(t) : w[i] = y
      BY <2>1 DEF ToSet
    <3>2. CASE i <= Len(s)
      BY <2>1, <2>2, <3>1, <3>2 DEF ToSet
    <3>3. CASE i > Len(s)
      <4>1. i - Len(s) \in 1 .. Len(t) /\ y = t[i - Len(s)]
        BY <2>1, <2>2, <3>1, <3>3
      <4> QED BY <2>2, <4>1 DEF ToSet
    <3> QED BY <2>2, <3>2, <3>3
  <2>4. ASSUME NEW y \in ToSet(s) PROVE y \in ToSet(w)
    <3>1. PICK i \in 1 .. Len(s) : s[i] = y
      BY <2>2 DEF ToSet
    <3>2. i \in DOMAIN w /\ w[i] = y
      BY <2>1, <2>2, <3>1
    <3> QED BY <3>2 DEF ToSet
  <2>5. ASSUME NEW y \in ToSet(t) PROVE y \in ToSet(w)
    <3>1. PICK i \in 1 .. Len(t) : t[i] = y
      BY <2>2 DEF ToSet
    <3>2. /\ Len(s) + i \in 1 .. Len(s) + Len(t)
          /\ ~(Len(s) + i <= Len(s)) /\ (Len(s) + i) - Len(s) = i
      BY <2>2
    <3>3. Len(s) + i \in DOMAIN w /\ w[Len(s) + i] = y
      BY <2>1, <3>1, <3>2
    <3> QED BY <3>3 DEF ToSet
  <2> QED BY <2>3, <2>4, <2>5 DEF w
<1>4. ASSUME s # <<>>
      PROVE  Head(s) \in ToSet(s) /\ ToSet(s) = {Head(s)} \cup ToSet(Tail(s))
  <2> DEFINE t == Tail(s)
  <2>1. /\ Len(s) \in Nat \ {0} /\ DOMAIN s = 1 .. Len(s) /\ Head(s) = s[1]
        /\ t \in Seq(X) /\ Len(t) = Len(s) - 1 /\ DOMAIN t = 1 .. Len(t)
        /\ \A i \in 1 .. Len(t) : t[i] = s[i + 1]
    BY <1>4, HeadTailProperties, EmptySeq, LenProperties
  <2> HIDE DEF t
  <2>2. Head(s) \in ToSet(s)
    BY <2>1 DEF ToSet
  <2>3. ASSUME NEW y \in ToSet(s) PROVE y \in {Head(s)} \cup ToSet(t)
    <3>1. PICK i \in 1 .. Len(s) : s[i] = y
      BY <2>1 DEF ToSet
    <3>2. CASE i # 1
      <4>1. i - 1 \in 1 .. Len(t) /\ (i - 1) + 1 = i
        BY <2>1, <3>2
      <4>2. t[i - 1] = y
        BY <2>1, <3>1, <4>1
      <4> QED BY <2>1, <4>1, <4>2 DEF ToSet
    <3> QED BY <2>1, <3>1, <3>2
  <2>4. ASSUME NEW y \in ToSet(t) PROVE y \in ToSet(s)
    <3>1. PICK i \in 1 .. Len(t) : t[i] = y
      BY <2>1 DEF ToSet
    <3>2. i + 1 \in 1 .. Len(s) /\ s[i + 1] = y
      BY <2>1, <3>1
    <3> QED BY <2>1, <3>2 DEF ToSet
  <2> QED BY <2>2, <2>3, <2>4 DEF t
<1> QED BY <1>1, <1>2, <1>3, <1>4

\* The elements of a sequence of sequences.
AllOf(ss) == UNION {ToSet(ss[i]) : i \in DOMAIN ss}

\* One more sequence, and all but the first.
LEMMA AllOfFacts ==
  ASSUME NEW X, NEW ss \in Seq(Seq(X))
  PROVE  /\ AllOf(ss) \subseteq X
         /\ \A s \in Seq(X) : AllOf(Append(ss, s)) = AllOf(ss) \cup ToSet(s)
         /\ \A s \in Seq(X) : AllOf(<<s>> \o ss) = ToSet(s) \cup AllOf(ss)
         /\ ss # <<>> => AllOf(ss) = ToSet(Head(ss)) \cup AllOf(Tail(ss))
<1>1. AllOf(ss) \subseteq X
  <2>1. ASSUME NEW i \in DOMAIN ss PROVE ToSet(ss[i]) \subseteq X
    <3>1. ss[i] \in Seq(X)
      OBVIOUS
    <3> QED BY <3>1, ElementsFacts
  <2> QED BY <2>1 DEF AllOf
<1>2. ASSUME NEW t \in Seq(Seq(X)) PROVE \A x : x \in AllOf(t) <=> \E s \in ToSet(t) : x \in ToSet(s)
  <2>1. \A s : s \in ToSet(t) <=> \E i \in DOMAIN t : s = t[i]
    BY DEF ToSet
  <2>2. \A x : x \in AllOf(t) <=> \E i \in DOMAIN t : x \in ToSet(t[i])
    BY DEF AllOf
  <2> QED BY <2>1, <2>2
<1>3. ASSUME NEW s \in Seq(X) PROVE AllOf(Append(ss, s)) = AllOf(ss) \cup ToSet(s)
  <2>1. Append(ss, s) \in Seq(Seq(X)) /\ ToSet(Append(ss, s)) = ToSet(ss) \cup {s}
    BY ElementsFacts, AppendProperties
  <2> QED BY <1>2, <2>1
<1>4. ASSUME ss # <<>> PROVE AllOf(ss) = ToSet(Head(ss)) \cup AllOf(Tail(ss))
  <2>1. Tail(ss) \in Seq(Seq(X)) /\ ToSet(ss) = {Head(ss)} \cup ToSet(Tail(ss))
    BY <1>4, ElementsFacts, HeadTailProperties
  <2> QED BY <1>2, <2>1
<1>5. ASSUME NEW s \in Seq(X) PROVE AllOf(<<s>> \o ss) = ToSet(s) \cup AllOf(ss)
  <2> DEFINE T == Seq(X)
             t == <<s>>
  <2>1. t \in Seq(T) /\ ss \in Seq(T) /\ ToSet(t) = {s}
    BY DEF ToSet
  <2> HIDE DEF T, t
  <2>2. t \o ss \in Seq(T) /\ ToSet(t \o ss) = {s} \cup ToSet(ss)
    BY <2>1, ElementsFacts, ConcatProperties
  <2> QED BY <1>2, <2>2 DEF T, t
<1> QED BY <1>1, <1>3, <1>4, <1>5

\* Flattening: what the sequences hold, in a sequence that grows with each.
LEMMA FlattenFacts ==
  ASSUME NEW X, NEW ss \in Seq(Seq(X))
  PROVE  /\ FlattenSeq(ss) \in Seq(X)
         /\ ToSet(FlattenSeq(ss)) = AllOf(ss)
         /\ \A s \in Seq(X) : FlattenSeq(Append(ss, s)) = FlattenSeq(ss) \o s
         /\ FlattenSeq(<<>>) = <<>>
<1> DEFINE Flat(t) == CHOOSE f : f = [i \in 1 .. Len(t) |-> IF i = 1 THEN t[i] ELSE f[i - 1] \o t[i]]
<1>1. ASSUME NEW t \in Seq(Seq(X))
      PROVE  Flat(t) = [i \in 1 .. Len(t) |-> IF i = 1 THEN t[i] ELSE Flat(t)[i - 1] \o t[i]]
  <2> DEFINE S == Seq(X)
             n == Len(t)
             Step(s, i) == IF i = 1 THEN t[i] ELSE s \o t[i]
             R == {<<i, s, Step(s, i)>> : i \in 1 .. n, s \in S}
  <2>1. n \in Nat /\ \A i \in 1 .. n : t[i] \in S
    OBVIOUS
  <2>2. \A i \in 1 .. n : \A s \in S : Step(s, i) \in S /\ <<i, s, Step(s, i)>> \in R
    BY <2>1, ConcatProperties
  <2>3. \A i \in 1 .. n : \A s, u \in S : <<i, s, u>> \in R => u = Step(s, i)
    OBVIOUS
  <2>4. <<>> \in S
    OBVIOUS
  <2>5. PICK f \in [0 .. n -> S] : f[0] = <<>> /\ \A i \in 1 .. n : <<i, f[i - 1], f[i]>> \in R
    <3> HIDE DEF S, n, R, Step
    <3>1. Goes(R, n, S)
      BY <2>2 DEF Goes
    <3>2. \E f : Upto(f, R, n, S, <<>>)
      BY <2>1, <2>4, <3>1, RoundsExist
    <3> QED BY <3>2 DEF Upto
  <2> DEFINE h == [i \in 1 .. Len(t) |-> f[i]]
  <2>6. ASSUME NEW i \in 1 .. Len(t)
        PROVE  h[i] = IF i = 1 THEN t[i] ELSE h[i - 1] \o t[i]
    <3>1. i - 1 \in 0 .. Len(t)
      BY <2>1
    <3>2. f[i - 1] \in Seq(X) /\ h[i] = f[i]
      BY <3>1
    <3>4. f[i] = IF i = 1 THEN t[i] ELSE f[i - 1] \o t[i]
      BY <2>3, <2>5, <3>1, <3>2
    <3>5. i # 1 => i - 1 \in 1 .. Len(t)
      BY <2>1
    <3>6. i # 1 => h[i - 1] = f[i - 1]
      BY <3>5
    <3> QED BY <3>2, <3>4, <3>6
  <2>7. h = [i \in 1 .. Len(t) |-> IF i = 1 THEN t[i] ELSE h[i - 1] \o t[i]]
    <3>1. h = [i \in 1 .. Len(t) |-> h[i]]
      OBVIOUS
    <3> HIDE DEF h
    <3> QED BY <2>6, <3>1
  <2> HIDE DEF h
  <2> QED BY <2>7
<1>2. ASSUME NEW t \in Seq(Seq(X))
      PROVE  /\ t = <<>> => FlattenSeq(t) = <<>>
             /\ t # <<>> => FlattenSeq(t) = Flat(t)[Len(t)] /\ Len(t) \in Nat \ {0}
             /\ t # <<>> => Flat(t)[1] = t[1]
             /\ \A i \in 2 .. Len(t) : Flat(t)[i] = Flat(t)[i - 1] \o t[i]
  <2>1. t = <<>> => Len(t) = 0
    OBVIOUS
  <2>2. t # <<>> => Len(t) \in Nat \ {0}
    BY EmptySeq
  <2>3. t # <<>> => FlattenSeq(t) = Flat(t)[Len(t)]
    BY <2>2 DEF FlattenSeq
  <2>4. t = <<>> => FlattenSeq(t) = <<>>
    BY <2>1 DEF FlattenSeq
  <2> HIDE DEF Flat
  <2>5. t # <<>> => 1 \in 1 .. Len(t)
    BY <2>2
  <2>6. \A i \in 2 .. Len(t) : i \in 1 .. Len(t) /\ i # 1
    OBVIOUS
  <2>7. t # <<>> => Flat(t)[1] = t[1]
    BY <1>1, <2>5
  <2>8. \A i \in 2 .. Len(t) : Flat(t)[i] = Flat(t)[i - 1] \o t[i]
    BY <1>1, <2>6
  <2> QED BY <2>2, <2>3, <2>4, <2>7, <2>8
<1> HIDE DEF Flat
\* The elements of the first i sequences.
<1> DEFINE First(t, i) == {x \in X : \E j \in 1 .. i : x \in ToSet(t[j])}
<1>3. ASSUME NEW t \in Seq(Seq(X)), NEW i \in 1 .. Len(t)
      PROVE  Flat(t)[i] \in Seq(X) /\ ToSet(Flat(t)[i]) = First(t, i)
  <2> DEFINE P == {k \in 0 .. Len(t) : k # 0 => Flat(t)[k] \in Seq(X) /\ ToSet(Flat(t)[k]) = First(t, k)}
  <2>1. 0 \in P /\ Len(t) \in Nat /\ t # <<>>
    OBVIOUS
  <2>2. ASSUME NEW k \in 1 .. Len(t), k - 1 \in P PROVE k \in P
    <3>1. t[k] \in Seq(X) /\ ToSet(t[k]) \subseteq X
      BY ElementsFacts
    <3>2. CASE k = 1
      <4>1. Flat(t)[1] = t[1]
        BY <1>2, <2>1
      <4>2. First(t, 1) = ToSet(t[1])
        BY <3>1, <3>2
      <4> HIDE DEF First
      <4> QED BY <3>1, <3>2, <4>1, <4>2
    <3>3. CASE k # 1
      <4>1. k \in 2 .. Len(t) /\ k - 1 # 0
        BY <3>3
      <4>2. Flat(t)[k - 1] \in Seq(X) /\ ToSet(Flat(t)[k - 1]) = First(t, k - 1)
        BY <2>2, <4>1
      <4>3. Flat(t)[k] = Flat(t)[k - 1] \o t[k]
        BY <1>2, <4>1
      <4>4. ToSet(Flat(t)[k]) = First(t, k - 1) \cup ToSet(t[k]) /\ Flat(t)[k] \in Seq(X)
        <5> HIDE DEF First
        <5> QED BY <3>1, <4>2, <4>3, ElementsFacts, ConcatProperties
      <4>5. \A j : j \in 1 .. k <=> j \in 1 .. (k - 1) \/ j = k
        OBVIOUS
      <4>6. First(t, k) = First(t, k - 1) \cup ToSet(t[k])
        BY <3>1, <4>5
      <4>7. k \in 0 .. Len(t)
        BY <2>1
      <4> HIDE DEF First
      <4> QED BY <4>4, <4>6, <4>7
    <3> QED BY <3>2, <3>3
  <2>3. \A k \in 0 .. Len(t) : k \in P
    <3> HIDE DEF P
    <3> QED BY <2>1, <2>2, CountingUp
  <2> HIDE DEF First
  <2> QED BY <2>3
<1>4. FlattenSeq(ss) \in Seq(X) /\ ToSet(FlattenSeq(ss)) = AllOf(ss)
  <2>1. CASE ss = <<>>
    <3>1. FlattenSeq(ss) = <<>>
      BY <1>2, <2>1
    <3>2. DOMAIN ss = {}
      BY <2>1
    <3>3. ToSet(ss) = {} /\ AllOf(ss) = {}
      BY <3>2 DEF AllOf, ToSet
    <3>4. FlattenSeq(ss) = ss /\ <<>> \in Seq(X)
      BY <2>1, <3>1
    <3> QED BY <2>1, <3>3, <3>4
  <2>2. CASE ss # <<>>
    <3>1. Len(ss) \in 1 .. Len(ss) /\ FlattenSeq(ss) = Flat(ss)[Len(ss)] 
      <4>1. FlattenSeq(ss) = Flat(ss)[Len(ss)] /\ Len(ss) \in Nat \ {0}
        BY <1>2, <2>2
      <4> QED BY <4>1
    <3>2. AllOf(ss) = First(ss, Len(ss))
      <4>1. AllOf(ss) \subseteq X
        BY AllOfFacts
      <4>2. DOMAIN ss = 1 .. Len(ss)
        OBVIOUS
      <4>3. \A x : x \in AllOf(ss) <=> \E j \in 1 .. Len(ss) : x \in ToSet(ss[j])
        BY <4>2 DEF AllOf
      <4> QED BY <4>1, <4>3
    <3> HIDE DEF First
    <3> QED BY <1>3, <3>1, <3>2
  <2> QED BY <2>1, <2>2
<1>5. ASSUME NEW s \in Seq(X) PROVE FlattenSeq(Append(ss, s)) = FlattenSeq(ss) \o s
  <2> DEFINE t == Append(ss, s)
  <2>1. /\ t \in Seq(Seq(X)) /\ t # <<>> /\ Len(t) = Len(ss) + 1 /\ Len(ss) \in Nat
        /\ t[Len(t)] = s /\ \A i \in 1 .. Len(ss) : t[i] = ss[i]
    BY AppendProperties
  <2> HIDE DEF t
  <2>2. FlattenSeq(t) = Flat(t)[Len(t)]
    BY <1>2, <2>1
  <2>3. CASE ss = <<>>
    <3>1. Len(t) = 1
      BY <2>1, <2>3
    <3>2. FlattenSeq(t) = s
      BY <1>2, <2>1, <2>2, <3>1
    <3>3. FlattenSeq(ss) = <<>>
      BY <1>2, <2>3
    <3> QED BY <3>2, <3>3, ConcatEmptySeq DEF t
  <2>4. CASE ss # <<>>
    <3>0. /\ FlattenSeq(ss) = Flat(ss)[Len(ss)] /\ Flat(ss)[1] = ss[1] /\ Flat(t)[1] = t[1]
          /\ \A i \in 2 .. Len(ss) : Flat(ss)[i] = Flat(ss)[i - 1] \o ss[i]
          /\ \A i \in 2 .. Len(t) : Flat(t)[i] = Flat(t)[i - 1] \o t[i]
      <4>1. /\ FlattenSeq(ss) = Flat(ss)[Len(ss)] /\ Flat(ss)[1] = ss[1]
            /\ \A i \in 2 .. Len(ss) : Flat(ss)[i] = Flat(ss)[i - 1] \o ss[i]
        BY <1>2, <2>4
      <4>2. Flat(t)[1] = t[1] /\ \A i \in 2 .. Len(t) : Flat(t)[i] = Flat(t)[i - 1] \o t[i]
        BY <1>2, <2>1
      <4> QED BY <4>1, <4>2
    <3> DEFINE P == {k \in 0 .. Len(ss) : k # 0 => Flat(t)[k] = Flat(ss)[k]}
    <3>1. 0 \in P /\ Len(ss) \in Nat \ {0}
      BY <2>1, <2>4, EmptySeq
    <3>2. ASSUME NEW k \in 1 .. Len(ss), k - 1 \in P PROVE k \in P
      <4>1. CASE k = 1
        BY <2>1, <3>0, <3>1, <4>1
      <4>2. CASE k # 1
        <5>1. k \in 2 .. Len(ss) /\ k \in 2 .. Len(t) /\ k - 1 # 0
          BY <2>1, <4>2
        <5>2. Flat(t)[k] = Flat(t)[k - 1] \o t[k] /\ Flat(ss)[k] = Flat(ss)[k - 1] \o ss[k]
          BY <3>0, <5>1
        <5>3. Flat(t)[k - 1] = Flat(ss)[k - 1] /\ t[k] = ss[k]
          BY <2>1, <3>2, <5>1
        <5>4. k \in 0 .. Len(ss)
          BY <3>1
        <5> QED BY <5>2, <5>3, <5>4
      <4> QED BY <4>1, <4>2
    <3>3. \A k \in 0 .. Len(ss) : k \in P
      <4> HIDE DEF P
      <4> QED BY <3>1, <3>2, CountingUp
    <3>4. Flat(t)[Len(ss)] = FlattenSeq(ss)
      BY <3>0, <3>1, <3>3
    <3>5. Len(t) \in 2 .. Len(t) /\ Len(t) - 1 = Len(ss)
      BY <2>1, <3>1
    <3>6. Flat(t)[Len(t)] = Flat(t)[Len(ss)] \o t[Len(t)]
      BY <3>0, <3>5
    <3> QED BY <2>1, <2>2, <3>4, <3>6 DEF t
  <2> QED BY <2>3, <2>4
<1>6. FlattenSeq(<<>>) = <<>>
  <2>1. <<>> \in Seq(Seq(X))
    OBVIOUS
  <2> QED BY <1>2, <2>1
<1> QED BY <1>4, <1>5, <1>6

-----------------------------------------------------------------------------
(* Names, edges and files *)

\* A row, and the names that rows mention.
Row == Nat \X Nat
NamesIn(rs) == {rs[i][1] : i \in DOMAIN rs} \cup {rs[i][2] : i \in DOMAIN rs}

\* See keeps names in a sequence without repetition.
LEMMA SeeFacts ==
  ASSUME NEW names \in Seq(Nat), IsInjective(names), NEW x \in Nat
  PROVE  /\ See(names, x) \in Seq(Nat) /\ IsInjective(See(names, x))
         /\ ToSet(See(names, x)) = ToSet(names) \cup {x}
<1>1. CASE x \in ToSet(names)
  BY <1>1 DEF See
<1>2. CASE x \notin ToSet(names)
  <2> DEFINE s == Append(names, x)
  <2>1. See(names, x) = s
    BY <1>2 DEF See
  <2>2. /\ s \in Seq(Nat) /\ Len(names) \in Nat /\ Len(s) = Len(names) + 1
        /\ DOMAIN s = 1 .. Len(s) /\ DOMAIN names = 1 .. Len(names)
        /\ s[Len(names) + 1] = x /\ \A i \in 1 .. Len(names) : s[i] = names[i]
    OBVIOUS
  <2>3. ToSet(s) = ToSet(names) \cup {x}
    BY ElementsFacts
  <2> HIDE DEF s
  <2>4. \A i \in 1 .. Len(names) : s[i] # x
    BY <1>2, <2>2 DEF ToSet
  <2>5. \A i \in DOMAIN s : i \in 1 .. Len(names) \/ i = Len(names) + 1
    BY <2>2
  <2>6. ASSUME NEW i \in DOMAIN s, NEW j \in DOMAIN s, s[i] = s[j] PROVE i = j
    BY <2>2, <2>4, <2>5, <2>6 DEF IsInjective
  <2>7. IsInjective(s)
    BY <2>6 DEF IsInjective
  <2> QED BY <2>1, <2>2, <2>3, <2>7
<1> QED BY <1>1, <1>2

\* FirstSeen lists the names of the rows, each once.
LEMMA FirstSeenFacts ==
  ASSUME NEW rs \in Seq(Row)
  PROVE  /\ FirstSeen(rs) \in Seq(Nat) /\ IsInjective(FirstSeen(rs))
         /\ ToSet(FirstSeen(rs)) = NamesIn(rs)
<1> DEFINE n == Len(rs)
           Step(names, i) == See(See(names, rs[i][1]), rs[i][2])
           Good(names) == names \in Seq(Nat) /\ IsInjective(names)
           S == {names \in Seq(Nat) : Good(names)}
           R == {<<i, s, Step(s, i)>> : i \in 1 .. n, s \in S}
           f == CHOOSE f : f = [i \in 0 .. n |-> IF i = 0 THEN <<>> ELSE Step(f[i - 1], i)]
<1>1. n \in Nat /\ DOMAIN rs = 1 .. n /\ \A i \in 1 .. n : rs[i][1] \in Nat /\ rs[i][2] \in Nat
  BY DEF Row
<1>2. <<>> \in S /\ ToSet(<<>>) = {}
  BY DEF IsInjective, ToSet
<1>3. ASSUME NEW i \in 1 .. n, NEW s \in S
      PROVE  /\ Step(s, i) \in S
             /\ ToSet(Step(s, i)) = ToSet(s) \cup {rs[i][1], rs[i][2]}
  <2>1. s \in Seq(Nat) /\ IsInjective(s)
    OBVIOUS
  <2> DEFINE t == See(s, rs[i][1])
  <2>2. t \in Seq(Nat) /\ IsInjective(t) /\ ToSet(t) = ToSet(s) \cup {rs[i][1]}
    BY <1>1, <2>1, SeeFacts
  <2> HIDE DEF t
  <2> DEFINE u == See(t, rs[i][2])
  <2>3. u \in Seq(Nat) /\ IsInjective(u) /\ ToSet(u) = ToSet(t) \cup {rs[i][2]}
    BY <1>1, <2>2, SeeFacts
  <2>4. u = Step(s, i)
    BY DEF t
  <2> HIDE DEF u, Step
  <2> QED BY <2>2, <2>3, <2>4
<1>4. f = [i \in 0 .. n |-> IF i = 0 THEN <<>> ELSE Step(f[i - 1], i)]
  <2>1. \A i \in 1 .. n : \A s \in S : <<i, s, Step(s, i)>> \in R
    OBVIOUS
  <2>2. \A i \in 1 .. n : \A s, t : <<i, s, t>> \in R => t = Step(s, i)
    OBVIOUS
  <2> HIDE DEF f, S, R, Step, n
  <2>3. Goes(R, n, S)
    BY <1>3, <2>1 DEF Goes
  <2>4. PICK h : Upto(h, R, n, S, <<>>)
    BY <1>1, <1>2, <2>3, RoundsExist
  <2>5. \A i \in 0 .. n : h[i] = IF i = 0 THEN <<>> ELSE Step(h[i - 1], i)
    <3>1. \A i \in 0 .. n : i = 0 \/ i \in 1 .. n
      BY <1>1
    <3> QED BY <2>2, <2>4, <3>1 DEF Upto
  <2>6. h = [i \in 0 .. n |-> h[i]]
    BY <2>4 DEF Upto
  <2>7. h = [i \in 0 .. n |-> IF i = 0 THEN <<>> ELSE Step(h[i - 1], i)]
    BY <2>5, <2>6
  <2> QED BY <2>7 DEF f
<1>5. FirstSeen(rs) = f[n]
  BY DEF FirstSeen
<1> HIDE DEF f
<1> DEFINE P == {k \in 0 .. n : /\ f[k] \in S
                                /\ ToSet(f[k]) = {rs[i][1] : i \in 1 .. k} \cup {rs[i][2] : i \in 1 .. k}}
<1>6. 0 \in P
  <2>1. f[0] = <<>> /\ 0 \in 0 .. n /\ 1 .. 0 = {}
    BY <1>1, <1>4
  <2> HIDE DEF S, Step, n
  <2> QED BY <1>2, <2>1
<1>7. ASSUME NEW k \in 1 .. n, k - 1 \in P PROVE k \in P
  <2>1. k \in 0 .. n /\ k # 0
    BY <1>1
  <2>2. f[k] = Step(f[k - 1], k)
    BY <1>4, <2>1
  <2> HIDE DEF S, Step, n
  <2>3. /\ f[k] \in S
        /\ ToSet(f[k]) = ToSet(f[k - 1]) \cup {rs[k][1], rs[k][2]}
    BY <1>3, <1>7, <2>2
  <2>4. \A i : i \in 1 .. k <=> i \in 1 .. (k - 1) \/ i = k
    BY <1>1
  <2>5. ToSet(f[k]) = {rs[i][1] : i \in 1 .. k} \cup {rs[i][2] : i \in 1 .. k}
    BY <1>7, <2>3, <2>4
  <2> QED BY <2>1, <2>3, <2>5
<1>8. n \in P
  <2> HIDE DEF P, n
  <2>1. \A k \in 0 .. n : k \in P
    BY <1>1, <1>6, <1>7, CountingUp
  <2> QED BY <1>1, <2>1
<1> QED BY <1>1, <1>5, <1>8 DEF NamesIn

\* The ids of names.
LEMMA IdInFacts ==
  ASSUME NEW names \in Seq(Nat), NEW x
  PROVE  /\ IdIn(names, x) \in Nat
         /\ x \in ToSet(names) => IdIn(names, x) \in 0 .. Len(names) - 1 /\ names[IdIn(names, x) + 1] = x
<1>1. CASE x \notin ToSet(names)
  BY <1>1 DEF IdIn
<1>2. CASE x \in ToSet(names)
  <2>1. DOMAIN names = 1 .. Len(names) /\ Len(names) \in Nat
    OBVIOUS
  <2>2. \E i \in DOMAIN names : names[i] = x
    BY <1>2 DEF ToSet
  <2>3. PICK k \in DOMAIN names : names[k] = x /\ k = CHOOSE i \in DOMAIN names : names[i] = x
    BY <2>2
  <2>4. IdIn(names, x) = k - 1
    BY <1>2, <2>3 DEF IdIn
  <2>5. k - 1 \in 0 .. Len(names) - 1 /\ (k - 1) + 1 = k
    BY <2>1
  <2> QED BY <2>1, <2>3, <2>4, <2>5
<1> QED BY <1>1, <1>2

(* Edges *)

\* The pairs that can be edges.
Links == {e \in SUBSET Nat : \E u, v \in Nat : u # v /\ e = {u, v}}

\* The edges of the rows from a to b.
Between(rs, a, b) == {{rs[i][1], rs[i][2]} : i \in {j \in a .. b : rs[j][1] # rs[j][2]}}

\* The edges of a part of the rows.
LEMMA EdgesOfPart ==
  ASSUME NEW rs \in Seq(Row), NEW a \in Nat \ {0}, NEW b \in Nat, b <= Len(rs)
  PROVE  EdgesOf(SubSeq(rs, a, b)) = Between(rs, a, b)
<1> DEFINE s == SubSeq(rs, a, b)
<1>1. \A i \in a .. b : i \in 1 .. Len(rs) /\ rs[i] \in Row
  OBVIOUS
<1>2. /\ s \in Seq(Row) /\ Len(s) = IF a <= b THEN b - a + 1 ELSE 0
      /\ \A i \in 1 .. (b - a + 1) : s[i] = rs[a + i - 1]
  <2>1. a \in Int /\ b \in Int
    OBVIOUS
  <2> QED BY <1>1, <2>1, SubSeqProperties
<1>3. DOMAIN s = 1 .. Len(s)
  BY <1>2
<1> HIDE DEF s
<1>4. ASSUME NEW q \in ToSet(s) PROVE \E i \in a .. b : q = rs[i]
  <2>1. PICK k \in DOMAIN s : q = s[k]
    BY DEF ToSet
  <2>2. k \in 1 .. (b - a + 1) /\ a + k - 1 \in a .. b
    BY <1>2, <1>3
  <2> QED BY <1>2, <2>1, <2>2
<1>5. ASSUME NEW i \in a .. b PROVE rs[i] \in ToSet(s)
  <2>1. i - a + 1 \in 1 .. (b - a + 1) /\ a + (i - a + 1) - 1 = i /\ a <= b
    OBVIOUS
  <2>2. i - a + 1 \in DOMAIN s /\ s[i - a + 1] = rs[i]
    BY <1>2, <1>3, <2>1
  <2> QED BY <2>2 DEF ToSet
<1>6. ASSUME NEW e \in EdgesOf(s) PROVE e \in Between(rs, a, b)
  BY <1>4 DEF EdgesOf, Between
<1>7. ASSUME NEW e \in Between(rs, a, b) PROVE e \in EdgesOf(s)
  BY <1>5 DEF EdgesOf, Between
<1> QED BY <1>6, <1>7 DEF s

\* One more row at either end.
LEMMA BetweenFacts ==
  ASSUME NEW rs \in Seq(Row), NEW a \in Nat \ {0}, NEW b \in Nat, b <= Len(rs)
  PROVE  /\ Between(rs, a, b) \subseteq Links /\ IsFiniteSet(Between(rs, a, b))
         /\ a <= b => Between(rs, a, b) = Between(rs, a, b - 1) \cup Between(rs, b, b)
         /\ a <= b => Between(rs, a, b) = Between(rs, a + 1, b) \cup Between(rs, a, a)
         /\ a > b => Between(rs, a, b) = {}
         /\ b # 0 => Between(rs, b, b) = IF rs[b][1] = rs[b][2] THEN {} ELSE {{rs[b][1], rs[b][2]}}
<1>1. \A i \in a .. b : rs[i][1] \in Nat /\ rs[i][2] \in Nat
  BY DEF Row
<1>2. Between(rs, a, b) \subseteq Links
  BY <1>1 DEF Between, Links
<1>3. IsFiniteSet(Between(rs, a, b))
  <2> DEFINE I == {j \in a .. b : rs[j][1] # rs[j][2]}
             F(i) == {rs[i][1], rs[i][2]}
             h == [i \in I |-> F(i)]
  <2>1. a \in Int /\ b \in Int
    OBVIOUS
  <2>2. IsFiniteSet(a .. b)
    BY <2>1, FS_Interval
  <2>3. IsFiniteSet(I)
    BY <2>2, FS_Subset
  <2>4. h \in [I -> Between(rs, a, b)] /\ \A e \in Between(rs, a, b) : \E i \in I : h[i] = e
    BY DEF Between
  <2>5. h \in Surjection(I, Between(rs, a, b))
    <3> HIDE DEF h, I
    <3> QED BY <2>4, Fun_IsSurj
  <2> QED BY <2>3, <2>5, FS_Surjection
<1>4. ASSUME a <= b PROVE \A i : i \in a .. b <=> i \in a .. (b - 1) \/ i \in b .. b
  BY <1>4
<1>5. ASSUME a <= b PROVE \A i : i \in a .. b <=> i \in (a + 1) .. b \/ i \in a .. a
  BY <1>5
<1>6. a > b => a .. b = {}
  OBVIOUS
<1>7. b .. b = {b}
  OBVIOUS
<1> QED BY <1>2, <1>3, <1>4, <1>5, <1>6, <1>7 DEF Between

\* Loading a graph: vertices from 0 on, edges between two of them, and under its
\* name every row that is an edge.
LEMMA LoadedFacts ==
  ASSUME NEW rs \in Seq(Row)
  PROVE  LET h == Loaded(rs) IN
         /\ h.n \in Nat /\ h.n = Len(FirstSeen(rs)) /\ h.names = FirstSeen(rs)
         /\ h.edges \subseteq Links /\ IsFiniteSet(h.edges)
         /\ \A e \in h.edges : e \subseteq 0 .. h.n - 1
         /\ {{h.names[v + 1] : v \in e} : e \in h.edges} = EdgesOf(rs)
<1> DEFINE names == FirstSeen(rs)
           ids == [i \in DOMAIN rs |-> <<IdIn(names, rs[i][1]), IdIn(names, rs[i][2])>>]
           h == Loaded(rs)
<1>1. h.n = Len(names) /\ h.names = names /\ h.edges = EdgesOf(ids)
  BY DEF Loaded
<1>2. names \in Seq(Nat) /\ Len(names) \in Nat /\ ToSet(names) = NamesIn(rs)
  BY FirstSeenFacts
<1>3. DOMAIN rs = 1 .. Len(rs) /\ Len(rs) \in Nat
      /\ \A i \in 1 .. Len(rs) : rs[i] \in Row /\ rs[i][1] \in NamesIn(rs) /\ rs[i][2] \in NamesIn(rs)
  BY DEF NamesIn
<1> HIDE DEF h, names
<1>4. \A i \in 1 .. Len(rs) :
        /\ ids[i] = <<IdIn(names, rs[i][1]), IdIn(names, rs[i][2])>>
        /\ ids[i][1] \in 0 .. Len(names) - 1 /\ ids[i][2] \in 0 .. Len(names) - 1
        /\ names[ids[i][1] + 1] = rs[i][1] /\ names[ids[i][2] + 1] = rs[i][2]
  BY <1>2, <1>3, IdInFacts
<1>5. ids \in Seq(Row) /\ DOMAIN ids = 1 .. Len(rs) /\ Len(ids) = Len(rs)
  <2>1. \A i \in 1 .. Len(rs) : <<IdIn(names, rs[i][1]), IdIn(names, rs[i][2])>> \in Row
    BY <1>2, IdInFacts DEF Row
  <2>2. ids \in [1 .. Len(rs) -> Row]
    BY <1>3, <2>1
  <2> HIDE DEF ids
  <2> QED BY <1>3, <2>2, SeqDef
<1> HIDE DEF ids
<1>6. \A i \in 1 .. Len(rs) : ids[i][1] = ids[i][2] <=> rs[i][1] = rs[i][2]
  <2>1. ASSUME NEW i \in 1 .. Len(rs), rs[i][1] = rs[i][2] PROVE ids[i][1] = ids[i][2]
    BY <1>4, <2>1
  <2> QED BY <1>4, <2>1
<1>7. \A e : e \in h.edges <=> \E i \in 1 .. Len(rs) : rs[i][1] # rs[i][2] /\ e = {ids[i][1], ids[i][2]}
  BY <1>1, <1>5, <1>6 DEF EdgesOf, ToSet
<1>8. \A e : e \in EdgesOf(rs) <=> \E i \in 1 .. Len(rs) : rs[i][1] # rs[i][2] /\ e = {rs[i][1], rs[i][2]}
  BY <1>3 DEF EdgesOf, ToSet
<1>9. h.edges \subseteq Links /\ IsFiniteSet(h.edges)
  <2>1. SubSeq(ids, 1, Len(ids)) = ids
    BY <1>5, SubSeqFull
  <2>2. h.edges = Between(ids, 1, Len(ids))
    <3>1. 1 \in Nat \ {0} /\ Len(ids) \in Nat
      BY <1>3, <1>5
    <3>2. EdgesOf(SubSeq(ids, 1, Len(ids))) = Between(ids, 1, Len(ids))
      BY <1>5, <3>1, EdgesOfPart
    <3> QED BY <1>1, <2>1, <3>2
  <2> QED BY <1>3, <1>5, <2>2, BetweenFacts
<1>10. \A e \in h.edges : e \subseteq 0 .. Len(names) - 1
  BY <1>4, <1>7
<1>11. \A i \in 1 .. Len(rs) : {names[v + 1] : v \in {ids[i][1], ids[i][2]}} = {rs[i][1], rs[i][2]}
  BY <1>4
<1>12. {{names[v + 1] : v \in e} : e \in h.edges} = EdgesOf(rs)
  <2>1. ASSUME NEW e \in h.edges PROVE {names[v + 1] : v \in e} \in EdgesOf(rs)
    <3>1. PICK i \in 1 .. Len(rs) : rs[i][1] # rs[i][2] /\ e = {ids[i][1], ids[i][2]}
      BY <1>7
    <3>2. {names[v + 1] : v \in e} = {rs[i][1], rs[i][2]}
      BY <1>11, <3>1
    <3> QED BY <1>8, <3>1, <3>2
  <2>2. ASSUME NEW d \in EdgesOf(rs) PROVE \E e \in h.edges : d = {names[v + 1] : v \in e}
    <3>1. PICK i \in 1 .. Len(rs) : rs[i][1] # rs[i][2] /\ d = {rs[i][1], rs[i][2]}
      BY <1>8
    <3>2. {ids[i][1], ids[i][2]} \in h.edges
      BY <1>7, <3>1
    <3>3. {names[v + 1] : v \in {ids[i][1], ids[i][2]}} = d
      BY <1>11, <3>1
    <3> QED BY <3>2, <3>3
  <2> QED BY <2>1, <2>2
<1> QED BY <1>1, <1>2, <1>9, <1>10, <1>12 DEF h, names

(* Files *)

\* The operations on links, the batches that a reader makes of them, and the lines
\* of a stream file.
Ops == [del : BOOLEAN, edge : Links]
Batch == Seq(Ops) \ {<<>>}
Line == Ops \cup {Header}

\* A reader tells a header from an operation.
LEMMA HeaderIsNoOp == Header \notin Ops /\ \A o \in Ops : o # Header
<1>1. ASSUME NEW o \in Ops, o = Header PROVE FALSE
  <2>1. "del" \in DOMAIN o
    BY DEF Ops
  <2>2. DOMAIN Header = {"header"}
    BY DEF Header
  <2> QED BY <1>1, <2>1, <2>2
<1> QED BY <1>1

\* Batches are sequences of operations.
LEMMA BatchSeq ==
  ASSUME NEW bs \in Seq(Batch)
  PROVE  bs \in Seq(Seq(Ops)) /\ \A i \in DOMAIN bs : bs[i] # <<>>
<1>1. Batch \subseteq Seq(Ops)
  BY DEF Batch
<1>2. bs \in Seq(Seq(Ops))
  BY <1>1, SeqMonotonic
<1>3. \A i \in DOMAIN bs : bs[i] \in Batch
  OBVIOUS
<1> QED BY <1>2, <1>3 DEF Batch

\* What save_stream writes: the operations of the batches, and headers.
LEMMA StreamTextFacts ==
  ASSUME NEW bs \in Seq(Seq(Ops))
  PROVE  /\ StreamText(bs) \in Seq(Line)
         /\ ToSet(StreamText(bs)) \ {Header} = AllOf(bs)
<1> DEFINE hs == [i \in DOMAIN bs |-> <<Header>> \o bs[i]]
<1>1. DOMAIN bs = 1 .. Len(bs) /\ Len(bs) \in Nat /\ \A i \in 1 .. Len(bs) : bs[i] \in Seq(Ops)
  OBVIOUS
<1>2. Ops \subseteq Line /\ <<Header>> \in Seq(Line) /\ ToSet(<<Header>>) = {Header}
  BY DEF Line, ToSet
<1>3. ASSUME NEW i \in 1 .. Len(bs)
      PROVE  /\ <<Header>> \o bs[i] \in Seq(Line)
             /\ ToSet(<<Header>> \o bs[i]) = {Header} \cup ToSet(bs[i])
             /\ ToSet(bs[i]) \subseteq Ops
  <2>1. bs[i] \in Seq(Ops) /\ bs[i] \in Seq(Line)
    BY <1>1, <1>2, SeqMonotonic
  <2>2. ToSet(bs[i]) \subseteq Ops
    BY <2>1, ElementsFacts
  <2>3. <<Header>> \o bs[i] \in Seq(Line)
    BY <1>2, <2>1, ConcatProperties
  <2>4. ToSet(<<Header>> \o bs[i]) = ToSet(<<Header>>) \cup ToSet(bs[i])
    <3> DEFINE s == <<Header>>
               t == bs[i]
    <3>1. s \in Seq(Line) /\ t \in Seq(Line)
      BY <1>2, <2>1
    <3> HIDE DEF s, t
    <3>2. ToSet(s \o t) = ToSet(s) \cup ToSet(t)
      BY <3>1, ElementsFacts
    <3> QED BY <3>2 DEF s, t
  <2> QED BY <1>2, <2>2, <2>3, <2>4
<1>4. hs \in [1 .. Len(bs) -> Seq(Line)]
  BY <1>1, <1>3
<1>5. hs \in Seq(Seq(Line))
  <2> DEFINE T == Seq(Line)
  <2>1. hs \in [1 .. Len(bs) -> T] /\ Len(bs) \in Nat
    BY <1>1, <1>4
  <2> DEFINE m == Len(bs)
  <2> HIDE DEF hs, T, m
  <2>2. hs \in [1 .. m -> T] /\ m \in Nat
    BY <2>1 DEF m
  <2>3. hs \in Seq(T)
    BY <2>2, SeqDef
  <2> QED BY <2>3 DEF T
<1>6. StreamText(bs) = FlattenSeq(hs)
  BY DEF StreamText
<1>7. \A x : x \in AllOf(hs) <=> \E i \in 1 .. Len(bs) : x \in {Header} \cup ToSet(bs[i])
  <2>1. DOMAIN hs = 1 .. Len(bs) /\ \A i \in 1 .. Len(bs) : ToSet(hs[i]) = {Header} \cup ToSet(bs[i])
    BY <1>1, <1>3
  <2> HIDE DEF hs
  <2> QED BY <2>1 DEF AllOf
<1>8. \A x : x \in AllOf(bs) <=> \E i \in 1 .. Len(bs) : x \in ToSet(bs[i])
  BY <1>1 DEF AllOf
<1> HIDE DEF hs
<1>9. FlattenSeq(hs) \in Seq(Line) /\ ToSet(FlattenSeq(hs)) = AllOf(hs)
  BY <1>5, FlattenFacts
<1>10. AllOf(hs) \ {Header} = AllOf(bs)
  BY <1>3, <1>7, <1>8, HeaderIsNoOp
<1> QED BY <1>6, <1>9, <1>10

\* Flushed loses nothing and leaves no batch empty.
LEMMA FlushedFacts ==
  ASSUME NEW done \in Seq(Batch), NEW rest \in Seq(Ops)
  PROVE  LET f == Flushed([done |-> done, cur |-> rest])
         IN  f \in Seq(Batch) /\ AllOf(f) = AllOf(done) \cup ToSet(rest)
<1> DEFINE f == Flushed([done |-> done, cur |-> rest])
<1>1. done \in Seq(Seq(Ops))
  BY BatchSeq
<1>2. CASE rest = <<>>
  <2>1. f = done /\ ToSet(rest) = {}
    BY <1>2 DEF Flushed, ToSet
  <2> QED BY <2>1
<1>3. CASE rest # <<>>
  <2>1. f = Append(done, rest)
    BY <1>3 DEF Flushed
  <2>2. rest \in Batch
    BY <1>3 DEF Batch
  <2>3. Append(done, rest) \in Seq(Batch)
    BY <2>2, AppendProperties
  <2>4. AllOf(Append(done, rest)) = AllOf(done) \cup ToSet(rest)
    BY <1>1, AllOfFacts
  <2> QED BY <2>1, <2>3, <2>4
<1> QED BY <1>2, <1>3

\* What load_stream reads: the operations of the file, in batches of which none is
\* empty.
LEMMA ParsedFacts ==
  ASSUME NEW lines \in Seq(Line)
  PROVE  Parsed(lines) \in Seq(Batch) /\ AllOf(Parsed(lines)) = ToSet(lines) \ {Header}
<1> DEFINE n == Len(lines)
           S == [done : Seq(Batch), cur : Seq(Ops)]
           s0 == [done |-> <<>>, cur |-> <<>>]
           Step(s, i) == IF lines[i] = Header THEN [done |-> Flushed(s), cur |-> <<>>]
                         ELSE [s EXCEPT !.cur = Append(@, lines[i])]
           R == {<<i, s, Step(s, i)>> : i \in 1 .. n, s \in S}
           f == CHOOSE f : f = [i \in 0 .. n |-> IF i = 0 THEN s0 ELSE Step(f[i - 1], i)]
           Held(s) == AllOf(s.done) \cup ToSet(s.cur)
<1>1. n \in Nat /\ DOMAIN lines = 1 .. n /\ \A i \in 1 .. n : lines[i] \in Line
  OBVIOUS
<1>2. s0 \in S /\ Held(s0) = {}
  <2>1. AllOf(<<>>) = {} /\ ToSet(<<>>) = {}
    BY DEF AllOf, ToSet
  <2>2. <<>> \in Seq(Batch) /\ <<>> \in Seq(Ops)
    OBVIOUS
  <2> QED BY <2>1, <2>2
<1>3. ASSUME NEW i \in 1 .. n, NEW s \in S
      PROVE  Step(s, i) \in S /\ Held(Step(s, i)) = Held(s) \cup ({lines[i]} \ {Header})
  <2>1. s.done \in Seq(Batch) /\ s.cur \in Seq(Ops) /\ s = [done |-> s.done, cur |-> s.cur]
    OBVIOUS
  <2>2. CASE lines[i] = Header
    <3>1. Step(s, i) = [done |-> Flushed(s), cur |-> <<>>]
      BY <2>2
    <3>2. Flushed(s) \in Seq(Batch) /\ AllOf(Flushed(s)) = Held(s)
      BY <2>1, FlushedFacts
    <3>3. <<>> \in Seq(Ops) /\ ToSet(<<>>) = {}
      BY DEF ToSet
    <3>4. Step(s, i).done = Flushed(s) /\ Step(s, i).cur = <<>> /\ Step(s, i) \in S
      BY <3>1, <3>2, <3>3
    <3>5. Held(Step(s, i)) = Held(s)
      BY <3>2, <3>3, <3>4
    <3> QED BY <2>2, <3>4, <3>5
  <2>3. CASE lines[i] # Header
    <3>1. lines[i] \in Ops
      BY <1>1, <2>3 DEF Line
    <3>2. Step(s, i) = [done |-> s.done, cur |-> Append(s.cur, lines[i])]
      BY <2>1, <2>3
    <3>3. /\ Append(s.cur, lines[i]) \in Seq(Ops)
          /\ ToSet(Append(s.cur, lines[i])) = ToSet(s.cur) \cup {lines[i]}
      BY <2>1, <3>1, ElementsFacts, AppendProperties
    <3>4. Step(s, i).done = s.done /\ Step(s, i).cur = Append(s.cur, lines[i]) /\ Step(s, i) \in S
      BY <2>1, <3>2, <3>3
    <3>5. Held(Step(s, i)) = Held(s) \cup {lines[i]}
      BY <3>3, <3>4
    <3> QED BY <2>3, <3>4, <3>5
  <2> QED BY <2>2, <2>3
<1>4. f = [i \in 0 .. n |-> IF i = 0 THEN s0 ELSE Step(f[i - 1], i)]
  <2> HIDE DEF S, Step, n, s0
  <2>1. \A i \in 1 .. n : \A s \in S : <<i, s, Step(s, i)>> \in R
    OBVIOUS
  <2>2. \A i \in 1 .. n : \A s, t : <<i, s, t>> \in R => t = Step(s, i)
    OBVIOUS
  <2> HIDE DEF f, S, R, Step, n, s0
  <2>3. Goes(R, n, S)
    BY <1>3, <2>1 DEF Goes
  <2>4. PICK h : Upto(h, R, n, S, s0)
    BY <1>1, <1>2, <2>3, RoundsExist
  <2>5. \A i \in 0 .. n : h[i] = IF i = 0 THEN s0 ELSE Step(h[i - 1], i)
    <3>1. \A i \in 0 .. n : i = 0 \/ i \in 1 .. n
      BY <1>1
    <3> QED BY <2>2, <2>4, <3>1 DEF Upto
  <2>6. h = [i \in 0 .. n |-> h[i]]
    BY <2>4 DEF Upto
  <2>7. h = [i \in 0 .. n |-> IF i = 0 THEN s0 ELSE Step(h[i - 1], i)]
    BY <2>5, <2>6
  <2> QED BY <2>7 DEF f
<1>5. Parsed(lines) = Flushed(f[n])
  BY DEF Parsed
<1> HIDE DEF f
<1> DEFINE P == {k \in 0 .. n : f[k] \in S /\ Held(f[k]) = {lines[i] : i \in 1 .. k} \ {Header}}
<1>6. 0 \in P
  <2>1. f[0] = s0 /\ 0 \in 0 .. n /\ 1 .. 0 = {}
    BY <1>1, <1>4
  <2> HIDE DEF S, Step, n, s0, Held
  <2> QED BY <1>2, <2>1
<1>7. ASSUME NEW k \in 1 .. n, k - 1 \in P PROVE k \in P
  <2>1. k \in 0 .. n /\ k # 0
    BY <1>1
  <2>2. f[k] = Step(f[k - 1], k)
    BY <1>4, <2>1
  <2> HIDE DEF S, Step, n, Held
  <2>3. f[k] \in S /\ Held(f[k]) = Held(f[k - 1]) \cup ({lines[k]} \ {Header})
    BY <1>3, <1>7, <2>2
  <2>4. \A i : i \in 1 .. k <=> i \in 1 .. (k - 1) \/ i = k
    BY <1>1
  <2>5. Held(f[k]) = {lines[i] : i \in 1 .. k} \ {Header}
    BY <1>7, <2>3, <2>4
  <2> QED BY <2>1, <2>3, <2>5
<1>8. f[n] \in S /\ Held(f[n]) = ToSet(lines) \ {Header}
  <2>1. \A k \in 0 .. n : k \in P
    <3> HIDE DEF P, n
    <3> QED BY <1>1, <1>6, <1>7, CountingUp
  <2>2. n \in 0 .. n
    BY <1>1
  <2> HIDE DEF S, Held
  <2>3. f[n] \in S /\ Held(f[n]) = {lines[i] : i \in 1 .. n} \ {Header}
    BY <2>1, <2>2
  <2> QED BY <1>1, <2>3 DEF ToSet
<1>9. /\ f[n].done \in Seq(Batch) /\ f[n].cur \in Seq(Ops)
      /\ f[n] = [done |-> f[n].done, cur |-> f[n].cur]
  <2> HIDE DEF Held, n
  <2> QED BY <1>8
<1>10. Flushed(f[n]) \in Seq(Batch) /\ AllOf(Flushed(f[n])) = Held(f[n])
  <2> HIDE DEF n
  <2> QED BY <1>9, FlushedFacts
<1> HIDE DEF Held, n
<1> QED BY <1>5, <1>8, <1>10

\* What save_graph_edgelist writes: every edge in one row.
LEMMA ListingFacts ==
  ASSUME NEW E \in SUBSET Links, IsFiniteSet(E), NEW s \in Listings(E)
  PROVE  /\ s \in Seq(Row) /\ EdgesOf(s) = E
         /\ NamesIn(s) = UNION E /\ IsFiniteSet(UNION E)
<1> DEFINE rs == {r \in (UNION E) \X (UNION E) : r[1] < r[2] /\ {r[1], r[2]} \in E}
<1>1. UNION E \subseteq Nat
  BY DEF Links
<1>2. IsFiniteSet(UNION E)
  <2>1. ASSUME NEW e \in E PROVE IsFiniteSet(e)
    <3>1. PICK u, v \in Nat : e = {u, v}
      BY DEF Links
    <3>2. IsFiniteSet({u}) /\ {u, v} = {u} \cup {v}
      BY FS_Singleton
    <3> QED BY <3>1, <3>2, FS_AddElement
  <2> QED BY <2>1, FS_UNION
<1>3. IsFiniteSet(rs)
  <2>1. IsFiniteSet((UNION E) \X (UNION E))
    BY <1>2, FS_Product
  <2> QED BY <2>1, FS_Subset
<1>4. rs \subseteq Row
  BY <1>1 DEF Row
<1>5. s \in SetToSeqs(rs)
  BY DEF Listings
<1>6. \A e : e \in E <=> \E r \in rs : e = {r[1], r[2]}
  <2>1. ASSUME NEW e \in E PROVE \E r \in rs : e = {r[1], r[2]}
    <3>1. PICK u, v \in Nat : u # v /\ e = {u, v}
      BY DEF Links
    <3>2. u \in UNION E /\ v \in UNION E /\ {u, v} \in E /\ {v, u} \in E /\ {v, u} = {u, v}
      BY <3>1
    <3>3. CASE u < v
      <4>1. <<u, v>> \in rs
        BY <3>2, <3>3
      <4> QED BY <3>1, <4>1
    <3>4. CASE v < u
      <4>1. <<v, u>> \in rs
        BY <3>2, <3>4
      <4> QED BY <3>1, <3>2, <4>1
    <3> QED BY <3>1, <3>3, <3>4
  <2> QED BY <2>1
<1>7. \A r \in rs : r[1] # r[2] /\ r[1] \in UNION E /\ r[2] \in UNION E
  BY <1>1
<1>8. \A x : x \in UNION E <=> \E r \in rs : x = r[1] \/ x = r[2]
  <2>1. ASSUME NEW x \in UNION E PROVE \E r \in rs : x = r[1] \/ x = r[2]
    <3>1. PICK e \in E : x \in e
      OBVIOUS
    <3>2. PICK r \in rs : e = {r[1], r[2]}
      BY <1>6, <3>1
    <3> QED BY <3>1, <3>2
  <2> QED BY <1>7, <2>1
<1> HIDE DEF rs
<1> DEFINE D == 1 .. Cardinality(rs)
<1>9. s \in [D -> rs] /\ \A i, j \in D : i # j => s[i] # s[j]
  BY <1>5 DEF SetToSeqs
<1>10. Cardinality(rs) \in Nat
  BY <1>3, FS_CardinalityType
<1>11. s \in Seq(Row) /\ DOMAIN s = D
  <2>1. s \in [D -> Row]
    BY <1>4, <1>9
  <2> QED BY <1>10, <2>1, SeqDef
<1>12. IsFiniteSet(D) /\ Cardinality(D) = Cardinality(rs)
  <2>1. 1 \in Int /\ Cardinality(rs) \in Int
    BY <1>10
  <2>2. Cardinality(D) = IF 1 > Cardinality(rs) THEN 0 ELSE Cardinality(rs) - 1 + 1
    BY <2>1, FS_Interval
  <2> QED BY <1>10, <2>1, <2>2, FS_Interval
<1> HIDE DEF D
<1>13. s \in Surjection(D, rs)
  <2>1. s \in Injection(D, rs)
    BY <1>9 DEF Injection, IsInjective
  <2> QED BY <1>3, <1>12, <2>1, FS_Injection
<1>14. ToSet(s) = rs
  BY <1>9, <1>11, <1>13 DEF Surjection, ToSet
<1>15. EdgesOf(s) = E
  BY <1>6, <1>7, <1>14 DEF EdgesOf
<1>16. NamesIn(s) = UNION E
  <2>1. \A r : r \in rs <=> \E i \in DOMAIN s : r = s[i]
    BY <1>14 DEF ToSet
  <2>2. \A x : x \in NamesIn(s) <=> \E i \in DOMAIN s : x = s[i][1] \/ x = s[i][2]
    BY DEF NamesIn
  <2> QED BY <1>8, <2>1, <2>2
<1> QED BY <1>2, <1>11, <1>15, <1>16

(* Sorting *)

\* snap's rows are those of the log, with ids for names.
LEMMA RenumberedFacts ==
  ASSUME NEW timed \in Seq(Nat \X Nat \X Nat)
  PROVE  Renumbered(timed) \in Seq(Row)
<1> DEFINE n == Len(timed)
           Earlier(i) == {j \in DOMAIN timed :
                            timed[j][1] < timed[i][1] \/ (timed[j][1] = timed[i][1] /\ j < i)}
           rank == [i \in 1 .. n |-> Cardinality(Earlier(i)) + 1]
           order == [k \in DOMAIN timed |-> CHOOSE i \in DOMAIN timed : Cardinality(Earlier(i)) = k - 1]
           pairs == [k \in DOMAIN order |-> <<timed[order[k]][2], timed[order[k]][3]>>]
           names == FirstSeen(pairs)
<1>1. /\ n \in Nat /\ DOMAIN timed = 1 .. n
      /\ \A i \in 1 .. n : timed[i][1] \in Nat /\ timed[i][2] \in Nat /\ timed[i][3] \in Nat
  <2>1. \A i \in 1 .. n : timed[i] \in Nat \X Nat \X Nat
    OBVIOUS
  <2> QED BY <2>1
<1>0. n \in Nat /\ 1 .. n \subseteq Nat
  OBVIOUS
<1> HIDE DEF n
<1>2. IsFiniteSet(1 .. n) /\ Cardinality(1 .. n) = n
  <2>1. 1 \in Int /\ n \in Int
    BY <1>1
  <2>2. Cardinality(1 .. n) = IF 1 > n THEN 0 ELSE n - 1 + 1
    BY <2>1, FS_Interval
  <2> QED BY <1>1, <2>1, <2>2, FS_Interval
<1>3. ASSUME NEW i \in 1 .. n
      PROVE  /\ IsFiniteSet(Earlier(i)) /\ i \notin Earlier(i) /\ Earlier(i) \subseteq 1 .. n
             /\ Cardinality(Earlier(i)) \in 0 .. n - 1
  <2>1. Earlier(i) \subseteq (1 .. n) \ {i} /\ i \notin Earlier(i)
    BY <1>1
  <2> HIDE DEF Earlier
  <2>2. IsFiniteSet((1 .. n) \ {i}) /\ Cardinality((1 .. n) \ {i}) = n - 1
    BY <1>2, FS_RemoveElement
  <2>3. IsFiniteSet(Earlier(i)) /\ Cardinality(Earlier(i)) <= n - 1
    BY <2>1, <2>2, FS_Subset
  <2>4. Cardinality(Earlier(i)) \in Nat
    BY <2>3, FS_CardinalityType
  <2> QED BY <1>1, <2>1, <2>3, <2>4
<1>4. ASSUME NEW i \in 1 .. n, NEW k \in 1 .. n, i \in Earlier(k)
      PROVE  Cardinality(Earlier(i)) < Cardinality(Earlier(k))
  <2>1. Earlier(i) \cup {i} \subseteq Earlier(k)
    <3>1. /\ timed[i][1] \in Nat /\ timed[k][1] \in Nat
          /\ timed[i][1] < timed[k][1] \/ (timed[i][1] = timed[k][1] /\ i < k)
      BY <1>1, <1>4
    <3>2. ASSUME NEW j \in Earlier(i) PROVE j \in Earlier(k)
      <4>1. /\ j \in 1 .. n /\ timed[j][1] \in Nat
            /\ timed[j][1] < timed[i][1] \/ (timed[j][1] = timed[i][1] /\ j < i)
        BY <1>1
      <4>2. timed[j][1] < timed[k][1] \/ (timed[j][1] = timed[k][1] /\ j < k)
        <5> DEFINE a == timed[j][1]
                   b == timed[i][1]
                   c == timed[k][1]
        <5>1. /\ a \in Nat /\ b \in Nat /\ c \in Nat
              /\ a < b \/ (a = b /\ j < i)
              /\ b < c \/ (b = c /\ i < k)
          BY <3>1, <4>1
        <5>2. i \in Nat /\ j \in Nat /\ k \in Nat
          BY ONLY <1>0, <4>1, i \in 1 .. n, k \in 1 .. n
        <5> HIDE DEF a, b, c
        <5>3. a < c \/ (a = c /\ j < k)
          BY <5>1, <5>2
        <5> QED BY <5>3 DEF a, c
      <4> QED BY <1>1, <4>1, <4>2
    <3> QED BY <1>4, <3>2
  <2> HIDE DEF Earlier
  <2>2. Cardinality(Earlier(i) \cup {i}) = Cardinality(Earlier(i)) + 1
    BY <1>3, FS_AddElement
  <2>3. Cardinality(Earlier(i) \cup {i}) <= Cardinality(Earlier(k))
    BY <1>3, <2>1, FS_Subset
  <2>4. Cardinality(Earlier(i)) \in Nat /\ Cardinality(Earlier(k)) \in Nat
    BY <1>1, <1>3
  <2> QED BY <2>2, <2>3, <2>4
<1>5. ASSUME NEW i \in 1 .. n, NEW k \in 1 .. n, i # k
      PROVE  i \in Earlier(k) \/ k \in Earlier(i)
  <2>1. timed[i][1] \in Nat /\ timed[k][1] \in Nat /\ i \in DOMAIN timed /\ k \in DOMAIN timed
    BY <1>1
  <2> DEFINE a == timed[i][1]
             b == timed[k][1]
  <2>2. a \in Nat /\ b \in Nat /\ i \in Nat /\ k \in Nat
    BY <1>1, <2>1
  <2> HIDE DEF a, b
  <2>3. (a < b \/ (a = b /\ i < k)) \/ (b < a \/ (b = a /\ k < i))
    BY <1>5, <2>2
  <2> QED BY <2>1, <2>3 DEF a, b
<1> HIDE DEF Earlier
<1>6. rank \in Injection(1 .. n, 1 .. n)
  <2>1. rank \in [1 .. n -> 1 .. n]
    <3>1. \A i \in 1 .. n : Cardinality(Earlier(i)) + 1 \in 1 .. n
      BY <1>1, <1>3
    <3> QED BY <3>1
  <2>2. ASSUME NEW i \in 1 .. n, NEW k \in 1 .. n, i # k PROVE rank[i] # rank[k]
    <3>1. Cardinality(Earlier(i)) \in Nat /\ Cardinality(Earlier(k)) \in Nat
      BY <1>1, <1>3
    <3>2. \/ Cardinality(Earlier(i)) < Cardinality(Earlier(k))
          \/ Cardinality(Earlier(k)) < Cardinality(Earlier(i))
      BY <1>4, <1>5, <2>2
    <3>3. Cardinality(Earlier(i)) + 1 # Cardinality(Earlier(k)) + 1
      BY <3>1, <3>2
    <3> QED BY <3>3
  <2>3. IsInjective(rank)
    <3>1. DOMAIN rank = 1 .. n
      OBVIOUS
    <3> HIDE DEF rank
    <3> QED BY <2>2, <3>1 DEF IsInjective
  <2> QED BY <2>1, <2>3 DEF Injection
<1>7. rank \in Surjection(1 .. n, 1 .. n)
  <2> HIDE DEF rank
  <2> QED BY <1>2, <1>6, FS_Injection
<1>8. ASSUME NEW k \in 1 .. n PROVE order[k] \in 1 .. n
  <2>1. PICK i \in 1 .. n : rank[i] = k
    BY <1>7 DEF Surjection
  <2>2. i \in DOMAIN timed /\ Cardinality(Earlier(i)) = k - 1
    <3>1. Cardinality(Earlier(i)) \in Nat
      BY <1>1, <1>3
    <3>2. Cardinality(Earlier(i)) + 1 = k
      BY <2>1
    <3>3. Cardinality(Earlier(i)) = k - 1
      BY <1>1, <3>1, <3>2
    <3> QED BY <1>1, <3>3
  <2>3. (CHOOSE x \in DOMAIN timed : Cardinality(Earlier(x)) = k - 1) \in DOMAIN timed
    BY <2>2
  <2> QED BY <1>1, <2>3
<1>9. DOMAIN order = 1 .. n
  BY <1>1
<1> HIDE DEF order
<1>10. pairs \in [1 .. n -> Row]
  BY <1>1, <1>8, <1>9 DEF Row
<1>11. pairs \in Seq(Row) /\ DOMAIN pairs = 1 .. n
  <2> HIDE DEF pairs
  <2> QED BY <1>1, <1>10, SeqDef
<1>12. names \in Seq(Nat)
  <2> HIDE DEF pairs
  <2> QED BY <1>11, FirstSeenFacts
<1>13. Renumbered(timed) = [k \in 1 .. n |-> <<IdIn(names, pairs[k][1]), IdIn(names, pairs[k][2])>>]
  <2>1. Renumbered(timed) = [k \in DOMAIN pairs |-> <<IdIn(names, pairs[k][1]), IdIn(names, pairs[k][2])>>]
    BY DEF Renumbered, order, Earlier
  <2> HIDE DEF pairs, names
  <2> QED BY <1>11, <2>1
<1> HIDE DEF pairs, names
<1>14. \A k \in 1 .. n : <<IdIn(names, pairs[k][1]), IdIn(names, pairs[k][2])>> \in Row
  BY <1>12, IdInFacts DEF Row
<1>15. Renumbered(timed) \in [1 .. n -> Row]
  BY <1>13, <1>14
<1> QED BY <1>1, <1>15, SeqDef

-----------------------------------------------------------------------------
(* The invariant of a workload *)

\* Types of the state, and what is in the files.
TypeInv ==
  /\ stage \in {"gen", "draw", "initial", "tail", "ready", "replay", "end", "wild"}
  /\ source \in {"gen", "append", "rewind"}
  /\ graphFile \in Seq(Row) /\ streamFile \in Seq(Line)
  /\ rows \in Seq(Row) /\ cut \in 0 .. Len(rows) /\ at \in Nat
  /\ g \in [n : Nat, names : Seq(Nat), edges : SUBSET Links] /\ IsFiniteSet(g.edges)
  /\ start \in SUBSET Links /\ IsFiniteSet(start)
  /\ cur \in Seq(Ops) /\ batches \in Seq(Seq(Ops))
  /\ stage \in {"initial", "tail"} => at <= Len(rows)
  /\ stage = "replay" => batches \in Seq(Batch)
  /\ stage = "end" => outFile \in Listings(g.edges)

\* What gen may draw from the graph it has loaded.
GenOps ==
  LET G == Loaded(graphFile)
  IN {o \in Ops : IF o.del THEN o.edge \in G.edges
                  ELSE o.edge \notin G.edges /\ o.edge \subseteq 0 .. G.n - 1}

\* The edges that operations delete, or insert.
EdgesWith(del, S) == {o.edge : o \in {p \in S : p.del = del}}

\* Operations drawn from the loaded graph are all that the stream has, and the
\* rest of them lead from the graph reached to the one that all of them lead to
\* from the start.
GenInv ==
  source = "gen" =>
    /\ stage \in {"gen", "draw", "ready", "replay", "end"}
    /\ stage = "gen" => cur = <<>> /\ batches = <<>>
    /\ stage = "draw" =>
         g = Loaded(graphFile) /\ ToSet(cur) \subseteq GenOps /\ AllOf(batches) \subseteq GenOps
    /\ stage \in {"ready", "replay", "end"} => ToSet(streamFile) \ {Header} \subseteq GenOps
    /\ stage \in {"replay", "end"} =>
         /\ g.n = Loaded(graphFile).n /\ start = Loaded(graphFile).edges
         /\ AllOf(batches) \subseteq ToSet(streamFile) \ {Header}
         /\ (start \ StreamEdges(TRUE)) \cup StreamEdges(FALSE)
              = (g.edges \ EdgesWith(TRUE, AllOf(batches))) \cup EdgesWith(FALSE, AllOf(batches))
    /\ stage = "end" => batches = <<>>

\* The operations that snap has made so far.
Made == FlattenSeq(batches) \o cur
MadeEdges == {op.edge : op \in ToSet(Made)}

\* In the second loop of snap the operations made so far are those of the rows
\* passed, each edge once, in full batches.
TailInv ==
  /\ at \in cut .. Len(rows)
  /\ start = Between(rows, 1, InitialEnd)
  /\ IF source = "rewind"
     THEN MadeEdges = Between(rows, at + 1, Len(rows)) /\ seen = start \ MadeEdges
     ELSE seen = Between(rows, 1, at) /\ MadeEdges = seen \ start
  /\ IsInjective([i \in DOMAIN Made |-> Made[i].edge])
  /\ \A i \in DOMAIN batches : Len(batches[i]) = BatchSize
  /\ Len(cur) < BatchSize

\* In the first loop the graph is that of the rows passed; from the time the files
\* are written on, SnapExact holds.
SnapInv ==
  source # "gen" =>
    /\ stage \notin {"gen", "draw"}
    /\ stage = "initial" =>
         /\ at <= InitialEnd /\ start = Between(rows, 1, at) /\ seen = start
         /\ cur = <<>> /\ batches = <<>>
    /\ stage = "tail" => TailInv
    /\ SnapExact

\* The inductive invariant of gen, snap and a replay of their files.
IInv == TypeInv /\ GenInv /\ SnapInv

\* A process that has read nothing yet satisfies the invariant.
LEMMA InitIInv == Init => IInv
<1> SUFFICES ASSUME Init PROVE IInv
  OBVIOUS
<1>1. graphFile \in Seq(Row) /\ rows \in Seq(Row) /\ cut \in 0 .. Len(rows)
  <2>1. CASE stage = "gen"
    BY <2>1, StreamsAssumption DEF Init, Row
  <2>2. CASE stage = "initial"
    <3>1. PICK timed \in Logs : rows = Renumbered(timed)
      BY <2>2 DEF Init
    <3>2. timed \in Seq(Nat \X Nat \X Nat)
      BY StreamsAssumption
    <3> QED BY <2>2, <3>1, <3>2, RenumberedFacts DEF Init
  <2> QED BY <2>1, <2>2 DEF Init
<1>2. g \in [n : Nat, names : Seq(Nat), edges : SUBSET Links] /\ g.edges = {}
  BY DEF Init, NoGraph
<1>3. TypeInv
  <2>1. <<>> \in Seq(Ops) /\ <<>> \in Seq(Seq(Ops)) /\ <<>> \in Seq(Line)
    OBVIOUS
  <2> QED BY <1>1, <1>2, <2>1, FS_EmptySet DEF Init, TypeInv
<1>4. GenInv
  BY DEF Init, GenInv
<1>5. SnapInv
  <2>1. InitialEnd \in Nat
    BY <1>1 DEF InitialEnd
  <2>2. Between(rows, 1, 0) = {}
    BY DEF Between
  <2> QED BY <1>1, <2>1, <2>2 DEF Init, SnapInv, SnapExact
<1> QED BY <1>3, <1>4, <1>5 DEF IInv

\* The edges of a sequence of operations.
LEMMA EdgesFinite ==
  ASSUME NEW s \in Seq(Ops)
  PROVE  {o.edge : o \in ToSet(s)} \subseteq Links /\ IsFiniteSet({o.edge : o \in ToSet(s)})
<1> DEFINE E == {o.edge : o \in ToSet(s)}
           f == [i \in 1 .. Len(s) |-> s[i].edge]
<1>1. /\ Len(s) \in Nat /\ DOMAIN s = 1 .. Len(s)
      /\ \A i \in 1 .. Len(s) : s[i] \in Ops /\ s[i].edge \in Links
  <2>1. \A i \in 1 .. Len(s) : s[i] \in Ops
    OBVIOUS
  <2> QED BY <2>1 DEF Ops
<1>2. E \subseteq Links
  BY <1>1 DEF ToSet
<1>3. f \in [1 .. Len(s) -> E] /\ \A e \in E : \E i \in 1 .. Len(s) : f[i] = e
  BY <1>1 DEF ToSet
<1> HIDE DEF f, E
<1>4. IsFiniteSet(1 .. Len(s))
  <2>1. 1 \in Int /\ Len(s) \in Int
    BY <1>1
  <2> QED BY <2>1, FS_Interval
<1>5. f \in Surjection(1 .. Len(s), E)
  BY <1>3, Fun_IsSurj
<1>6. IsFiniteSet(E)
  BY <1>4, <1>5, FS_Surjection
<1> QED BY <1>2, <1>6 DEF E

\* The operations that Apply takes, and the batches it leaves.
Taken == IF mode = "batch" THEN ToSet(Head(batches)) ELSE {Head(Head(batches))}
Left ==
  IF mode = "batch" \/ Tail(Head(batches)) = <<>> THEN Tail(batches)
  ELSE <<Tail(Head(batches))>> \o Tail(batches)

\* Apply takes operations of the first batch and leaves all others.
LEMMA TakenFacts ==
  ASSUME batches \in Seq(Batch), batches # <<>>
  PROVE  /\ Left \in Seq(Batch) /\ AllOf(batches) = Taken \cup AllOf(Left)
         /\ {o.edge : o \in Taken} \subseteq Links /\ IsFiniteSet({o.edge : o \in Taken})
<1> DEFINE b == Head(batches)
           bs == Tail(batches)
<1>1. b \in Batch /\ bs \in Seq(Batch)
  BY HeadTailProperties
<1>2. AllOf(batches) = ToSet(b) \cup AllOf(bs)
  BY BatchSeq, AllOfFacts
<1> HIDE DEF b, bs
<1>3. b \in Seq(Ops) /\ b # <<>> /\ bs \in Seq(Seq(Ops))
  BY <1>1, BatchSeq DEF Batch
<1>4. ToSet(b) = {Head(b)} \cup ToSet(Tail(b)) /\ Tail(b) \in Seq(Ops)
  BY <1>3, ElementsFacts, HeadTailProperties
<1>5. Taken \subseteq ToSet(b)
  BY <1>4 DEF Taken, b
<1>6. {o.edge : o \in ToSet(b)} \subseteq Links /\ IsFiniteSet({o.edge : o \in ToSet(b)})
  BY <1>3, EdgesFinite
<1>7. {o.edge : o \in Taken} \in SUBSET {o.edge : o \in ToSet(b)}
  BY <1>5
<1>8. {o.edge : o \in Taken} \subseteq Links /\ IsFiniteSet({o.edge : o \in Taken})
  BY <1>6, <1>7, FS_Subset
<1>9. Left \in Seq(Batch) /\ AllOf(batches) = Taken \cup AllOf(Left)
  <2>1. CASE mode = "batch"
    BY <1>1, <1>2, <2>1 DEF Taken, Left, b, bs
  <2>2. CASE mode # "batch" /\ Tail(b) = <<>>
    <3>1. ToSet(Tail(b)) = {}
      BY <2>2 DEF ToSet
    <3> QED BY <1>1, <1>2, <1>4, <2>2, <3>1 DEF Taken, Left, b, bs
  <2>3. CASE mode # "batch" /\ Tail(b) # <<>>
    <3> DEFINE t == Tail(b)
    <3>1. t \in Batch
      BY <1>4, <2>3 DEF Batch
    <3>2. Left = <<t>> \o bs /\ Taken = {Head(b)}
      BY <2>3 DEF Taken, Left, b, bs
    <3>3. AllOf(<<t>> \o bs) = ToSet(t) \cup AllOf(bs)
      <4>1. t \in Seq(Ops)
        BY <1>4
      <4> HIDE DEF t
      <4>2. \A q \in Seq(Ops) : AllOf(<<q>> \o bs) = ToSet(q) \cup AllOf(bs)
        BY <1>3, AllOfFacts
      <4> QED BY <4>1, <4>2
    <3>4. <<t>> \o bs \in Seq(Batch)
      <4>1. <<t>> \in Seq(Batch)
        BY <3>1
      <4> QED BY <1>1, <4>1, ConcatProperties
    <3> HIDE DEF t
    <3> QED BY <1>2, <1>4, <3>2, <3>3, <3>4 DEF t
  <2> QED BY <2>1, <2>2, <2>3
<1> QED BY <1>8, <1>9

\* A batch changes the graph in its own edges only.
LEMMA NetFacts ==
  ASSUME NEW E \in SUBSET Links, IsFiniteSet(E), NEW b,
         {o.edge : o \in b} \subseteq Links, IsFiniteSet({o.edge : o \in b})
  PROVE  Net(E, b) \in SUBSET Links /\ IsFiniteSet(Net(E, b))
<1>1. Net(E, b) \in SUBSET (E \cup {o.edge : o \in b})
  BY DEF Net, Removed, Added
<1>2. IsFiniteSet(E \cup {o.edge : o \in b})
  BY FS_Union
<1> QED BY <1>1, <1>2, FS_Subset

\* The effects of Apply, in terms of what it takes and leaves.
LEMMA ApplyFacts ==
  ASSUME Apply
  PROVE  /\ stage = "replay" /\ batches # <<>> /\ batches' = Left
         /\ \/ stage' = "wild" /\ g' = g /\ \E e \in Added(g.edges, Taken) : \E v \in e : v >= g.n
            \/ stage' = stage /\ g' = [g EXCEPT !.edges = Net(@, Taken)]
         /\ UNCHANGED <<files, outFile, snapVars, at, cur, mode, start>>
BY DEF Apply, Taken, Left

\* Every step keeps the types.
LEMMA TypeKeeps == TypeInv /\ [Next]_vars => TypeInv'
<1> SUFFICES ASSUME TypeInv, [Next]_vars PROVE TypeInv'
  OBVIOUS
<1> USE DEF files, snapVars
<1>0. <<>> \in Seq(Ops) /\ <<>> \in Seq(Seq(Ops)) /\ batches \in Seq(Seq(Ops)) /\ cur \in Seq(Ops)
  BY DEF TypeInv
<1>1. CASE GenLoad
  <2>1. /\ g'.n \in Nat /\ g'.edges \in SUBSET Links /\ IsFiniteSet(g'.edges)
        /\ g' \in [n : Nat, names : Seq(Nat), edges : SUBSET Links]
    <3>1. graphFile \in Seq(Row) /\ g' = Loaded(graphFile)
      BY <1>1 DEF GenLoad, TypeInv
    <3> QED BY <3>1, LoadedFacts, FirstSeenFacts DEF Loaded
  <2> QED BY <1>1, <2>1 DEF GenLoad, TypeInv
<1>2. CASE Draw
  <2>1. ASSUME NEW del \in BOOLEAN, NEW e \in Links PROVE Append(cur, Op2(del, e)) \in Seq(Ops)
    <3>1. Op2(del, e) \in Ops
      BY DEF Op2, Ops
    <3> QED BY <1>0, <3>1, AppendProperties
  <2>2. Pairs(Drawable) \subseteq Links
    <3>1. ASSUME NEW e \in Pairs(Drawable) PROVE e \in Links
      <4>1. PICK u, v \in 0 .. g.n - 1 : e = {u, v}
        BY DEF Pairs, Drawable
      <4>2. u \in Nat /\ v \in Nat
        BY DEF TypeInv
      <4>3. u # v
        <5>1. Cardinality({u}) = 1
          BY FS_Singleton
        <5>2. Cardinality(e) = 2
          BY DEF Pairs
        <5> QED BY <4>1, <5>1, <5>2
      <4> QED BY <4>1, <4>2, <4>3 DEF Links
    <3> QED BY <3>1
  <2>3. cur' \in Seq(Ops)
    <3>1. CASE \E e \in Pairs(Drawable) : cur' = Append(cur, Op2(FALSE, e))
      BY <2>1, <2>2, <3>1
    <3>2. CASE \E e \in g.edges : cur' = Append(cur, Op2(TRUE, e))
      BY <2>1, <3>2 DEF TypeInv
    <3> QED BY <1>0, <1>2, <3>1, <3>2 DEF Draw
  <2>4. at' \in Nat
    BY <1>2 DEF Draw, TypeInv
  <2> QED BY <1>2, <2>3, <2>4 DEF Draw, TypeInv
<1>3. CASE EndBatch
  <2>1. batches' \in Seq(Seq(Ops))
    BY <1>0, <1>3, AppendProperties DEF EndBatch
  <2>2. StreamText(batches') \in Seq(Line)
    BY <2>1, StreamTextFacts
  <2> QED BY <1>0, <1>3, <2>1, <2>2 DEF EndBatch, TypeInv
<1>4. CASE InitialRow
  <2>1. at + 1 \in 1 .. Len(rows) /\ rows \in Seq(Row)
    BY <1>4 DEF InitialRow, InitialEnd, TypeInv
  <2> DEFINE r == rows[at + 1]
             e == {r[1], r[2]}
  <2>2. r \in Row
    BY <2>1
  <2>3. r[1] # r[2] => e \in Links
    BY <2>2 DEF Row, Links
  <2>4. start' = start \/ (start' = start \cup {e} /\ r[1] # r[2])
    BY <1>4 DEF InitialRow
  <2> HIDE DEF r, e
  <2>5. start' \in SUBSET Links /\ IsFiniteSet(start')
    <3>1. start \in SUBSET Links /\ IsFiniteSet(start)
      BY DEF TypeInv
    <3>2. IsFiniteSet(start \cup {e})
      BY <3>1, FS_AddElement
    <3> QED BY <2>3, <2>4, <3>1, <3>2
  <2>6. at' \in Nat /\ at' <= Len(rows)
    BY <1>4, <2>1 DEF InitialRow, TypeInv
  <2> QED BY <1>4, <2>5, <2>6 DEF InitialRow, TypeInv
<1>5. CASE InitialDone
  BY <1>5 DEF InitialDone, TypeInv
<1>6. CASE TailRow
  <2> DEFINE k == IF source = "rewind" THEN at ELSE at + 1
             e == {rows[k][1], rows[k][2]}
             grown == Append(cur, Op2(source = "rewind", e))
  <2>1. rows \in Seq(Row) /\ k \in 1 .. Len(rows) /\ at' \in Nat /\ at' <= Len(rows)
    <3>1. /\ rows \in Seq(Row) /\ at \in Nat /\ at <= Len(rows) /\ cut \in Nat /\ Len(rows) \in Nat
          /\ at' = IF source = "rewind" THEN at - 1 ELSE at + 1
          /\ IF source = "rewind" THEN at > cut ELSE at < Len(rows)
      BY <1>6 DEF TailRow, TailLeft, TypeInv
    <3>2. CASE source = "rewind"
      BY <3>1, <3>2
    <3>3. CASE source # "rewind"
      BY <3>1, <3>3
    <3> QED BY <3>2, <3>3
  <2>2. rows[k] \in Row
    BY <2>1
  <2>3. rows[k][1] # rows[k][2] => Op2(source = "rewind", e) \in Ops
    BY <2>2 DEF Row, Links, Op2, Ops
  <2>4. rows[k][1] # rows[k][2] => grown \in Seq(Ops)
    BY <1>0, <2>3, AppendProperties
  <2>5. \/ batches' = batches /\ cur' = cur
        \/ rows[k][1] # rows[k][2] /\ batches' = Append(batches, grown) /\ cur' = <<>>
        \/ rows[k][1] # rows[k][2] /\ batches' = batches /\ cur' = grown
    BY <1>6 DEF TailRow
  <2> HIDE DEF grown
  <2>6. cur' \in Seq(Ops) /\ batches' \in Seq(Seq(Ops))
    <3>1. rows[k][1] # rows[k][2] => Append(batches, grown) \in Seq(Seq(Ops))
      BY <1>0, <2>4, AppendProperties
    <3> QED BY <1>0, <2>4, <2>5, <3>1
  <2> QED BY <1>6, <2>1, <2>6 DEF TailRow, TypeInv
<1>7. CASE SaveSnap
  <2>1. batches' \in Seq(Seq(Ops))
    <3>1. CASE cur = <<>>
      BY <1>0, <1>7, <3>1 DEF SaveSnap, Flushed
    <3>2. CASE cur # <<>>
      BY <1>0, <1>7, <3>2, AppendProperties DEF SaveSnap, Flushed
    <3> QED BY <3>1, <3>2
  <2>2. streamFile' \in Seq(Line)
    BY <1>7, <2>1, StreamTextFacts DEF SaveSnap
  <2>3. graphFile' \in Seq(Row)
    BY <1>7, ListingFacts DEF SaveSnap, TypeInv
  <2> QED BY <1>0, <1>7, <2>1, <2>2, <2>3 DEF SaveSnap, TypeInv
<1>8. CASE \E m \in {"batch", "nomerge", "peredge"} : Open(m)
  <2>1. PICK m : Open(m)
    BY <1>8
  <2>2. /\ g'.edges \in SUBSET Links /\ IsFiniteSet(g'.edges)
        /\ g' \in [n : Nat, names : Seq(Nat), edges : SUBSET Links]
    <3>1. graphFile \in Seq(Row) /\ g' = Loaded(graphFile)
      BY <2>1 DEF Open, TypeInv
    <3> QED BY <3>1, LoadedFacts, FirstSeenFacts DEF Loaded
  <2>3. batches' \in Seq(Batch) /\ batches' \in Seq(Seq(Ops))
    <3>1. batches' \in Seq(Batch)
      BY <2>1, ParsedFacts DEF Open, TypeInv
    <3> QED BY <3>1, BatchSeq
  <2>4. start' \in SUBSET Links /\ IsFiniteSet(start')
    BY <2>1, <2>2 DEF Open, TypeInv
  <2> QED BY <2>1, <2>2, <2>3, <2>4 DEF Open, TypeInv
<1>9. CASE Apply
  <2>1. batches \in Seq(Batch) /\ batches # <<>>
    BY <1>9 DEF Apply, TypeInv
  <2>2. batches' \in Seq(Batch) /\ batches' \in Seq(Seq(Ops))
    <3>1. batches' \in Seq(Batch)
      BY <1>9, <2>1, ApplyFacts, TakenFacts
    <3> QED BY <3>1, BatchSeq
  <2>3. Net(g.edges, Taken) \in SUBSET Links /\ IsFiniteSet(Net(g.edges, Taken))
    BY <2>1, TakenFacts, NetFacts DEF TypeInv
  <2>4. g' \in [n : Nat, names : Seq(Nat), edges : SUBSET Links] /\ IsFiniteSet(g'.edges)
    <3>1. CASE g' = g
      BY <3>1 DEF TypeInv
    <3>2. CASE g' = [g EXCEPT !.edges = Net(@, Taken)]
      BY <2>3, <3>2 DEF TypeInv
    <3> QED BY <1>9, <3>1, <3>2, ApplyFacts
  <2> QED BY <1>9, <2>2, <2>4, ApplyFacts DEF TypeInv
<1>10. CASE Close
  BY <1>10 DEF Close, TypeInv
<1>11. CASE UNCHANGED vars
  BY <1>11 DEF vars, TypeInv
<1> QED BY <1>1, <1>2, <1>3, <1>4, <1>5, <1>6, <1>7, <1>8, <1>9, <1>10, <1>11 DEF Next, Exited

\* An operation drawn for the graph has an edge that it lacks, or has.
LEMMA DrawnFacts ==
  ASSUME TypeInv, g = Loaded(graphFile)
  PROVE  /\ \A e \in Pairs(Drawable) : Op2(FALSE, e) \in GenOps
         /\ \A e \in g.edges : Op2(TRUE, e) \in GenOps
<1>1. g.n \in Nat /\ g.edges \subseteq Links
  BY DEF TypeInv
<1>2. ASSUME NEW e \in Pairs(Drawable) PROVE Op2(FALSE, e) \in GenOps
  <2>1. PICK u, v \in 0 .. g.n - 1 : e = {u, v}
    BY DEF Pairs, Drawable
  <2>2. u \in Nat /\ v \in Nat /\ e \subseteq 0 .. g.n - 1 /\ e \notin g.edges
    BY <1>1, <2>1 DEF Pairs, Drawable
  <2>3. u # v
    <3>1. Cardinality({u}) = 1
      BY FS_Singleton
    <3>2. Cardinality(e) = 2
      BY DEF Pairs
    <3> QED BY <2>1, <3>1, <3>2
  <2>4. e \in Links
    BY <2>1, <2>2, <2>3 DEF Links
  <2>5. Op2(FALSE, e) \in Ops /\ Op2(FALSE, e).del = FALSE /\ Op2(FALSE, e).edge = e
    BY <2>4 DEF Op2, Ops
  <2> QED BY <2>2, <2>5 DEF GenOps
<1>3. ASSUME NEW e \in g.edges PROVE Op2(TRUE, e) \in GenOps
  <2>1. Op2(TRUE, e) \in Ops /\ Op2(TRUE, e).del = TRUE /\ Op2(TRUE, e).edge = e
    BY <1>1 DEF Op2, Ops
  <2> QED BY <2>1 DEF GenOps
<1> QED BY <1>2, <1>3

\* The edges a stream file deletes, or inserts.
LEMMA StreamEdgesFacts ==
  ASSUME NEW del \in BOOLEAN
  PROVE  StreamEdges(del) = EdgesWith(del, ToSet(streamFile) \ {Header})
BY DEF StreamEdges, EdgesWith

\* No operation of gen deletes what another inserts.
LEMMA GenDisjoint ==
  ASSUME NEW S \in SUBSET GenOps, NEW T \in SUBSET GenOps
  PROVE  EdgesWith(TRUE, S) \cap EdgesWith(FALSE, T) = {}
<1>1. \A e \in EdgesWith(TRUE, S) : e \in Loaded(graphFile).edges
  BY DEF EdgesWith, GenOps
<1>2. \A e \in EdgesWith(FALSE, T) : e \notin Loaded(graphFile).edges
  BY DEF EdgesWith, GenOps
<1> QED BY <1>1, <1>2

\* The steps of gen, and of a run over its files, keep its invariant.
LEMMA GenKeeps == TypeInv /\ GenInv /\ [Next]_vars => GenInv'
<1> SUFFICES ASSUME TypeInv, GenInv, [Next]_vars PROVE GenInv'
  OBVIOUS
<1> USE DEF files, snapVars
<1>0. <<>> \in Seq(Ops) /\ batches \in Seq(Seq(Ops)) /\ cur \in Seq(Ops)
  BY DEF TypeInv
<1>1. CASE GenLoad
  <2>1. source' = source /\ stage = "gen" /\ stage' = "draw" /\ cur' = cur /\ batches' = batches
        /\ graphFile' = graphFile /\ g' = Loaded(graphFile)
    BY <1>1 DEF GenLoad
  <2>2. source = "gen" => ToSet(cur) = {} /\ AllOf(batches) = {}
    BY <2>1 DEF GenInv, ToSet, AllOf
  <2>3. GenOps' = GenOps /\ Loaded(graphFile)' = Loaded(graphFile)
    BY <2>1 DEF GenOps
  <2> QED BY <2>1, <2>2, <2>3 DEF GenInv
<1>2. CASE Draw
  <2>1. UNCHANGED <<stage, source, graphFile, streamFile, g, batches, start>> /\ stage = "draw"
    BY <1>2 DEF Draw
  <2>2. GenOps' = GenOps /\ Loaded(graphFile)' = Loaded(graphFile)
    BY <2>1 DEF GenOps
  <2>3. CASE source = "gen"
    <3>1. g = Loaded(graphFile) /\ ToSet(cur) \subseteq GenOps /\ AllOf(batches) \subseteq GenOps
      BY <2>1, <2>3 DEF GenInv
    <3>2. \A o \in GenOps : ToSet(Append(cur, o)) = ToSet(cur) \cup {o}
      BY <1>0, ElementsFacts DEF GenOps
    <3>3. cur' = cur \/ \E o \in GenOps : cur' = Append(cur, o)
      BY <1>2, <3>1, DrawnFacts DEF Draw
    <3>4. ToSet(cur') \subseteq GenOps
      BY <3>1, <3>2, <3>3
    <3> QED BY <2>1, <2>2, <3>1, <3>4 DEF GenInv
  <2> QED BY <2>1, <2>3 DEF GenInv
<1>3. CASE EndBatch
  <2>1. UNCHANGED <<source, graphFile, g, start>> /\ stage = "draw" /\ cur' = <<>>
        /\ batches' = Append(batches, cur)
        /\ \/ stage' = "ready" /\ streamFile' = StreamText(batches')
           \/ stage' = stage
    BY <1>3 DEF EndBatch
  <2>2. GenOps' = GenOps /\ Loaded(graphFile)' = Loaded(graphFile)
    BY <2>1 DEF GenOps
  <2>3. CASE source = "gen"
    <3>1. g = Loaded(graphFile) /\ ToSet(cur) \subseteq GenOps /\ AllOf(batches) \subseteq GenOps
      BY <2>1, <2>3 DEF GenInv
    <3>2. AllOf(batches') \subseteq GenOps /\ batches' \in Seq(Seq(Ops))
      <4>1. AllOf(batches') = AllOf(batches) \cup ToSet(cur)
        BY <1>0, <2>1, AllOfFacts
      <4> QED BY <1>0, <2>1, <3>1, <4>1, AppendProperties
    <3>3. ToSet(StreamText(batches')) \ {Header} \subseteq GenOps
      BY <3>2, StreamTextFacts
    <3>4. ToSet(cur') = {}
      BY <2>1 DEF ToSet
    <3> QED BY <2>1, <2>2, <3>1, <3>2, <3>3, <3>4 DEF GenInv
  <2> QED BY <2>1, <2>3 DEF GenInv
<1>4. CASE InitialRow \/ InitialDone \/ TailRow \/ SaveSnap
  <2>1. source' = source /\ stage \in {"initial", "tail"}
    BY <1>4 DEF InitialRow, InitialDone, TailRow, SaveSnap
  <2> QED BY <2>1 DEF GenInv
<1>5. CASE \E m \in {"batch", "nomerge", "peredge"} : Open(m)
  <2>1. /\ stage = "ready" /\ stage' = "replay" /\ UNCHANGED <<source, graphFile, streamFile>>
        /\ g' = Loaded(graphFile) /\ batches' = Parsed(streamFile)
        /\ start' = IF source = "gen" THEN g'.edges ELSE start
    BY <1>5 DEF Open
  <2>2. GenOps' = GenOps /\ Loaded(graphFile)' = Loaded(graphFile)
        /\ \A del \in BOOLEAN : StreamEdges(del)' = StreamEdges(del)
    BY <2>1 DEF GenOps, StreamEdges
  <2>3. CASE source = "gen"
    <3>1. ToSet(streamFile) \ {Header} \subseteq GenOps
      BY <2>1, <2>3 DEF GenInv
    <3>2. AllOf(batches') = ToSet(streamFile) \ {Header}
      BY <2>1, ParsedFacts DEF TypeInv
    <3>3. \A del \in BOOLEAN : StreamEdges(del) = EdgesWith(del, AllOf(batches'))
      BY <3>2, StreamEdgesFacts
    <3>4. start' = g'.edges
      BY <2>1, <2>3
    <3> QED BY <2>1, <2>2, <3>1, <3>2, <3>3, <3>4 DEF GenInv
  <2> QED BY <2>1, <2>3 DEF GenInv
<1>6. CASE Apply
  <2>1. batches \in Seq(Batch) /\ batches # <<>> /\ stage = "replay"
    BY <1>6 DEF Apply, TypeInv
  <2>2. /\ batches' = Left /\ UNCHANGED <<source, graphFile, streamFile, start>>
        /\ \/ stage' = "wild" /\ \E e \in Added(g.edges, Taken) : \E v \in e : v >= g.n
           \/ stage' = stage /\ g' = [g EXCEPT !.edges = Net(@, Taken)]
    BY <1>6, ApplyFacts
  <2>3. AllOf(batches) = Taken \cup AllOf(Left)
    BY <2>1, TakenFacts
  <2>4. GenOps' = GenOps /\ Loaded(graphFile)' = Loaded(graphFile)
        /\ \A del \in BOOLEAN : StreamEdges(del)' = StreamEdges(del)
    BY <2>2 DEF GenOps, StreamEdges
  <2>5. CASE source = "gen"
    <3>1. /\ ToSet(streamFile) \ {Header} \subseteq GenOps
          /\ g.n = Loaded(graphFile).n /\ start = Loaded(graphFile).edges
          /\ AllOf(batches) \subseteq ToSet(streamFile) \ {Header}
          /\ (start \ StreamEdges(TRUE)) \cup StreamEdges(FALSE)
               = (g.edges \ EdgesWith(TRUE, AllOf(batches))) \cup EdgesWith(FALSE, AllOf(batches))
      BY <2>1, <2>5 DEF GenInv
    <3>2. Taken \subseteq GenOps /\ AllOf(Left) \subseteq GenOps
      BY <2>3, <3>1
    <3>3. \A e \in Added(g.edges, Taken) : \A v \in e : ~(v >= g.n)
      <4>1. ASSUME NEW e \in Added(g.edges, Taken) PROVE e \subseteq 0 .. g.n - 1
        <5>1. PICK o \in Taken : ~o.del /\ o.edge = e
          BY DEF Added
        <5>2. o \in GenOps
          BY <3>2
        <5> QED BY <3>1, <5>1, <5>2 DEF GenOps
      <4>2. g.n \in Nat
        BY DEF TypeInv
      <4>3. \A v \in 0 .. g.n - 1 : ~(v >= g.n)
        BY <4>2
      <4> QED BY <4>1, <4>3
    <3>4. stage' = "replay" /\ g'.edges = Net(g.edges, Taken) /\ g'.n = g.n
      <4>1. stage' = stage /\ g' = [g EXCEPT !.edges = Net(@, Taken)]
        BY <2>2, <3>3
      <4> QED BY <2>1, <4>1 DEF TypeInv
    <3> DEFINE D == EdgesWith(TRUE, Taken)
               I == EdgesWith(FALSE, Taken)
               Dr == EdgesWith(TRUE, AllOf(Left))
               Ir == EdgesWith(FALSE, AllOf(Left))
    <3>5. EdgesWith(TRUE, AllOf(batches)) = D \cup Dr /\ EdgesWith(FALSE, AllOf(batches)) = I \cup Ir
      BY <2>3 DEF EdgesWith
    <3>6. D \cap I = {} /\ Dr \cap I = {}
      BY <3>2, GenDisjoint
    <3>7. Net(g.edges, Taken) = (g.edges \ D) \cup I
      <4>1. \A o \in Taken : o \in Ops
        BY <3>2 DEF GenOps
      <4>2. Removed(g.edges, Taken) = g.edges \cap D
        <5>1. ASSUME NEW e, [del |-> TRUE, edge |-> e] \in Taken PROVE e \in D
          <6>1. [del |-> TRUE, edge |-> e].del = TRUE /\ [del |-> TRUE, edge |-> e].edge = e
            OBVIOUS
          <6> QED BY <5>1, <6>1 DEF EdgesWith
        <5>2. ASSUME NEW e \in D PROVE [del |-> TRUE, edge |-> e] \in Taken
          <6>1. PICK o \in Taken : o.del = TRUE /\ o.edge = e
            BY DEF EdgesWith
          <6>2. o = [del |-> TRUE, edge |-> e]
            BY <4>1, <6>1 DEF Ops
          <6> QED BY <6>1, <6>2
        <5> HIDE DEF D
        <5> QED BY <5>1, <5>2 DEF Removed
      <4>3. Added(g.edges, Taken) = I \ g.edges
        <5>1. \A o \in Taken : ~o.del <=> o.del = FALSE
          BY <4>1 DEF Ops
        <5> QED BY <5>1 DEF Added, EdgesWith
      <4> HIDE DEF D, I
      <4> QED BY <3>6, <4>2, <4>3 DEF Net
    <3> HIDE DEF D, I, Dr, Ir
    <3>8. (start \ StreamEdges(TRUE)) \cup StreamEdges(FALSE) = (g'.edges \ Dr) \cup Ir
      BY <3>1, <3>4, <3>5, <3>6, <3>7
    <3>9. AllOf(batches') = AllOf(Left) /\ AllOf(Left) \subseteq ToSet(streamFile) \ {Header}
      BY <2>2, <2>3, <3>1
    <3> QED BY <2>2, <2>4, <3>1, <3>4, <3>8, <3>9 DEF GenInv, Dr, Ir
  <2> QED BY <2>2, <2>5 DEF GenInv
<1>7. CASE Close
  <2>1. /\ UNCHANGED <<source, graphFile, streamFile, g, batches, start>>
        /\ stage = "replay" /\ stage' = "end" /\ batches = <<>>
    BY <1>7 DEF Close
  <2>2. GenOps' = GenOps /\ Loaded(graphFile)' = Loaded(graphFile)
        /\ \A del \in BOOLEAN : StreamEdges(del)' = StreamEdges(del)
    BY <2>1 DEF GenOps, StreamEdges
  <2> QED BY <2>1, <2>2 DEF GenInv
<1>8. CASE UNCHANGED vars
  BY <1>8 DEF vars, GenInv, GenOps, StreamEdges
<1> QED BY <1>1, <1>2, <1>3, <1>4, <1>5, <1>6, <1>7, <1>8 DEF Next, Exited

\* The rows passed by the first loop and those after the cut make all rows.
LEMMA BetweenSplit ==
  ASSUME NEW rs \in Seq(Row), NEW b \in 0 .. Len(rs)
  PROVE  Between(rs, 1, Len(rs)) = Between(rs, 1, b) \cup Between(rs, b + 1, Len(rs))
<1>1. \A i : i \in 1 .. Len(rs) <=> i \in 1 .. b \/ i \in (b + 1) .. Len(rs)
  OBVIOUS
<1> QED BY <1>1 DEF Between

\* One more operation, on an edge that has none, keeps the edges apart.
LEMMA MadeGrows ==
  ASSUME NEW s \in Seq(Ops), NEW o \in Ops, IsInjective([i \in DOMAIN s |-> s[i].edge]),
         o.edge \notin {p.edge : p \in ToSet(s)}
  PROVE  IsInjective([i \in DOMAIN Append(s, o) |-> Append(s, o)[i].edge])
<1> DEFINE t == Append(s, o)
           f == [i \in DOMAIN s |-> s[i].edge]
           h == [i \in DOMAIN t |-> t[i].edge]
<1>1. /\ Len(s) \in Nat /\ DOMAIN s = 1 .. Len(s) /\ DOMAIN t = 1 .. Len(s) + 1
      /\ t[Len(s) + 1] = o /\ \A i \in 1 .. Len(s) : t[i] = s[i]
  OBVIOUS
<1> HIDE DEF t
<1>2. \A i \in 1 .. Len(s) : h[i] = s[i].edge /\ f[i] = s[i].edge /\ h[i] # o.edge
  BY <1>1 DEF ToSet
<1>3. h[Len(s) + 1] = o.edge
  BY <1>1
<1>4. DOMAIN f = 1 .. Len(s) /\ DOMAIN h = 1 .. Len(s) + 1
  BY <1>1
<1> HIDE DEF f, h
<1>5. \A i, j \in 1 .. Len(s) : f[i] = f[j] => i = j
  BY <1>4 DEF f, IsInjective
<1>6. \A i \in 1 .. Len(s) + 1 : i \in 1 .. Len(s) \/ i = Len(s) + 1
  BY <1>1
<1>7. \A i, j \in 1 .. Len(s) + 1 : h[i] = h[j] => i = j
  BY <1>2, <1>3, <1>5, <1>6
<1>8. IsInjective(h)
  BY <1>4, <1>7 DEF IsInjective
<1> QED BY <1>8 DEF h, t

\* What a row of the second loop does to the operations made: nothing, or one more
\* at the end.
LEMMA TailRowFacts ==
  ASSUME TypeInv, TailInv, TailRow
  PROVE  LET k == IF source = "rewind" THEN at ELSE at + 1
             e == {rows[k][1], rows[k][2]}
             taken == rows[k][1] # rows[k][2] /\ Fresh(e)
             o == Op2(source = "rewind", e)
         IN /\ k \in 1 .. Len(rows)
            /\ at' = IF source = "rewind" THEN k - 1 ELSE k
            /\ ~taken => seen' = seen /\ Made' = Made
            /\ taken => /\ seen' = IF source = "rewind" THEN seen \ {e} ELSE seen \cup {e}
                        /\ o \in Ops /\ o.edge = e /\ Made' = Append(Made, o)
            /\ \A i \in DOMAIN batches' : Len(batches'[i]) = BatchSize
            /\ Len(cur') < BatchSize
<1> DEFINE k == IF source = "rewind" THEN at ELSE at + 1
           e == {rows[k][1], rows[k][2]}
           taken == rows[k][1] # rows[k][2] /\ Fresh(e)
           o == Op2(source = "rewind", e)
           grown == Append(cur, o)
<1>1. /\ rows \in Seq(Row) /\ at \in Nat /\ at <= Len(rows) /\ cut \in Nat /\ Len(rows) \in Nat
      /\ at' = IF source = "rewind" THEN at - 1 ELSE at + 1
      /\ IF source = "rewind" THEN at > cut ELSE at < Len(rows)
  BY DEF TailRow, TailLeft, TypeInv
<1>2. k \in 1 .. Len(rows) /\ at' = IF source = "rewind" THEN k - 1 ELSE k
  <2>1. CASE source = "rewind"
    BY <1>1, <2>1
  <2>2. CASE source # "rewind"
    BY <1>1, <2>2
  <2> QED BY <2>1, <2>2
<1>3. taken => o \in Ops /\ o.edge = e
  <2>1. rows[k] \in Row
    BY <1>1, <1>2
  <2> QED BY <2>1 DEF Row, Links, Op2, Ops
<1>4. /\ ~taken => seen' = seen /\ batches' = batches /\ cur' = cur
      /\ taken => /\ seen' = IF source = "rewind" THEN seen \ {e} ELSE seen \cup {e}
                  /\ \/ Len(grown) >= BatchSize /\ batches' = Append(batches, grown) /\ cur' = <<>>
                     \/ ~(Len(grown) >= BatchSize) /\ cur' = grown /\ batches' = batches
  BY DEF TailRow
<1> HIDE DEF k, e, taken, o
<1>5. /\ cur \in Seq(Ops) /\ batches \in Seq(Seq(Ops)) /\ FlattenSeq(batches) \in Seq(Ops)
      /\ BatchSize \in Nat \ {0}
      /\ \A i \in DOMAIN batches : Len(batches[i]) = BatchSize
      /\ Len(cur) < BatchSize /\ Len(cur) \in Nat
  <2>1. cur \in Seq(Ops) /\ batches \in Seq(Seq(Ops))
    BY DEF TypeInv
  <2> QED BY <2>1, FlattenFacts, StreamsAssumption DEF TailInv
<1>6. CASE ~taken
  BY <1>2, <1>4, <1>5, <1>6 DEF k, e, taken, o, Made
<1>7. CASE taken
  <2>1. o \in Ops /\ grown \in Seq(Ops) /\ Len(grown) = Len(cur) + 1 /\ <<o>> \in Seq(Ops)
    BY <1>3, <1>5, <1>7, AppendProperties
  <2>2. FlattenSeq(batches) \o grown = Append(Made, o) /\ Made \in Seq(Ops)
    <3> DEFINE m == FlattenSeq(batches)
    <3>1. m \in Seq(Ops)
      BY <1>5
    <3> HIDE DEF m
    <3>2. m \o cur \in Seq(Ops)
      BY <1>5, <3>1, ConcatProperties
    <3>3. grown = cur \o <<o>> /\ Append(m \o cur, o) = (m \o cur) \o <<o>>
      BY <1>5, <2>1, <3>2, AppendIsConcat
    <3>4. (m \o cur) \o <<o>> = m \o (cur \o <<o>>)
      BY <1>5, <2>1, <3>1, ConcatAssociative
    <3> QED BY <3>2, <3>3, <3>4 DEF m, Made
  <2> HIDE DEF grown
  <2>3. CASE Len(grown) >= BatchSize
    <3>1. batches' = Append(batches, grown) /\ cur' = <<>> /\ Len(grown) = BatchSize
      BY <1>4, <1>5, <1>7, <2>1, <2>3
    <3>2. FlattenSeq(batches') = FlattenSeq(batches) \o grown /\ FlattenSeq(batches') \in Seq(Ops)
      <4>1. FlattenSeq(Append(batches, grown)) = FlattenSeq(batches) \o grown
        BY <1>5, <2>1, FlattenFacts
      <4>2. FlattenSeq(batches) \o grown \in Seq(Ops)
        BY <1>5, <2>1, ConcatProperties
      <4> QED BY <3>1, <4>1, <4>2
    <3>3. FlattenSeq(batches') \o <<>> = FlattenSeq(batches')
      BY <3>2, ConcatEmptySeq
    <3>4. Made' = Append(Made, o)
      BY <2>2, <3>1, <3>2, <3>3 DEF Made
    <3>5. \A i \in DOMAIN batches' : Len(batches'[i]) = BatchSize
      <4>1. /\ Len(batches) \in Nat /\ DOMAIN batches = 1 .. Len(batches)
            /\ DOMAIN batches' = 1 .. Len(batches) + 1
            /\ batches'[Len(batches) + 1] = grown
            /\ \A i \in 1 .. Len(batches) : batches'[i] = batches[i]
        BY <1>5, <2>1, <3>1
      <4>2. \A i \in DOMAIN batches' : i \in DOMAIN batches \/ i = Len(batches) + 1
        BY <4>1
      <4> QED BY <1>5, <3>1, <4>1, <4>2
    <3>6. Len(cur') < BatchSize
      BY <1>5, <3>1
    <3> QED BY <1>2, <1>3, <1>4, <1>7, <3>4, <3>5, <3>6 DEF k, e, taken, o
  <2>4. CASE ~(Len(grown) >= BatchSize)
    <3>1. cur' = grown /\ batches' = batches /\ Len(grown) < BatchSize
      BY <1>4, <1>5, <1>7, <2>1, <2>4
    <3>2. Made' = Append(Made, o)
      BY <2>2, <3>1 DEF Made
    <3> QED BY <1>2, <1>3, <1>4, <1>5, <1>7, <3>1, <3>2 DEF k, e, taken, o
  <2> QED BY <2>3, <2>4
<1> QED BY <1>6, <1>7

\* A row of the second loop keeps the bookkeeping of the operations made.
LEMMA TailRowKeeps ==
  ASSUME TypeInv, TailInv, TailRow
  PROVE  TailInv'
<1> DEFINE k == IF source = "rewind" THEN at ELSE at + 1
           e == {rows[k][1], rows[k][2]}
           taken == rows[k][1] # rows[k][2] /\ Fresh(e)
           o == Op2(source = "rewind", e)
           n == Len(rows)
<1>1. /\ k \in 1 .. n
      /\ at' = IF source = "rewind" THEN k - 1 ELSE k
      /\ ~taken => seen' = seen /\ Made' = Made
      /\ taken => /\ seen' = IF source = "rewind" THEN seen \ {e} ELSE seen \cup {e}
                  /\ o \in Ops /\ o.edge = e /\ Made' = Append(Made, o)
      /\ \A i \in DOMAIN batches' : Len(batches'[i]) = BatchSize
      /\ Len(cur') < BatchSize
  BY TailRowFacts
<1>2. UNCHANGED <<source, rows, cut, start, InitialEnd>>
  BY DEF TailRow, files, InitialEnd
<1>3. /\ rows \in Seq(Row) /\ n \in Nat /\ cut \in 0 .. n /\ at \in cut .. n
      /\ IF source = "rewind" THEN at > cut /\ k = at ELSE at < n /\ k = at + 1
  BY DEF TypeInv, TailInv, TailRow, TailLeft
<1>4. at' \in cut .. n
  <2>1. CASE source = "rewind"
    BY <1>1, <1>3, <2>1
  <2>2. CASE source # "rewind"
    BY <1>1, <1>3, <2>2
  <2> QED BY <2>1, <2>2
<1>5. Between(rows, k, k) = IF rows[k][1] = rows[k][2] THEN {} ELSE {e}
  <2>1. k \in Nat \ {0} /\ k <= Len(rows)
    BY <1>1, <1>3
  <2> HIDE DEF k
  <2> QED BY <1>3, <2>1, BetweenFacts
<1>6. taken <=> rows[k][1] # rows[k][2] /\ IF source = "rewind" THEN e \in seen ELSE e \notin seen
  BY DEF Fresh
<1>7. Made \in Seq(Ops)
  <2>1. cur \in Seq(Ops) /\ batches \in Seq(Seq(Ops))
    BY DEF TypeInv
  <2>2. FlattenSeq(batches) \in Seq(Ops)
    BY <2>1, FlattenFacts
  <2> QED BY <2>1, <2>2, ConcatProperties DEF Made
<1> HIDE DEF e, o, taken, n
<1>8. MadeEdges' = IF taken THEN MadeEdges \cup {e} ELSE MadeEdges
  <2>1. CASE taken
    <3>1. ToSet(Append(Made, o)) = ToSet(Made) \cup {o}
      BY <1>1, <1>7, <2>1, ElementsFacts
    <3>2. ToSet(Made') = ToSet(Made) \cup {o} /\ o.edge = e
      BY <1>1, <2>1, <3>1
    <3> QED BY <2>1, <3>2 DEF MadeEdges
  <2>2. CASE ~taken
    BY <1>1, <2>2 DEF MadeEdges
  <2> QED BY <2>1, <2>2
<1>9. start = Between(rows, 1, InitialEnd) /\ IsInjective([i \in DOMAIN Made |-> Made[i].edge])
  BY DEF TailInv
<1>10. CASE source = "rewind"
  <2>1. MadeEdges = Between(rows, at + 1, n) /\ seen = start \ MadeEdges /\ k = at /\ at' = at - 1
    BY <1>1, <1>3, <1>10 DEF TailInv, n
  <2>2. Between(rows, at, n) = Between(rows, at + 1, n) \cup Between(rows, k, k)
    <3>1. at \in Nat \ {0} /\ n <= Len(rows) /\ at <= n
      BY <1>1, <1>3, <2>1 DEF n
    <3> QED BY <1>3, <2>1, <3>1, BetweenFacts
  <2>3. rows[k][1] # rows[k][2] => e \in start
    <3>1. InitialEnd = n
      BY <1>10 DEF InitialEnd, n
    <3>2. Between(rows, k, k) \subseteq Between(rows, 1, n)
      BY <1>1, <1>3 DEF Between
    <3> QED BY <1>5, <1>9, <3>1, <3>2
  <2>4. MadeEdges' = Between(rows, at' + 1, n)
    <3>1. at' + 1 = at
      BY <1>3, <2>1
    <3> QED BY <1>5, <1>6, <1>8, <1>10, <2>1, <2>2, <2>3, <3>1
  <2>5. seen' = start \ MadeEdges'
    BY <1>1, <1>8, <1>10, <2>1
  <2>6. taken => e \notin MadeEdges
    BY <1>6, <1>10, <2>1
  <2>7. IsInjective([i \in DOMAIN Made |-> Made[i].edge])'
    <3>1. CASE taken
      <4>1. o.edge \notin {p.edge : p \in ToSet(Made)}
        BY <1>1, <2>6, <3>1 DEF MadeEdges
      <4> QED BY <1>1, <1>7, <1>9, <3>1, <4>1, MadeGrows
    <3>2. CASE ~taken
      BY <1>1, <1>9, <3>2
    <3> QED BY <3>1, <3>2
  <2> QED BY <1>1, <1>2, <1>4, <1>9, <1>10, <2>4, <2>5, <2>7 DEF TailInv, n
<1>11. CASE source # "rewind"
  <2>1. seen = Between(rows, 1, at) /\ MadeEdges = seen \ start /\ k = at + 1 /\ at' = at + 1
    BY <1>1, <1>3, <1>11 DEF TailInv
  <2>2. Between(rows, 1, k) = Between(rows, 1, k - 1) \cup Between(rows, k, k) /\ k - 1 = at
    <3>1. 1 \in Nat \ {0} /\ k \in Nat /\ k <= Len(rows) /\ 1 <= k /\ k - 1 = at
      BY <1>1, <1>3, <2>1 DEF n
    <3> HIDE DEF k
    <3> QED BY <1>3, <3>1, BetweenFacts
  <2>3. start \subseteq seen
    <3>1. InitialEnd = cut /\ cut <= at
      BY <1>3, <1>11 DEF InitialEnd
    <3>2. \A i \in 1 .. cut : i \in 1 .. at
      BY <1>3, <3>1
    <3> QED BY <1>9, <2>1, <3>1, <3>2 DEF Between
  <2>4. seen' = IF taken THEN seen \cup {e} ELSE seen
    BY <1>1, <1>11
  <2>5. seen' = Between(rows, 1, at')
    BY <1>5, <1>6, <1>11, <2>1, <2>2, <2>4
  <2>6. MadeEdges' = seen' \ start
    BY <1>6, <1>8, <1>11, <2>1, <2>3, <2>4
  <2>7. taken => e \notin MadeEdges
    BY <1>6, <1>11, <2>1
  <2>8. IsInjective([i \in DOMAIN Made |-> Made[i].edge])'
    <3>1. CASE taken
      <4>1. o.edge \notin {p.edge : p \in ToSet(Made)}
        BY <1>1, <2>7, <3>1 DEF MadeEdges
      <4> QED BY <1>1, <1>7, <1>9, <3>1, <4>1, MadeGrows
    <3>2. CASE ~taken
      BY <1>1, <1>9, <3>2
    <3> QED BY <3>1, <3>2
  <2> QED BY <1>1, <1>2, <1>4, <1>9, <1>11, <2>5, <2>6, <2>8 DEF TailInv, n
<1> QED BY <1>10, <1>11

\* When both loops of snap are over, what it writes is exact.
LEMMA SaveSnapExact ==
  ASSUME TypeInv, TailInv, SaveSnap, source # "gen"
  PROVE  SnapExact'
<1> DEFINE n == Len(rows)
           before == Between(rows, 1, cut)
           after == Between(rows, cut + 1, n)
<1>1. /\ UNCHANGED <<source, rows, cut, start>> /\ stage = "tail" /\ ~TailLeft
      /\ batches' = Flushed([done |-> batches, cur |-> cur])
  BY DEF SaveSnap, snapVars
<1>2. /\ rows \in Seq(Row) /\ n \in Nat /\ cut \in 0 .. n /\ at \in cut .. n
      /\ cur \in Seq(Ops) /\ batches \in Seq(Seq(Ops)) /\ source \in {"append", "rewind"}
      /\ BatchSize \in Nat \ {0}
  BY StreamsAssumption DEF TypeInv, TailInv
<1>3. EdgesOf(SubSeq(rows, 1, cut)) = before /\ EdgesOf(SubSeq(rows, cut + 1, n)) = after
  <2>1. 1 \in Nat \ {0} /\ cut \in Nat /\ cut <= Len(rows) /\ cut + 1 \in Nat \ {0} /\ n <= Len(rows)
    BY <1>2
  <2> QED BY <1>2, <2>1, EdgesOfPart
<1>4. Between(rows, 1, n) = before \cup after
  BY <1>2, BetweenSplit
<1> HIDE DEF n, before, after
<1>5. start = (IF source = "rewind" THEN before \cup after ELSE before)
      /\ MadeEdges = IF source = "rewind" THEN after ELSE after \ before
  <2>1. CASE source = "rewind"
    <3>1. at = cut
      BY <1>1, <1>2, <2>1 DEF TailLeft
    <3>2. InitialEnd = n
      BY <2>1 DEF InitialEnd, n
    <3> QED BY <1>4, <2>1, <3>1, <3>2 DEF TailInv, after, n
  <2>2. CASE source # "rewind"
    <3>1. at = n
      BY <1>1, <1>2, <2>2 DEF TailLeft, n
    <3>2. InitialEnd = cut
      BY <2>2 DEF InitialEnd
    <3> QED BY <1>4, <2>2, <3>1, <3>2 DEF TailInv, before
  <2> QED BY <2>1, <2>2
<1>6. FlattenSeq(batches') = Made
  <2>1. CASE cur = <<>>
    <3>1. batches' = batches
      BY <1>1, <2>1 DEF Flushed
    <3>2. FlattenSeq(batches) \in Seq(Ops)
      BY <1>2, FlattenFacts
    <3> QED BY <2>1, <3>1, <3>2, ConcatEmptySeq DEF Made
  <2>2. CASE cur # <<>>
    <3>1. batches' = Append(batches, cur)
      BY <1>1, <2>2 DEF Flushed
    <3> QED BY <1>2, <3>1, FlattenFacts DEF Made
  <2> QED BY <2>1, <2>2
<1>7. \A i \in DOMAIN batches' :
        Len(batches'[i]) \in (IF i < Len(batches') THEN BatchSize ELSE 1) .. BatchSize
  <2>1. /\ Len(batches) \in Nat /\ DOMAIN batches = 1 .. Len(batches)
        /\ \A i \in 1 .. Len(batches) : Len(batches[i]) = BatchSize
        /\ Len(cur) < BatchSize /\ Len(cur) \in Nat
    BY <1>2 DEF TailInv
  <2>2. CASE cur = <<>>
    <3>1. batches' = batches
      BY <1>1, <2>2 DEF Flushed
    <3> QED BY <1>2, <2>1, <3>1
  <2>3. CASE cur # <<>>
    <3>1. batches' = Append(batches, cur)
      BY <1>1, <2>3 DEF Flushed
    <3>2. /\ Len(batches') = Len(batches) + 1 /\ DOMAIN batches' = 1 .. Len(batches) + 1
          /\ batches'[Len(batches) + 1] = cur
          /\ \A i \in 1 .. Len(batches) : batches'[i] = batches[i]
      BY <1>2, <3>1
    <3>3. Len(cur) \in 1 .. BatchSize
      BY <1>2, <2>1, <2>3, EmptySeq
    <3>4. ASSUME NEW i \in 1 .. Len(batches) + 1
          PROVE  Len(batches'[i]) \in (IF i < Len(batches') THEN BatchSize ELSE 1) .. BatchSize
      <4>1. CASE i \in 1 .. Len(batches)
        BY <1>2, <2>1, <3>2, <4>1
      <4>2. CASE i = Len(batches) + 1
        BY <2>1, <3>2, <3>3, <4>2
      <4> QED BY <2>1, <4>1, <4>2
    <3> QED BY <3>2, <3>4
  <2> QED BY <2>2, <2>3
<1>8. MadeEdges = {op.edge : op \in ToSet(FlattenSeq(batches'))}
  BY <1>6 DEF MadeEdges
<1>9. IsInjective([i \in DOMAIN FlattenSeq(batches') |-> FlattenSeq(batches')[i].edge])
  BY <1>6 DEF TailInv
<1>10. EdgesOf(SubSeq(rows', 1, cut')) = before /\ EdgesOf(SubSeq(rows', cut' + 1, Len(rows'))) = after
  BY <1>1, <1>3 DEF n
<1> QED BY <1>1, <1>5, <1>7, <1>8, <1>9, <1>10 DEF SnapExact

\* The loops of snap keep its invariant.
LEMMA SnapKeeps == TypeInv /\ SnapInv /\ [Next]_vars => SnapInv'
<1> SUFFICES ASSUME TypeInv, SnapInv, [Next]_vars PROVE SnapInv'
  OBVIOUS
<1> USE DEF files, snapVars
<1>1. CASE GenLoad \/ Draw \/ EndBatch
  <2>1. source' = source /\ stage \in {"gen", "draw"}
    BY <1>1 DEF GenLoad, Draw, EndBatch
  <2> QED BY <2>1 DEF SnapInv
<1>2. CASE InitialRow
  <2>1. UNCHANGED <<stage, source, rows, cut, cur, batches>> /\ stage = "initial" /\ at' = at + 1
        /\ at < InitialEnd /\ InitialEnd' = InitialEnd
    BY <1>2 DEF InitialRow, InitialEnd
  <2>2. CASE source # "gen"
    <3>1. at \in Nat /\ start = Between(rows, 1, at) /\ seen = start /\ cur = <<>> /\ batches = <<>>
      BY <2>1, <2>2 DEF SnapInv, TypeInv
    <3>2. rows \in Seq(Row) /\ Len(rows) \in Nat /\ InitialEnd \in 0 .. Len(rows) /\ at + 1 <= InitialEnd
      BY <2>1, <3>1 DEF TypeInv, InitialEnd
    <3> DEFINE k == at + 1
               e == {rows[k][1], rows[k][2]}
    <3>3. k \in Nat \ {0} /\ k <= Len(rows) /\ 1 <= k /\ k - 1 = at
      BY <3>1, <3>2
    <3>4. /\ rows[k][1] # rows[k][2] /\ e \notin seen => seen' = seen \cup {e} /\ start' = start \cup {e}
          /\ ~(rows[k][1] # rows[k][2] /\ e \notin seen) => seen' = seen /\ start' = start
      BY <1>2 DEF InitialRow
    <3> HIDE DEF k
    <3>5. /\ Between(rows, 1, k) = Between(rows, 1, k - 1) \cup Between(rows, k, k)
          /\ Between(rows, k, k) = IF rows[k][1] = rows[k][2] THEN {} ELSE {e}
      <4>1. 1 \in Nat \ {0} /\ k \in Nat
        BY <3>3
      <4> QED BY <3>2, <3>3, <4>1, BetweenFacts
    <3>6. start' = Between(rows, 1, k) /\ seen' = start'
      BY <3>1, <3>3, <3>4, <3>5
    <3> QED BY <2>1, <3>1, <3>2, <3>6 DEF SnapInv, SnapExact, k
  <2> QED BY <2>1, <2>2 DEF SnapInv
<1>3. CASE InitialDone
  <2>1. UNCHANGED <<source, rows, cut, seen, at, start, cur, batches>> /\ stage = "initial"
        /\ stage' = "tail" /\ at = InitialEnd /\ InitialEnd' = InitialEnd
    BY <1>3 DEF InitialDone, InitialEnd
  <2>2. CASE source # "gen"
    <3>1. start = Between(rows, 1, at) /\ seen = start /\ cur = <<>> /\ batches = <<>>
      BY <2>1, <2>2 DEF SnapInv
    <3>2. rows \in Seq(Row) /\ Len(rows) \in Nat /\ cut \in 0 .. Len(rows) /\ BatchSize \in Nat \ {0}
      BY StreamsAssumption DEF TypeInv
    <3>3. Made = <<>>
      <4>1. <<>> \in Seq(Seq(Ops)) /\ <<>> \in Seq(Ops)
        OBVIOUS
      <4>2. FlattenSeq(<<>>) = <<>>
        BY <4>1, FlattenFacts
      <4> QED BY <3>1, <4>1, <4>2, ConcatEmptySeq DEF Made
    <3>4. MadeEdges = {} /\ IsInjective([i \in DOMAIN Made |-> Made[i].edge])
      BY <3>3 DEF MadeEdges, ToSet, IsInjective
    <3>5. Between(rows, at + 1, Len(rows)) = {} \/ source # "rewind"
      BY <2>1, <3>2 DEF InitialEnd, Between
    <3>6. TailInv
      BY <2>1, <3>1, <3>2, <3>4, <3>5 DEF TailInv, InitialEnd
    <3>7. TailInv'
      BY <2>1, <3>6 DEF TailInv, Made, MadeEdges
    <3> QED BY <2>1, <2>2, <3>7 DEF SnapInv, SnapExact
  <2> QED BY <2>1, <2>2 DEF SnapInv
<1>4. CASE TailRow
  <2>1. source' = source /\ stage = "tail" /\ stage' = "tail"
    BY <1>4 DEF TailRow
  <2>2. source # "gen" => TailInv'
    BY <1>4, <2>1, TailRowKeeps DEF SnapInv
  <2> QED BY <2>1, <2>2 DEF SnapInv, SnapExact
<1>5. CASE SaveSnap
  <2>1. source' = source /\ stage = "tail" /\ stage' = "ready"
    BY <1>5 DEF SaveSnap
  <2>2. source # "gen" => SnapExact'
    BY <1>5, <2>1, SaveSnapExact DEF SnapInv
  <2> QED BY <2>1, <2>2 DEF SnapInv
<1>6. CASE (\E m \in {"batch", "nomerge", "peredge"} : Open(m)) \/ Apply \/ Close
  <2>1. source' = source /\ stage' \in {"replay", "wild", "end"}
    BY <1>6 DEF Open, Apply, Close
  <2> QED BY <2>1 DEF SnapInv, SnapExact
<1>7. CASE UNCHANGED vars
  BY <1>7 DEF vars, SnapInv, SnapExact, TailInv, Made, MadeEdges, InitialEnd
<1> QED BY <1>1, <1>2, <1>3, <1>4, <1>5, <1>6, <1>7 DEF Next, Exited

\* The invariant holds in every state of gen or snap (stream.h:48, main.cpp:169), of
\* the files they leave, and of a run over these (main.cpp:81).
THEOREM Invariance == Spec => []IInv
<1>1. IInv /\ [Next]_vars => IInv'
  BY TypeKeeps, GenKeeps, SnapKeeps DEF IInv
<1> QED BY InitIInv, <1>1, PTL DEF Spec

-----------------------------------------------------------------------------
(* What a workload promises *)

\* For every graph and every sequence of draws, a replay of a generated stream never
\* names a vertex that the loaded graph lacks (stream.h:65, batch.h:474).
THEOREM GeneratedAlwaysInRange == Spec => []GeneratedInRange
<1>1. IInv => GeneratedInRange
  BY DEF IInv, GenInv, GeneratedInRange
<1> QED BY <1>1, Invariance, PTL

\* For every graph and every stream drawn from it, in batches of any size, the batch
\* engine, its one-by-one mode and the per-edge engine end on the same graph
\* (stream.h:66, batch.h:384).
THEOREM ModesAlwaysAgree == Spec => []ModesAgree
<1>1. IInv => ModesAgree
  <2> SUFFICES ASSUME GenInv, source = "gen", stage = "end"
               PROVE  g.edges = (start \ StreamEdges(TRUE)) \cup StreamEdges(FALSE)
    BY DEF IInv, ModesAgree
  <2>1. batches = <<>> /\ (start \ StreamEdges(TRUE)) \cup StreamEdges(FALSE)
          = (g.edges \ EdgesWith(TRUE, AllOf(batches))) \cup EdgesWith(FALSE, AllOf(batches))
    BY DEF GenInv
  <2>2. AllOf(batches) = {}
    BY <2>1 DEF AllOf
  <2>3. EdgesWith(TRUE, {}) = {} /\ EdgesWith(FALSE, {}) = {}
    BY DEF EdgesWith
  <2> QED BY <2>1, <2>2, <2>3
<1> QED BY <1>1, Invariance, PTL

\* For every log and every cut, what snap makes of it is exact: the starting graph,
\* the edges of the stream, each once, and full batches but the last
\* (main.cpp:169-208).
THEOREM SnapAlwaysExact == Spec => []SnapExact
<1>1. IInv => SnapExact
  BY DEF IInv, SnapInv, SnapExact
<1> QED BY <1>1, Invariance, PTL

\* Whatever graph a run ends with, what it saves loads as that graph, up to the
\* numbering and without vertices that have no edge (stream.h:38, graph.h:186).
THEOREM SavedGraphAlwaysReloads == Spec => []SavedGraphReloads
<1>1. IInv => SavedGraphReloads
  <2> SUFFICES ASSUME TypeInv, stage = "end" PROVE SavedGraphReloads
    BY DEF IInv, SavedGraphReloads
  <2> DEFINE E == g.edges
             names == FirstSeen(outFile)
  <2>1. E \in SUBSET Links /\ IsFiniteSet(E) /\ outFile \in Listings(E)
    BY DEF TypeInv
  <2>2. outFile \in Seq(Row) /\ EdgesOf(outFile) = E /\ NamesIn(outFile) = UNION E /\ IsFiniteSet(UNION E)
    BY <2>1, ListingFacts
  <2>3. /\ Loaded(outFile).n = Len(names) /\ Loaded(outFile).names = names
        /\ {{Loaded(outFile).names[v + 1] : v \in e} : e \in Loaded(outFile).edges} = E
    BY <2>2, LoadedFacts
  <2>4. names \in Seq(Nat) /\ IsInjective(names) /\ ToSet(names) = UNION E
    BY <2>2, FirstSeenFacts
  <2> HIDE DEF names, E
  <2>5. Len(names) = Cardinality(UNION E)
    <3>1. Len(names) \in Nat /\ DOMAIN names = 1 .. Len(names) /\ names \in [1 .. Len(names) -> UNION E]
      BY <2>4 DEF ToSet
    <3>2. names \in Injection(1 .. Len(names), UNION E)
      BY <2>4, <3>1 DEF Injection
    <3>3. names \in Surjection(1 .. Len(names), UNION E)
      BY <2>4, <3>1 DEF Surjection, ToSet
    <3>4. ExistsBijection(1 .. Len(names), UNION E)
      BY <3>2, <3>3 DEF Bijection, ExistsBijection
    <3> QED BY <3>1, <3>4, FS_CountingElements
  <2> QED BY <2>3, <2>5 DEF SavedGraphReloads, names, E
<1> QED BY <1>1, Invariance, PTL

-----------------------------------------------------------------------------
(* The suite and its supervisor *)

\* All scripts belong to the latest launch, and a graph whose worker is still to
\* be started has none.
ScriptInv ==
  /\ \A m \in mains : m.gen = launches /\ \A k \in mains : k = m
  /\ \A w \in workers : w.gen = launches
  /\ \A m \in mains : \A w \in workers : w.graph \notin m.todo
  /\ OneWorker

\* Runs of the program belong to the latest launch or the one before, one of each
\* for a graph; when the supervisor has seen that there are none, those that have
\* been started since belong to the latest.
BinaryInv ==
  /\ \A b \in binaries : b.gen = launches \/ b.gen + 1 = launches
  /\ \A b, c \in binaries : b.gen = c.gen /\ b.graph = c.graph => b = c
  /\ supervisor = "rp" => \A b \in binaries : b.gen = launches

\* While a slot is being measured it has been measured at most once before, and
\* not at all while it is being measured by two runs.
RowsInv ==
  /\ MeasuredTwiceAtMost
  /\ \A b \in binaries : measured[b.graph][b.slot] <= 1
  /\ \A b, c \in binaries : b.graph = c.graph /\ b.slot = c.slot /\ b # c => measured[b.graph][b.slot] = 0

\* The inductive invariant of the suite, without what it owes.
SuiteIInv == SuiteTypeOK /\ ScriptInv /\ BinaryInv /\ RowsInv

\* Before the first launch nothing is alive and nothing measured.
LEMMA SuiteInitIInv == SuiteInit => SuiteIInv
<1> SUFFICES ASSUME SuiteInit PROVE SuiteIInv
  OBVIOUS
<1>1. \A gr \in Graphs : \A i \in DOMAIN Plan : measured[gr][i] = 0
  BY DEF SuiteInit
<1>2. SuiteTypeOK BY DEF SuiteInit, SuiteTypeOK
<1>3. ScriptInv BY DEF SuiteInit, ScriptInv, OneWorker
<1>4. BinaryInv BY DEF SuiteInit, BinaryInv
<1>5. RowsInv BY <1>1 DEF SuiteInit, RowsInv, MeasuredTwiceAtMost
<1> QED BY <1>2, <1>3, <1>4, <1>5 DEF SuiteIInv

\* The supervisor's steps keep the invariant: only CountScripts starts anything,
\* and then nothing but runs of the previous launch is alive.
LEMMA SupervisorKeeps == SuiteIInv /\ SupervisorStep => SuiteIInv'
<1> SUFFICES ASSUME SuiteIInv, SupervisorStep PROVE SuiteIInv'
  OBVIOUS
<1>1. CASE Grep
  <2> USE <1>1 DEF Grep, suite, disk, faults
  <2>1. SuiteTypeOK' BY DEF SuiteIInv, SuiteTypeOK
  <2>2. ScriptInv' BY DEF SuiteIInv, ScriptInv, OneWorker
  <2>3. BinaryInv' BY DEF SuiteIInv, BinaryInv
  <2>4. RowsInv' BY DEF SuiteIInv, RowsInv, MeasuredTwiceAtMost
  <2> QED BY <2>1, <2>2, <2>3, <2>4 DEF SuiteIInv
<1>2. CASE CountBinaries
  <2> USE <1>2 DEF CountBinaries, suite, disk, faults
  <2>1. SuiteTypeOK' BY DEF SuiteIInv, SuiteTypeOK
  <2>2. ScriptInv' BY DEF SuiteIInv, ScriptInv, OneWorker
  <2>3. BinaryInv' BY DEF SuiteIInv, BinaryInv, NoBinary
  <2>4. RowsInv' BY DEF SuiteIInv, RowsInv, MeasuredTwiceAtMost
  <2> QED BY <2>1, <2>2, <2>3, <2>4 DEF SuiteIInv
<1>3. CASE CountScripts
  <2> USE <1>3 DEF CountScripts, disk
  <2>1. SuiteTypeOK' BY DEF SuiteIInv, SuiteTypeOK
  <2>2. ScriptInv' BY DEF SuiteIInv, SuiteTypeOK, ScriptInv, OneWorker, NoScript
  <2>3. BinaryInv' BY DEF SuiteIInv, SuiteTypeOK, BinaryInv
  <2>4. RowsInv' BY DEF SuiteIInv, RowsInv, MeasuredTwiceAtMost
  <2> QED BY <2>1, <2>2, <2>3, <2>4 DEF SuiteIInv
<1> QED BY <1>1, <1>2, <1>3 DEF SupervisorStep

\* The main script's steps keep the invariant.
LEMMA MainKeeps ==
  ASSUME SuiteIInv, NEW gr \in Graphs, StartWorker(gr) \/ MainDone
  PROVE  SuiteIInv'
<1>1. CASE StartWorker(gr)
  <2>1. PICK m \in mains :
          /\ gr \in m.todo
          /\ mains' = (mains \ {m}) \cup {[m EXCEPT !.todo = @ \ {gr}]}
          /\ workers' = workers \cup {[gen |-> m.gen, graph |-> gr, slot |-> 1]}
          /\ UNCHANGED <<supervisor, launches, binaries, disk, faults>>
    BY <1>1 DEF StartWorker
  <2> USE <2>1 DEF disk, faults
  <2>2. m \in [gen : Nat, todo : SUBSET Graphs] /\ m.gen = launches /\ mains = {m}
    BY DEF SuiteIInv, SuiteTypeOK, ScriptInv
  <2>3. mains' = {[gen |-> launches, todo |-> m.todo \ {gr}]}
    BY <2>2
  <2>4. SuiteTypeOK' BY <2>2, <2>3 DEF SuiteIInv, SuiteTypeOK
  <2>5. ScriptInv'
    <3>1. \A v \in workers' : v.gen = launches /\ (v \in workers \/ v.graph = gr)
      BY <2>2 DEF SuiteIInv, ScriptInv
    <3>2. \A v \in workers : v.graph # gr /\ v.graph \notin m.todo
      BY DEF SuiteIInv, ScriptInv
    <3>3. \A v \in workers' : v.graph \notin m.todo \ {gr}
      BY <3>1, <3>2
    <3>4. OneWorker'
      BY <3>2 DEF SuiteIInv, ScriptInv, OneWorker
    <3>5. \A k \in mains' : k.gen = launches /\ k.todo = m.todo \ {gr} /\ \A j \in mains' : j = k
      <4> DEFINE rest == [gen |-> launches, todo |-> m.todo \ {gr}]
      <4>1. rest.gen = launches /\ rest.todo = m.todo \ {gr}
        OBVIOUS
      <4>2. mains' = {rest}
        BY <2>3
      <4> HIDE DEF rest
      <4> QED BY <4>1, <4>2
    <3> QED BY <3>1, <3>3, <3>4, <3>5 DEF ScriptInv
  <2>6. BinaryInv' BY DEF SuiteIInv, BinaryInv
  <2>7. RowsInv' BY DEF SuiteIInv, RowsInv, MeasuredTwiceAtMost
  <2> QED BY <2>4, <2>5, <2>6, <2>7 DEF SuiteIInv
<1>2. CASE MainDone
  <2> USE <1>2 DEF MainDone, faults
  <2>1. SuiteTypeOK' BY DEF SuiteIInv, SuiteTypeOK
  <2>2. ScriptInv' BY DEF SuiteIInv, ScriptInv, OneWorker
  <2>3. BinaryInv' BY DEF SuiteIInv, BinaryInv
  <2>4. RowsInv' BY DEF SuiteIInv, RowsInv, MeasuredTwiceAtMost
  <2> QED BY <2>1, <2>2, <2>3, <2>4 DEF SuiteIInv
<1> QED BY <1>1, <1>2

\* A worker's step keeps the invariant: it starts a run only of a slot without
\* rows, and only when its previous one has ended.
LEMMA WorkerKeeps ==
  ASSUME SuiteIInv, NEW gr \in Graphs, Worker(gr)
  PROVE  SuiteIInv'
<1>1. PICK w \in workers :
        /\ w.graph = gr /\ ~Waits(w)
        /\ IF w.slot \in DOMAIN Plan
           THEN workers' = (workers \ {w}) \cup {[w EXCEPT !.slot = @ + 1]}
           ELSE workers' = workers \ {w}
        /\ binaries' = IF w.slot \in DOMAIN Plan /\ measured[gr][w.slot] = 0
                       THEN binaries \cup {[gen |-> w.gen, graph |-> gr, slot |-> w.slot, done |-> FALSE]}
                       ELSE binaries
        /\ UNCHANGED <<supervisor, launches, mains, disk, faults>>
  BY DEF Worker
<1> USE <1>1 DEF disk, faults
<1>2. w \in [gen : Nat, graph : Graphs, slot : Nat \ {0}] /\ w.gen = launches
  BY DEF SuiteIInv, SuiteTypeOK, ScriptInv
<1> DEFINE next == [gen |-> launches, graph |-> gr, slot |-> w.slot + 1]
           run == [gen |-> launches, graph |-> gr, slot |-> w.slot, done |-> FALSE]
<1>3. workers' \subseteq (workers \ {w}) \cup {next}
  BY <1>2
<1>4. binaries' \subseteq binaries \cup {run}
  BY <1>2
<1>5. SuiteTypeOK'
  <2>1. workers' \subseteq [gen : Nat, graph : Graphs, slot : Nat \ {0}]
    BY <1>2, <1>3 DEF SuiteIInv, SuiteTypeOK
  <2>2. binaries' \subseteq [gen : Nat, graph : Graphs, slot : DOMAIN Plan, done : BOOLEAN]
    <3>1. CASE binaries' = binaries
      BY <3>1 DEF SuiteIInv, SuiteTypeOK
    <3>2. CASE binaries' # binaries
      <4>1. w.slot \in DOMAIN Plan
        BY <3>2
      <4>2. run \in [gen : Nat, graph : Graphs, slot : DOMAIN Plan, done : BOOLEAN]
        BY <1>2, <4>1 DEF SuiteIInv, SuiteTypeOK
      <4> HIDE DEF run
      <4> QED BY <1>4, <4>2 DEF SuiteIInv, SuiteTypeOK
    <3> QED BY <3>1, <3>2
  <2> QED BY <2>1, <2>2 DEF SuiteIInv, SuiteTypeOK
<1>6. ScriptInv' BY <1>2, <1>3 DEF SuiteIInv, ScriptInv, OneWorker
<1>7. BinaryInv'
  <2>1. \A b \in binaries : ~(b.gen = launches /\ b.graph = gr)
    BY <1>2 DEF Waits
  <2>2. run.gen = launches /\ run.graph = gr
    OBVIOUS
  <2> HIDE DEF run
  <2>3. \A b \in binaries' : b.gen = launches \/ b.gen + 1 = launches
    BY <1>4, <2>2 DEF SuiteIInv, BinaryInv
  <2>4. \A b, c \in binaries' : b.gen = c.gen /\ b.graph = c.graph => b = c
    BY <1>4, <2>1, <2>2 DEF SuiteIInv, BinaryInv
  <2>5. supervisor' = "rp" => \A b \in binaries' : b.gen = launches
    BY <1>4, <2>2 DEF SuiteIInv, BinaryInv
  <2> QED BY <2>3, <2>4, <2>5 DEF BinaryInv
<1>8. RowsInv'
  <2>1. \A b \in binaries' : b \in binaries \/ measured[b.graph][b.slot] = 0
    BY <1>2
  <2>2. \A b, c \in binaries' :
          b.graph = c.graph /\ b.slot = c.slot /\ b # c => measured[b.graph][b.slot] = 0
    BY <1>2, <2>1 DEF SuiteIInv, RowsInv
  <2> QED BY <2>1, <2>2 DEF SuiteIInv, RowsInv, MeasuredTwiceAtMost
<1> QED BY <1>5, <1>6, <1>7, <1>8 DEF SuiteIInv

\* A step of the program keeps the invariant: of three runs of one slot, two would
\* be of one launch.
LEMMA BinaryKeeps ==
  ASSUME SuiteIInv, NEW gr \in Graphs, Binary(gr)
  PROVE  SuiteIInv'
<1>1. PICK b \in binaries : b.graph = gr /\ (Compute(b) \/ Flush(b))
  BY DEF Binary
<1> USE DEF Binary, faults
<1>2. b \in [gen : Nat, graph : Graphs, slot : DOMAIN Plan, done : BOOLEAN]
  BY <1>1 DEF SuiteIInv, SuiteTypeOK
<1>3. ScriptInv' BY DEF SuiteIInv, ScriptInv, OneWorker
<1>4. CASE Compute(b)
  <2> USE <1>1, <1>4 DEF Compute
  <2> DEFINE over == [gen |-> b.gen, graph |-> b.graph, slot |-> b.slot, done |-> TRUE]
  <2>1. binaries' \subseteq (binaries \ {b}) \cup {over}
    BY <1>2
  <2>2. SuiteTypeOK'
    <3>1. binaries' \subseteq [gen : Nat, graph : Graphs, slot : DOMAIN Plan, done : BOOLEAN]
      BY <1>2, <2>1 DEF SuiteIInv, SuiteTypeOK
    <3> QED BY <1>2, <3>1 DEF SuiteIInv, SuiteTypeOK
  <2>5. over.gen = b.gen /\ over.graph = b.graph /\ over.slot = b.slot
    OBVIOUS
  <2> HIDE DEF over
  <2>3. BinaryInv'
    <3>1. \A x \in binaries' : x.gen = launches \/ x.gen + 1 = launches
      BY <2>1, <2>5 DEF SuiteIInv, BinaryInv
    <3>2. \A x, z \in binaries' : x.gen = z.gen /\ x.graph = z.graph => x = z
      BY <2>1, <2>5 DEF SuiteIInv, BinaryInv
    <3>3. supervisor = "rp" => \A x \in binaries' : x.gen = launches
      BY <2>1, <2>5 DEF SuiteIInv, BinaryInv
    <3> QED BY <3>1, <3>2, <3>3 DEF BinaryInv
  <2>4. RowsInv'
    <3>1. \A x \in binaries' : measured[x.graph][x.slot] <= 1
      BY <2>1, <2>5 DEF SuiteIInv, RowsInv
    <3>2. \A x, z \in binaries' : x.graph = z.graph /\ x.slot = z.slot /\ x # z
            => measured[x.graph][x.slot] = 0
      BY <2>1, <2>5 DEF SuiteIInv, RowsInv
    <3> QED BY <3>1, <3>2 DEF SuiteIInv, RowsInv, MeasuredTwiceAtMost
  <2> QED BY <1>3, <2>2, <2>3, <2>4 DEF SuiteIInv
<1>5. CASE Flush(b)
  <2> USE <1>1, <1>5 DEF Flush
  <2>1. SuiteTypeOK' BY <1>2 DEF SuiteIInv, SuiteTypeOK
  <2>2. BinaryInv' BY DEF SuiteIInv, BinaryInv
  <2>3. RowsInv'
    <3> DEFINE here(x) == x.graph = b.graph /\ x.slot = b.slot
    <3>1. measured[b.graph][b.slot] \in Nat /\ measured[b.graph][b.slot] <= 1
      BY <1>2 DEF SuiteIInv, SuiteTypeOK, RowsInv
    <3>2. \A h \in Graphs : \A i \in DOMAIN Plan :
            measured'[h][i] = IF h = b.graph /\ i = b.slot THEN measured[h][i] + 1 ELSE measured[h][i]
      BY <1>2 DEF SuiteIInv, SuiteTypeOK
    <3>3. MeasuredTwiceAtMost'
      BY <3>1, <3>2 DEF SuiteIInv, SuiteTypeOK, RowsInv, MeasuredTwiceAtMost
    <3>4. \A x \in binaries' : x.graph \in Graphs /\ x.slot \in DOMAIN Plan
      BY DEF SuiteIInv, SuiteTypeOK
    <3>5. \A x \in binaries' : here(x) => measured[b.graph][b.slot] = 0
      BY DEF SuiteIInv, RowsInv
    <3>6. \A x \in binaries' : measured'[x.graph][x.slot] <= 1
      BY <3>2, <3>4, <3>5 DEF SuiteIInv, RowsInv
    <3>7. \A x, z \in binaries' : here(x) /\ here(z) => x = z
      <4> SUFFICES ASSUME NEW x \in binaries', NEW z \in binaries', here(x), here(z) PROVE x = z
        OBVIOUS
      <4>1. x # b /\ z # b /\ x \in binaries /\ z \in binaries
        OBVIOUS
      <4>2. x.gen \in Nat /\ z.gen \in Nat /\ launches \in Nat
        BY <4>1 DEF SuiteIInv, SuiteTypeOK
      <4>3. x.gen # b.gen /\ z.gen # b.gen
        BY <4>1 DEF SuiteIInv, BinaryInv
      <4>4. x.gen = z.gen
        BY <1>2, <4>1, <4>2, <4>3 DEF SuiteIInv, BinaryInv
      <4> QED BY <4>1, <4>4 DEF SuiteIInv, BinaryInv
    <3>8. \A x, z \in binaries' : x.graph = z.graph /\ x.slot = z.slot /\ x # z
            => measured'[x.graph][x.slot] = 0
      BY <3>2, <3>4, <3>7 DEF SuiteIInv, RowsInv
    <3> QED BY <3>3, <3>6, <3>8 DEF RowsInv
  <2> QED BY <1>3, <2>1, <2>2, <2>3 DEF SuiteIInv
<1> QED BY <1>1, <1>4, <1>5

\* Taking processes away keeps the invariant.
LEMMA KillKeeps == SuiteIInv /\ Kill => SuiteIInv'
<1> SUFFICES ASSUME SuiteIInv, Kill PROVE SuiteIInv'
  OBVIOUS
<1>1. /\ mains' \subseteq mains /\ workers' \subseteq workers /\ binaries' \subseteq binaries
      /\ lost' \subseteq Graphs
  BY DEF SuiteIInv, SuiteTypeOK, Kill, KillMain, KillScripts, KillWorker, KillBinary
<1> USE <1>1 DEF Kill, disk
<1>2. SuiteTypeOK' BY DEF SuiteIInv, SuiteTypeOK
<1>3. ScriptInv' BY DEF SuiteIInv, ScriptInv, OneWorker
<1>4. BinaryInv' BY DEF SuiteIInv, BinaryInv
<1>5. RowsInv' BY DEF SuiteIInv, RowsInv, MeasuredTwiceAtMost
<1> QED BY <1>2, <1>3, <1>4, <1>5 DEF SuiteIInv

\* Every step of the suite, its supervisor and the kills keeps the invariant.
LEMMA SuiteStep == SuiteIInv /\ [SuiteNext]_suiteVars => SuiteIInv'
<1> SUFFICES ASSUME SuiteIInv, [SuiteNext]_suiteVars PROVE SuiteIInv'
  OBVIOUS
<1>1. CASE UNCHANGED suiteVars
  BY <1>1 DEF suiteVars, suite, disk, faults, SuiteIInv, SuiteTypeOK, ScriptInv, OneWorker, BinaryInv,
              RowsInv, MeasuredTwiceAtMost
<1>2. CASE SupervisorStep BY <1>2, SupervisorKeeps
<1>3. CASE MainDone
  <2>1. CASE Graphs = {}
    BY <1>3, <2>1 DEF MainDone, suite, disk, faults, SuiteIInv, SuiteTypeOK, ScriptInv, OneWorker,
                     BinaryInv, RowsInv, MeasuredTwiceAtMost
  <2> QED BY <1>3, <2>1, MainKeeps
<1>4. ASSUME NEW gr \in Graphs, StartWorker(gr) \/ Worker(gr) \/ Binary(gr) PROVE SuiteIInv'
  BY <1>4, MainKeeps, WorkerKeeps, BinaryKeeps
<1>5. CASE Kill BY <1>5, KillKeeps
<1>6. CASE Over BY <1>1, <1>6 DEF Over
<1> QED BY <1>1, <1>2, <1>3, <1>4, <1>5, <1>6 DEF SuiteNext

\* The invariant of the suite and its supervisor.
THEOREM SuiteInvariance == SuiteSafety => []SuiteIInv
BY SuiteInitIInv, SuiteStep, PTL DEF SuiteSafety

\* No two workers ever count the rows of one graph (supervise.sh:12-15).
THEOREM WorkerUnique == SuiteSafety => []OneWorker
BY SuiteInvariance, PTL DEF SuiteIInv, ScriptInv

\* No slot is measured more than twice, whatever is killed and however often the
\* suite is started again (supervise.sh:11).
THEOREM AtMostTwice == SuiteSafety => []MeasuredTwiceAtMost
BY SuiteInvariance, PTL DEF SuiteIInv, RowsInv

-----------------------------------------------------------------------------
(* That a finished suite is complete *)

\* A slot that saves the final graph has left it when its rows are there.
FinalsInv ==
  /\ \A b \in binaries : b.done /\ Plan[b.slot] = "save" => b.graph \in finals
  /\ \A gr \in Graphs : \A i \in DOMAIN Plan : measured[gr][i] > 0 /\ Plan[i] = "save" => gr \in finals

\* The slots of graph g below slot n have their rows or are being measured by the
\* latest launch.
SettledBelow(gr, n) ==
  \A i \in DOMAIN Plan : i < n =>
    measured[gr][i] > 0 \/ \E b \in binaries : b.gen = launches /\ b.graph = gr /\ b.slot = i

\* What a suite under way owes a graph that has lost nothing: its worker stands
\* behind the slots that are settled, or has gone through all of them.
ProgressInv ==
  \A m \in mains : \A gr \in Graphs \ (m.todo \cup lost) :
    \/ \E w \in workers : w.graph = gr /\ SettledBelow(gr, w.slot)
    \/ \A i \in DOMAIN Plan : measured[gr][i] > 0

\* The invariant with what is owed.
CInv == SuiteIInv /\ FinalsInv /\ ProgressInv

\* Nothing is owed before the first launch.
LEMMA InitCInv == SuiteInit => CInv
BY SuiteInitIInv DEF SuiteInit, CInv, FinalsInv, ProgressInv

\* FinalsInv rests on nothing else: only the program's runs touch the disk.
LEMMA FinalsKeeps == SuiteIInv /\ FinalsInv /\ [SuiteNext]_suiteVars => FinalsInv'
<1> SUFFICES ASSUME SuiteIInv, FinalsInv, [SuiteNext]_suiteVars PROVE FinalsInv'
  OBVIOUS
<1>1. ASSUME binaries' \subseteq binaries, UNCHANGED <<measured, finals>> PROVE FinalsInv'
  BY <1>1 DEF FinalsInv
<1>2. ASSUME NEW gr \in Graphs, Worker(gr) PROVE FinalsInv'
  <2>1. PICK w \in workers :
          binaries' = IF w.slot \in DOMAIN Plan /\ measured[gr][w.slot] = 0
                      THEN binaries \cup {[gen |-> w.gen, graph |-> gr, slot |-> w.slot, done |-> FALSE]}
                      ELSE binaries
    BY <1>2 DEF Worker
  <2>2. \A b \in binaries' : b \in binaries \/ b.done = FALSE
    BY <2>1
  <2> QED BY <1>2, <2>2 DEF Worker, FinalsInv, disk
<1>3. ASSUME NEW gr \in Graphs, Binary(gr) PROVE FinalsInv'
  <2>1. PICK b \in binaries : b.graph = gr /\ (Compute(b) \/ Flush(b))
    BY <1>3 DEF Binary
  <2>2. b \in [gen : Nat, graph : Graphs, slot : DOMAIN Plan, done : BOOLEAN]
    BY <2>1 DEF SuiteIInv, SuiteTypeOK
  <2>3. CASE Compute(b)
    <3> DEFINE over == [b EXCEPT !.done = TRUE]
    <3>1. over.graph = b.graph /\ over.slot = b.slot
      BY <2>2
    <3>2. binaries' \subseteq (binaries \ {b}) \cup {over}
      BY <2>3 DEF Compute
    <3>3. finals \subseteq finals' /\ (Plan[b.slot] = "save" => b.graph \in finals') /\ measured' = measured
      BY <2>3 DEF Compute
    <3> HIDE DEF over
    <3>4. \A x \in binaries' : x.done /\ Plan[x.slot] = "save" => x.graph \in finals'
      BY <3>1, <3>2, <3>3 DEF FinalsInv
    <3> QED BY <3>3, <3>4 DEF FinalsInv
  <2>4. CASE Flush(b)
    <3>1. \A h \in Graphs : \A i \in DOMAIN Plan :
            measured'[h][i] = IF h = b.graph /\ i = b.slot THEN measured[h][i] + 1 ELSE measured[h][i]
      BY <2>2, <2>4 DEF Flush, SuiteIInv, SuiteTypeOK
    <3> QED BY <2>4, <3>1 DEF Flush, FinalsInv
  <2> QED BY <2>1, <2>3, <2>4
<1>4. CASE UNCHANGED suiteVars BY <1>1, <1>4 DEF suiteVars, suite, disk
<1>5. CASE SupervisorStep
  BY <1>1, <1>5 DEF SupervisorStep, Grep, CountBinaries, CountScripts, suite, disk
<1>6. CASE MainDone BY <1>1, <1>6 DEF MainDone
<1>7. ASSUME NEW gr \in Graphs, StartWorker(gr) PROVE FinalsInv'
  BY <1>1, <1>7 DEF StartWorker, disk
<1>8. CASE Kill
  BY <1>1, <1>8 DEF Kill, KillMain, KillScripts, KillWorker, KillBinary, disk
<1>9. CASE Over BY <1>4, <1>9 DEF Over
<1> QED BY <1>2, <1>3, <1>4, <1>5, <1>6, <1>7, <1>8, <1>9 DEF SuiteNext

\* A worker that has started a slot's run stands behind that slot too; one that
\* has come to the end of its plan has left every slot with its rows.
LEMMA WorkerProgress ==
  ASSUME CInv, NEW gr \in Graphs, Worker(gr)
  PROVE  ProgressInv'
<1>1. PICK w \in workers :
        /\ w.graph = gr /\ ~Waits(w)
        /\ IF w.slot \in DOMAIN Plan
           THEN workers' = (workers \ {w}) \cup {[w EXCEPT !.slot = @ + 1]}
           ELSE workers' = workers \ {w}
        /\ binaries' = IF w.slot \in DOMAIN Plan /\ measured[gr][w.slot] = 0
                       THEN binaries \cup {[gen |-> w.gen, graph |-> gr, slot |-> w.slot, done |-> FALSE]}
                       ELSE binaries
        /\ UNCHANGED <<supervisor, launches, mains, disk, faults>>
  BY DEF Worker
<1> USE <1>1 DEF disk, faults
<1>2. w \in [gen : Nat, graph : Graphs, slot : Nat \ {0}] /\ w.gen = launches
  BY DEF CInv, SuiteIInv, SuiteTypeOK, ScriptInv
<1>3. \A h \in Graphs : \A i \in DOMAIN Plan : measured[h][i] \in Nat
  BY DEF CInv, SuiteIInv, SuiteTypeOK
<1>4. binaries \subseteq binaries'
  OBVIOUS
<1>5. \A h, n : SettledBelow(h, n) => SettledBelow(h, n)'
  BY <1>4 DEF SettledBelow
<1> SUFFICES ASSUME NEW m \in mains, NEW h \in Graphs \ (m.todo \cup lost)
             PROVE  \/ \E v \in workers' : v.graph = h /\ SettledBelow(h, v.slot)'
                    \/ \A i \in DOMAIN Plan : measured[h][i] > 0
  BY DEF ProgressInv, SettledBelow
<1>6. CASE h # gr
  <2>1. \A v \in workers : v.graph = h => v \in workers'
    BY <1>6
  <2> QED BY <1>5, <2>1 DEF CInv, ProgressInv
<1>7. CASE h = gr /\ ~\A i \in DOMAIN Plan : measured[gr][i] > 0
  <2>1. SettledBelow(gr, w.slot)
    BY <1>7 DEF CInv, ProgressInv, SuiteIInv, ScriptInv, OneWorker
  <2>2. \A b \in binaries : ~(b.gen = launches /\ b.graph = gr)
    BY <1>2 DEF Waits
  <2>3. \A i \in DOMAIN Plan : i < w.slot => measured[gr][i] > 0
    BY <2>1, <2>2 DEF SettledBelow
  <2>4. w.slot \in DOMAIN Plan
    BY <1>2, <1>7, <2>3, SuiteAssumption
  <2> DEFINE next == [w EXCEPT !.slot = @ + 1]
             run == [gen |-> w.gen, graph |-> gr, slot |-> w.slot, done |-> FALSE]
  <2>5. next \in workers' /\ next.graph = gr /\ next.slot = w.slot + 1
    BY <1>2, <2>4
  <2>6. run.gen = launches /\ run.graph = gr /\ run.slot = w.slot
    BY <1>2
  <2>7. measured[gr][w.slot] > 0 \/ run \in binaries'
    BY <1>3, <2>4
  <2> HIDE DEF next, run
  <2>8. \A i \in DOMAIN Plan : i < w.slot + 1 => i < w.slot \/ i = w.slot
    BY <1>2, SuiteAssumption
  <2>9. SettledBelow(gr, next.slot)'
    BY <2>3, <2>5, <2>6, <2>7, <2>8 DEF SettledBelow
  <2> QED BY <1>7, <2>5, <2>9
<1> QED BY <1>6, <1>7

\* A run of the program settles its slot with rows.  The static baseline finds the
\* final graph: the slot that saves it lies in front, is settled, and cannot be
\* under way, since the graph's one run of this launch is the baseline itself.
LEMMA BinaryProgress ==
  ASSUME CInv, NEW gr \in Graphs, Binary(gr)
  PROVE  ProgressInv'
<1>1. PICK b \in binaries : b.graph = gr /\ (Compute(b) \/ Flush(b))
  BY DEF Binary
<1> USE DEF Binary, faults
<1>2. b \in [gen : Nat, graph : Graphs, slot : DOMAIN Plan, done : BOOLEAN]
  BY <1>1 DEF CInv, SuiteIInv, SuiteTypeOK
<1>3. \A h \in Graphs : \A i \in DOMAIN Plan : measured[h][i] \in Nat
  BY DEF CInv, SuiteIInv, SuiteTypeOK
<1>4. \A h \in Graphs : \A i \in DOMAIN Plan : measured[h][i] > 0 => measured'[h][i] > 0
  BY <1>1, <1>2, <1>3 DEF Compute, Flush, CInv, SuiteIInv, SuiteTypeOK
<1> SUFFICES ASSUME NEW m \in mains, NEW h \in Graphs \ (m.todo \cup lost)
             PROVE  \/ \E w \in workers : w.graph = h /\ SettledBelow(h, w.slot)'
                    \/ \A i \in DOMAIN Plan : measured'[h][i] > 0
  BY DEF ProgressInv, SettledBelow
<1>5. CASE \A i \in DOMAIN Plan : measured[h][i] > 0
  BY <1>4, <1>5
<1>6. CASE \E w \in workers : w.graph = h /\ SettledBelow(h, w.slot)
  <2>1. PICK w \in workers : w.graph = h /\ SettledBelow(h, w.slot)
    BY <1>6
  <2>2. SUFFICES ASSUME NEW i \in DOMAIN Plan, i < w.slot, ~(measured'[h][i] > 0)
                 PROVE  \E x \in binaries' : x.gen = launches /\ x.graph = h /\ x.slot = i
    BY <2>1 DEF SettledBelow
  <2>3. PICK c \in binaries : c.gen = launches /\ c.graph = h /\ c.slot = i
    BY <1>4, <2>1, <2>2 DEF SettledBelow
  <2>4. CASE c # b
    BY <1>1, <2>3, <2>4 DEF Compute, Flush
  <2>5. CASE c = b /\ Flush(b)
    <3>1. measured'[h][i] = measured[h][i] + 1
      BY <1>2, <2>3, <2>5 DEF Flush, CInv, SuiteIInv, SuiteTypeOK
    <3> QED BY <1>3, <2>2, <3>1
  <2>6. CASE c = b /\ Compute(b)
    <3>1. ~(Plan[b.slot] = "static" /\ b.graph \notin finals)
      <4>1. SUFFICES ASSUME Plan[b.slot] = "static" PROVE b.graph \in finals
        OBVIOUS
      <4>2. PICK j \in 1 .. (b.slot - 1) : Plan[j] = "save"
        BY <1>2, <4>1, SuiteAssumption
      <4>3. j \in DOMAIN Plan /\ j < w.slot /\ j # b.slot
        <5>1. w.slot \in Nat
          BY DEF CInv, SuiteIInv, SuiteTypeOK
        <5> QED BY <1>2, <2>2, <2>3, <2>6, <4>2, <5>1, SuiteAssumption
      <4>4. measured[h][j] > 0
        <5>1. \A x \in binaries : x.gen = launches /\ x.graph = h => x = b
          BY <2>3, <2>6 DEF CInv, SuiteIInv, BinaryInv
        <5> QED BY <2>1, <4>3, <5>1 DEF SettledBelow
      <4> QED BY <2>3, <2>6, <4>2, <4>3, <4>4 DEF CInv, FinalsInv
    <3> DEFINE over == [b EXCEPT !.done = TRUE]
    <3>2. over \in binaries' /\ over.gen = b.gen /\ over.graph = b.graph /\ over.slot = b.slot
      BY <1>2, <2>6, <3>1 DEF Compute
    <3> QED BY <2>3, <2>6, <3>2
  <2> QED BY <1>1, <2>4, <2>5, <2>6
<1> QED BY <1>5, <1>6 DEF CInv, ProgressInv

\* A kill takes a worker or a run from a graph only by marking it as lost, or when
\* the main script, or the worker, is gone and nothing is owed.
LEMMA KillProgress == CInv /\ Kill => ProgressInv'
<1> SUFFICES ASSUME CInv, Kill PROVE ProgressInv'
  OBVIOUS
<1> USE DEF Kill, disk
<1>1. CASE KillMain \/ KillScripts
  BY <1>1 DEF KillMain, KillScripts, ProgressInv
<1>2. ASSUME NEW v \in workers, KillWorker(v) PROVE ProgressInv'
  <2>1. \A m \in mains : lost' = lost \cup {v.graph}
    BY <1>2 DEF KillWorker, CInv, SuiteIInv, ScriptInv
  <2>2. \A h, n : SettledBelow(h, n) => SettledBelow(h, n)'
    BY <1>2 DEF KillWorker, SettledBelow
  <2> QED BY <1>2, <2>1, <2>2 DEF KillWorker, CInv, ProgressInv
<1>3. ASSUME NEW b \in binaries, KillBinary(b) PROVE ProgressInv'
  <2> SUFFICES ASSUME NEW m \in mains', NEW h \in Graphs \ (m.todo \cup lost')
               PROVE  \/ \E w \in workers' : w.graph = h /\ SettledBelow(h, w.slot)'
                      \/ \A i \in DOMAIN Plan : measured'[h][i] > 0
    BY DEF ProgressInv, SettledBelow
  <2>1. /\ m \in mains /\ h \in Graphs \ (m.todo \cup lost) /\ workers' = workers
        /\ binaries' = binaries \ {b} /\ measured' = measured /\ launches' = launches
    BY <1>3 DEF KillBinary
  <2>2. CASE \E w \in workers : w.graph = h /\ SettledBelow(h, w.slot)
    <3>1. PICK w \in workers : w.graph = h /\ SettledBelow(h, w.slot)
      BY <2>2
    <3>2. ~(b.gen = launches /\ b.graph = h)
      BY <1>3, <3>1 DEF KillBinary, CInv, SuiteIInv, ScriptInv
    <3> QED BY <2>1, <3>1, <3>2 DEF SettledBelow
  <2> QED BY <2>1, <2>2 DEF CInv, ProgressInv
<1> QED BY <1>1, <1>2, <1>3

\* Every step keeps what is owed: the worker's and the program's are the two above.
LEMMA ProgressKeeps == CInv /\ [SuiteNext]_suiteVars => ProgressInv'
<1> SUFFICES ASSUME CInv, [SuiteNext]_suiteVars PROVE ProgressInv'
  OBVIOUS
<1>1. CASE UNCHANGED suiteVars
  BY <1>1 DEF suiteVars, suite, disk, faults, CInv, ProgressInv, SettledBelow
<1>2. CASE Grep \/ CountBinaries
  BY <1>2 DEF Grep, CountBinaries, suite, disk, faults, CInv, ProgressInv, SettledBelow
<1>3. CASE CountScripts
  <2>1. CASE NoScript
    BY <1>3, <2>1 DEF CountScripts, ProgressInv
  <2>2. CASE ~NoScript
    BY <1>3, <2>2 DEF CountScripts, disk, CInv, ProgressInv, SettledBelow
  <2> QED BY <2>1, <2>2
<1>4. CASE MainDone
  BY <1>4 DEF MainDone, faults, CInv, ProgressInv, SettledBelow
<1>5. ASSUME NEW gr \in Graphs, StartWorker(gr) PROVE ProgressInv'
  <2>1. PICK m \in mains :
          /\ gr \in m.todo
          /\ mains' = (mains \ {m}) \cup {[m EXCEPT !.todo = @ \ {gr}]}
          /\ workers' = workers \cup {[gen |-> m.gen, graph |-> gr, slot |-> 1]}
          /\ UNCHANGED <<supervisor, launches, binaries, disk, faults>>
    BY <1>5 DEF StartWorker
  <2> DEFINE new == [gen |-> m.gen, graph |-> gr, slot |-> 1]
             rest == [m EXCEPT !.todo = @ \ {gr}]
  <2>2. mains' = {rest} /\ rest.todo = m.todo \ {gr} /\ new \in workers' /\ new.graph = gr /\ new.slot = 1
    BY <2>1 DEF CInv, SuiteIInv, SuiteTypeOK, ScriptInv
  <2> HIDE DEF new, rest
  <2>3. SettledBelow(gr, 1)'
    BY SuiteAssumption DEF SettledBelow
  <2>4. \A h, n : SettledBelow(h, n) => SettledBelow(h, n)'
    BY <2>1 DEF SettledBelow, disk
  <2>5. \A h \in Graphs \ (m.todo \cup lost) :
          \/ \E w \in workers' : w.graph = h /\ SettledBelow(h, w.slot)'
          \/ \A i \in DOMAIN Plan : measured'[h][i] > 0
    BY <2>1, <2>4 DEF CInv, ProgressInv, disk
  <2>6. \A h \in Graphs \ (rest.todo \cup lost') :
          \/ \E w \in workers' : w.graph = h /\ SettledBelow(h, w.slot)'
          \/ \A i \in DOMAIN Plan : measured'[h][i] > 0
    BY <2>1, <2>2, <2>3, <2>5 DEF faults
  <2> QED BY <2>2, <2>6 DEF ProgressInv, SettledBelow
<1>6. ASSUME NEW gr \in Graphs, Worker(gr) \/ Binary(gr) PROVE ProgressInv'
  BY <1>6, WorkerProgress, BinaryProgress
<1>7. CASE Kill BY <1>7, KillProgress
<1>8. CASE Over BY <1>1, <1>8 DEF Over
<1> QED BY <1>1, <1>2, <1>3, <1>4, <1>5, <1>6, <1>7, <1>8 DEF SuiteNext, SupervisorStep

\* When the suite says that it is done, every graph that has lost nothing has all
\* its rows, for every plan and any number of kills (run_perf.sh:123).
THEOREM DoneMeansComplete == SuiteSafety => DoneIsComplete
<1>1. CInv /\ [SuiteNext]_suiteVars => CInv'
  BY SuiteStep, FinalsKeeps, ProgressKeeps DEF CInv
<1>2. CInv /\ [SuiteNext]_suiteVars => [log' /\ ~log => AllMeasured]_suiteVars
  <2> SUFFICES ASSUME CInv, SuiteNext, log', ~log PROVE AllMeasured
    OBVIOUS
  <2>1. MainDone
    BY DEF SuiteNext, SupervisorStep, Grep, CountBinaries, CountScripts, StartWorker, Worker, Binary,
           Kill, Over, suiteVars, disk
  <2>2. PICK m \in mains : WaitedFor(m)
    BY <2>1 DEF MainDone
  <2>3. m.todo = {} /\ workers = {}
    BY <2>2 DEF WaitedFor, CInv, SuiteIInv, ScriptInv
  <2> QED BY <2>2, <2>3 DEF CInv, ProgressInv, AllMeasured
<1> QED BY <1>1, <1>2, InitCInv, PTL DEF SuiteSafety, DoneIsComplete
=============================================================================
