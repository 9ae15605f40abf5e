------------------------------ MODULE Scan_proofs ------------------------------
(***************************************************************************)
(* Scan keeps every provider's outcome and is never falsely clean, for any *)
(* requests, tools, answers and limits.  The recursive functions of the    *)
(* model are unfolded first: each is the last of a finite chain of values  *)
(* (Recursion), and what it returns follows by induction over sets of      *)
(* naturals (Induction).  An audit is never stuck unless it is wedged, and *)
(* takes a bounded number of steps (ScanProgress).                         *)
(***************************************************************************)
EXTENDS Scan, FiniteSetTheorems, WellFoundedInduction, TLAPS

-----------------------------------------------------------------------------
(* Induction and recursion over 0..N. *)

\* The least element of a set of naturals.
LEMMA Least == ASSUME NEW T, T \subseteq Nat, T # {} PROVE \E x \in T : \A y \in T : ~(y < x)
<1> DEFINE Less == OpToRel(<, Nat)
<1>1. IsWellFoundedOn(Less, Nat)
  BY NatLessThanWellFounded
<1>2. PICK x \in T : \A y \in T : <<y, x>> \notin Less
  <2> HIDE DEF Less
  <2> QED
    BY <1>1, WFMin
<1>3. \A y \in T : y < x => <<y, x>> \in Less
  BY DEF OpToRel
<1> QED
  BY <1>2, <1>3

LEMMA Induction ==
  ASSUME NEW N \in Nat, NEW G, 0 \in G, \A n \in 1..N : n - 1 \in G => n \in G
  PROVE  \A n \in 0..N : n \in G
<1> DEFINE Bad == {n \in 0..N : n \notin G}
<1>1. SUFFICES ASSUME Bad # {} PROVE FALSE
  OBVIOUS
<1>2. PICK n \in Bad : \A m \in Bad : ~(m < n)
  <2>1. Bad \subseteq Nat
    OBVIOUS
  <2> HIDE DEF Bad
  <2> QED
    BY <1>1, <2>1, Least
<1>3. n \in 1..N /\ n - 1 \notin Bad
  BY <1>2
<1> QED
  BY <1>2, <1>3

\* A chain of values of S, one step after the other.
Chain(S, N, base, step, f) ==
    f \in [0..N -> S] /\ f[0] = base /\ \A n \in 1..N : f[n] = step[n][f[n - 1]]

LEMMA Recursion ==
  ASSUME NEW S, NEW N, N \in Nat, NEW base, base \in S,
         NEW step, step \in [1..N -> [S -> S]]
  PROVE  \E f : Chain(S, N, base, step, f)
<1> DEFINE G == {n \in 0..N : \E f : Chain(S, n, base, step, f)}
<1>1. 0 \in G
  <2> DEFINE f == [n \in 0..0 |-> base]
  <2>1. f \in [0..0 -> S] /\ f[0] = base /\ 1..0 = {} /\ 0 \in 0..N
    OBVIOUS
  <2> HIDE DEF f
  <2>2. Chain(S, 0, base, step, f)
    BY <2>1 DEF Chain
  <2> QED
    BY <2>1, <2>2
<1>2. ASSUME NEW n \in 1..N, n - 1 \in G PROVE n \in G
  <2>0. PICK f : Chain(S, n - 1, base, step, f)
    BY <1>2
  <2>1. f \in [0..n - 1 -> S] /\ f[0] = base /\ \A k \in 1..n - 1 : f[k] = step[k][f[k - 1]]
    BY <2>0 DEF Chain
  <2> DEFINE h == [k \in 0..n |-> IF k = n THEN step[n][f[n - 1]] ELSE f[k]]
  <2>2. step[n][f[n - 1]] \in S
    <3>1. f[n - 1] \in S /\ step[n] \in [S -> S]
      BY <2>1
    <3> QED
      BY <3>1
  <2>3. h \in [0..n -> S] /\ h[0] = base
    BY <2>1, <2>2
  <2>4. \A k \in 1..n : h[k] = step[k][h[k - 1]]
    <3> TAKE k \in 1..n
    <3>1. h[k - 1] = f[k - 1]
      OBVIOUS
    <3>2. CASE k = n
      BY <3>1, <3>2
    <3>3. CASE k # n
      <4>1. h[k] = f[k] /\ f[k] = step[k][f[k - 1]]
        BY <2>1, <3>3
      <4> QED
        BY <3>1, <4>1
    <3> QED
      BY <3>2, <3>3
  <2> HIDE DEF h
  <2>5. Chain(S, n, base, step, h)
    BY <2>3, <2>4 DEF Chain
  <2> QED
    BY <2>5
<1>3. N \in G
  <2> HIDE DEF G
  <2>1. \A n \in 0..N : n \in G
    BY <1>1, <1>2, Induction
  <2> QED
    BY <2>1
<1> QED
  BY <1>3

-----------------------------------------------------------------------------
(* Sequences. *)

LEMMA SequenceIs == ASSUME NEW U, NEW s \in Seq(U) PROVE Sequence(s) /\ ToSet(s) \subseteq U
<1>1. s \in [1..Len(s) -> U] /\ Len(s) \in Nat
  OBVIOUS
<1>2. s \in [1..Len(s) -> ToSet(s)]
  BY <1>1 DEF ToSet
<1> QED
  BY <1>1, <1>2 DEF Sequence, ToSet

LEMMA SequenceOver ==
  ASSUME NEW s, Sequence(s), NEW U, ToSet(s) \subseteq U
  PROVE  s \in Seq(U)
<1>1. s \in [1..Len(s) -> ToSet(s)] /\ Len(s) \in Nat
  BY DEF Sequence
<1>2. s \in [1..Len(s) -> U]
  BY <1>1
<1> QED
  BY <1>1, <1>2

LEMMA SequenceDomain ==
  ASSUME NEW s, Sequence(s) PROVE DOMAIN s = 1..Len(s) /\ Len(s) \in Nat
  BY DEF Sequence

\* A function over the domain of a sequence is a sequence.
LEMMA SequenceByIndex ==
  ASSUME NEW s, Sequence(s), NEW t, t = [i \in DOMAIN s |-> t[i]]
  PROVE  Sequence(t) /\ DOMAIN t = DOMAIN s
<1>1. DOMAIN s = 1..Len(s) /\ Len(s) \in Nat
  BY SequenceDomain
<1>2. t \in [1..Len(s) -> ToSet(t)]
  BY <1>1 DEF ToSet
<1> QED
  BY <1>1, <1>2 DEF Sequence

LEMMA SequenceSmall ==
  /\ Sequence(<<>>) /\ ToSet(<<>>) = {}
  /\ \A x : Sequence(<<x>>) /\ ToSet(<<x>>) = {x}
  BY DEF Sequence, ToSet

LEMMA ConcatIs ==
  ASSUME NEW U, NEW s \in Seq(U), NEW t \in Seq(U)
  PROVE  s \o t \in Seq(U) /\ ToSet(s \o t) = ToSet(s) \cup ToSet(t)
<1> DEFINE u == s \o t
<1>1. /\ u \in Seq(U) /\ Len(u) = Len(s) + Len(t) /\ Len(s) \in Nat /\ Len(t) \in Nat
      /\ \A i \in 1..Len(u) : u[i] = IF i <= Len(s) THEN s[i] ELSE t[i - Len(s)]
  OBVIOUS
<1> HIDE DEF u
<1>2. /\ DOMAIN u = 1..Len(u) /\ DOMAIN s = 1..Len(s) /\ DOMAIN t = 1..Len(t)
  BY <1>1
<1>3. \A i \in 1..Len(s) : s[i] = u[i] /\ i \in 1..Len(u)
  BY <1>1
<1>4. \A i \in 1..Len(t) : t[i] = u[Len(s) + i] /\ Len(s) + i \in 1..Len(u)
  BY <1>1
<1>5. \A i \in 1..Len(u) : u[i] \in ToSet(s) \cup ToSet(t)
  <2> TAKE i \in 1..Len(u)
  <2>1. CASE i <= Len(s)
    <3>1. u[i] = s[i] /\ i \in DOMAIN s
      BY <1>1, <1>2, <2>1
    <3> QED
      BY <3>1 DEF ToSet
  <2>2. CASE ~(i <= Len(s))
    <3>1. u[i] = t[i - Len(s)] /\ i - Len(s) \in DOMAIN t
      BY <1>1, <1>2, <2>2
    <3> QED
      BY <3>1 DEF ToSet
  <2> QED
    BY <2>1, <2>2
<1>6. ToSet(s) \subseteq ToSet(u) /\ ToSet(t) \subseteq ToSet(u)
  BY <1>2, <1>3, <1>4 DEF ToSet
<1>7. ToSet(u) \subseteq ToSet(s) \cup ToSet(t)
  BY <1>2, <1>5 DEF ToSet
<1> QED
  BY <1>1, <1>6, <1>7 DEF u

LEMMA SequenceConcat ==
  ASSUME NEW s, NEW t, Sequence(s), Sequence(t)
  PROVE  Sequence(s \o t) /\ ToSet(s \o t) = ToSet(s) \cup ToSet(t)
<1> DEFINE U == ToSet(s) \cup ToSet(t)
<1>1. s \in Seq(U) /\ t \in Seq(U)
  BY SequenceOver
<1> HIDE DEF U
<1>2. s \o t \in Seq(U) /\ ToSet(s \o t) = ToSet(s) \cup ToSet(t)
  BY <1>1, ConcatIs
<1>3. Sequence(s \o t)
  BY <1>2, SequenceIs
<1> QED
  BY <1>2, <1>3

LEMMA SequenceAppend ==
  ASSUME NEW s, NEW x, Sequence(s)
  PROVE  /\ Sequence(Append(s, x)) /\ ToSet(Append(s, x)) = ToSet(s) \cup {x}
         /\ Len(Append(s, x)) = Len(s) + 1 /\ Append(s, x)[Len(s) + 1] = x
         /\ \A i \in 1..Len(s) : Append(s, x)[i] = s[i]
<1> DEFINE U == ToSet(s) \cup {x}
           u == Append(s, x)
<1>1. s \in Seq(U) /\ x \in U
  BY SequenceOver
<1>2. /\ u \in Seq(U) /\ Len(u) = Len(s) + 1 /\ u[Len(s) + 1] = x /\ Len(s) \in Nat
      /\ \A i \in 1..Len(s) : u[i] = s[i]
  <2> HIDE DEF U
  <2> QED
    BY <1>1
<1>3. DOMAIN u = 1..Len(s) + 1 /\ DOMAIN s = 1..Len(s)
  BY <1>1, <1>2
<1>4. Sequence(u) /\ ToSet(u) \subseteq U
  BY <1>2, SequenceIs
<1> HIDE DEF u
<1>5. U \subseteq ToSet(u)
  BY <1>2, <1>3 DEF ToSet
<1> QED
  BY <1>2, <1>4, <1>5 DEF u

LEMMA SequenceTail ==
  ASSUME NEW s, Sequence(s), s # <<>>
  PROVE  /\ Sequence(Tail(s)) /\ Head(s) \in ToSet(s)
         /\ ToSet(s) = {Head(s)} \cup ToSet(Tail(s)) /\ Len(Tail(s)) = Len(s) - 1
<1> DEFINE t == Tail(s)
           U == ToSet(s)
<1>1. s \in Seq(U)
  BY DEF Sequence
<1>2. /\ t \in Seq(U) /\ Len(t) = Len(s) - 1 /\ Len(s) \in Nat \ {0} /\ Head(s) = s[1]
      /\ \A i \in 1..Len(t) : t[i] = s[i + 1]
  <2> HIDE DEF U
  <2> QED
    BY <1>1
<1>3. DOMAIN t = 1..Len(t) /\ DOMAIN s = 1..Len(s)
  BY <1>1, <1>2
<1>4. Sequence(t) /\ ToSet(t) \subseteq U
  BY <1>2, SequenceIs
<1> HIDE DEF t
<1>5. Head(s) \in ToSet(s)
  BY <1>2, <1>3 DEF ToSet
<1>6. \A i \in DOMAIN s : s[i] \in {Head(s)} \cup ToSet(t)
  <2> TAKE i \in DOMAIN s
  <2>1. CASE i = 1
    BY <1>2, <2>1
  <2>2. CASE i # 1
    <3>1. i - 1 \in 1..Len(t) /\ t[i - 1] = s[i]
      BY <1>2, <1>3, <2>2
    <3> QED
      BY <1>3, <3>1 DEF ToSet
  <2> QED
    BY <2>1, <2>2
<1>7. ToSet(s) \subseteq {Head(s)} \cup ToSet(t)
  BY <1>6 DEF ToSet
<1> QED
  BY <1>2, <1>4, <1>5, <1>7 DEF t

-----------------------------------------------------------------------------
(* What the recursive functions return. *)

\* The function FlattenSeq takes the last value of.
Joins(seqs, f) ==
    f = [i \in 1..Len(seqs) |-> IF i = 1 THEN seqs[i] ELSE f[i - 1] \o seqs[i]]

\* The same, one value after the other.
Joining(seqs, N, f) ==
    /\ f = [i \in 1..N + 1 |-> f[i]] /\ f[1] = seqs[1]
    /\ \A n \in 1..N : f[n + 1] = f[n] \o seqs[n + 1]

LEMMA JoinsIs ==
  ASSUME NEW N, N \in Nat, NEW seqs, Len(seqs) = N + 1, NEW f
  PROVE  Joins(seqs, f) <=> Joining(seqs, N, f)
<1>1. ASSUME Joins(seqs, f)
      PROVE  /\ f = [i \in 1..N + 1 |-> f[i]] /\ f[1] = seqs[1]
             /\ \A n \in 1..N : f[n + 1] = f[n] \o seqs[n + 1]
  <2>1. \A i \in 1..N + 1 : f[i] = IF i = 1 THEN seqs[i] ELSE f[i - 1] \o seqs[i]
    BY <1>1 DEF Joins
  <2>2. DOMAIN f = 1..N + 1 /\ f = [i \in DOMAIN f |-> f[i]]
    BY <1>1 DEF Joins
  <2>3. ASSUME NEW n \in 1..N PROVE f[n + 1] = f[n] \o seqs[n + 1]
    <3>1. n + 1 \in 1..N + 1 /\ n + 1 # 1 /\ (n + 1) - 1 = n
      OBVIOUS
    <3>2. f[n + 1] = f[(n + 1) - 1] \o seqs[n + 1]
      BY <2>1, <3>1
    <3> QED
      BY <3>1, <3>2
  <2>4. f[1] = seqs[1] /\ DOMAIN f = 1..N + 1
    BY <1>1, <2>1, <2>2
  <2> QED
    BY <2>2, <2>3, <2>4
<1>2. ASSUME f = [i \in 1..N + 1 |-> f[i]], f[1] = seqs[1],
             \A n \in 1..N : f[n + 1] = f[n] \o seqs[n + 1]
      PROVE  Joins(seqs, f)
  <2>1. \A i \in 1..N + 1 : f[i] = IF i = 1 THEN seqs[i] ELSE f[i - 1] \o seqs[i]
    <3> TAKE i \in 1..N + 1
    <3>1. CASE i = 1
      BY <1>2, <3>1
    <3>2. CASE i # 1
      <4>1. i - 1 \in 1..N /\ (i - 1) + 1 = i
        BY <3>2
      <4>2. f[(i - 1) + 1] = f[i - 1] \o seqs[(i - 1) + 1]
        BY <1>2, <4>1
      <4> QED
        BY <3>2, <4>1, <4>2
    <3> QED
      BY <3>1, <3>2
  <2> QED
    BY <1>2, <2>1, Zenon DEF Joins
<1> QED
  BY <1>1, <1>2 DEF Joining

LEMMA JoinsExists ==
  ASSUME NEW U, NEW N, N \in Nat, NEW seqs, seqs \in Seq(Seq(U)), Len(seqs) = N + 1
  PROVE  \E f : Joins(seqs, f)
<1>1. \A i \in 1..N + 1 : seqs[i] \in Seq(U)
  OBVIOUS
<1>2. PICK step : step = [n \in 1..N |-> [s \in Seq(U) |-> s \o seqs[n + 1]]]
  OBVIOUS
<1>3. step \in [1..N -> [Seq(U) -> Seq(U)]]
  <2>1. \A n \in 1..N, s \in Seq(U) : s \o seqs[n + 1] \in Seq(U)
    <3>1. \A n \in 1..N : n + 1 \in 1..N + 1
      OBVIOUS
    <3> QED
      BY <1>1, <3>1, ConcatIs
  <2> QED
    BY <1>2, <2>1
<1>4. seqs[1] \in Seq(U)
  BY <1>1
<1>5. PICK g : Chain(Seq(U), N, seqs[1], step, g)
  BY <1>3, <1>4, Recursion
<1>6. g \in [0..N -> Seq(U)] /\ g[0] = seqs[1] /\ \A n \in 1..N : g[n] = step[n][g[n - 1]]
  BY <1>5 DEF Chain
<1>7. PICK f : f = [i \in 1..N + 1 |-> g[i - 1]]
  OBVIOUS
<1>8. f = [i \in 1..N + 1 |-> f[i]] /\ f[1] = seqs[1]
  BY <1>6, <1>7
<1>9. \A n \in 1..N : f[n + 1] = f[n] \o seqs[n + 1]
  <2> TAKE n \in 1..N
  <2>1. f[n + 1] = g[n] /\ f[n] = g[n - 1] /\ g[n - 1] \in Seq(U)
    BY <1>6, <1>7
  <2>2. g[n] = step[n][g[n - 1]]
    BY <1>6
  <2>3. step[n][g[n - 1]] = g[n - 1] \o seqs[n + 1]
    BY <1>2, <2>1
  <2> QED
    BY <2>1, <2>2, <2>3
<1>10. Joining(seqs, N, f)
  BY <1>8, <1>9 DEF Joining
<1> QED
  BY <1>10, JoinsIs

LEMMA FlattenNonempty ==
  ASSUME NEW U, NEW N, N \in Nat, NEW seqs, seqs \in Seq(Seq(U)), Len(seqs) = N + 1
  PROVE  /\ FlattenSeq(seqs) \in Seq(U)
         /\ ToSet(FlattenSeq(seqs)) = UNION {ToSet(seqs[i]) : i \in 1..N + 1}
<1>1. \A i \in 1..N + 1 : seqs[i] \in Seq(U)
  OBVIOUS
<1>2. PICK f : f = CHOOSE x : Joins(seqs, x)
  OBVIOUS
<1>3. Joins(seqs, f)
  BY <1>2, JoinsExists
<1>4. FlattenSeq(seqs) = f[N + 1]
  <2>1. FlattenSeq(seqs) = (CHOOSE x : Joins(seqs, x))[Len(seqs)]
    <3>1. Len(seqs) # 0
      OBVIOUS
    <3> QED
      BY <3>1, Zenon DEF FlattenSeq, Joins
  <2> QED
    BY <1>2, <2>1
<1>5. f[1] = seqs[1] /\ \A n \in 1..N : f[n + 1] = f[n] \o seqs[n + 1]
  <2>1. Joining(seqs, N, f)
    BY <1>3, JoinsIs
  <2> QED
    BY <2>1 DEF Joining
<1>6. PICK G : G = {n \in 0..N : /\ f[n + 1] \in Seq(U)
                                 /\ ToSet(f[n + 1]) = UNION {ToSet(seqs[i]) : i \in 1..n + 1}}
  OBVIOUS
<1>7. 0 \in G
  <2>1. 0 + 1 = 1 /\ 1..1 = {1} /\ 0 \in 0..N /\ 1 \in 1..N + 1
    OBVIOUS
  <2>2. UNION {ToSet(seqs[i]) : i \in {1}} = ToSet(seqs[1])
    OBVIOUS
  <2> QED
    BY <1>1, <1>5, <1>6, <2>1, <2>2
<1>8. ASSUME NEW n \in 1..N, n - 1 \in G PROVE n \in G
  <2>1. n - 1 + 1 = n /\ n + 1 \in 1..N + 1 /\ 1..n + 1 = 1..n \cup {n + 1} /\ n \in 0..N
    OBVIOUS
  <2>2. f[n] \in Seq(U) /\ ToSet(f[n]) = UNION {ToSet(seqs[i]) : i \in 1..n}
    BY <1>6, <1>8, <2>1
  <2>3. f[n + 1] = f[n] \o seqs[n + 1] /\ seqs[n + 1] \in Seq(U)
    BY <1>1, <1>5, <2>1
  <2>4. f[n + 1] \in Seq(U) /\ ToSet(f[n + 1]) = ToSet(f[n]) \cup ToSet(seqs[n + 1])
    BY <2>2, <2>3, ConcatIs
  <2>5. UNION {ToSet(seqs[i]) : i \in 1..n + 1}
          = (UNION {ToSet(seqs[i]) : i \in 1..n}) \cup ToSet(seqs[n + 1])
    BY <2>1
  <2> QED
    BY <1>6, <2>1, <2>2, <2>4, <2>5
<1>9. N \in G
  <2>1. \A n \in 0..N : n \in G
    BY <1>7, <1>8, Induction
  <2> QED
    BY <2>1
<1> QED
  BY <1>4, <1>6, <1>9

LEMMA FlattenIs ==
  ASSUME NEW U, NEW seqs \in Seq(Seq(U))
  PROVE  /\ FlattenSeq(seqs) \in Seq(U)
         /\ ToSet(FlattenSeq(seqs)) = UNION {ToSet(seqs[i]) : i \in DOMAIN seqs}
<1>1. Len(seqs) \in Nat /\ DOMAIN seqs = 1..Len(seqs)
  OBVIOUS
<1>2. CASE Len(seqs) = 0
  <2>1. seqs = <<>> /\ FlattenSeq(seqs) = <<>>
    BY <1>2 DEF FlattenSeq
  <2>2. <<>> \in Seq(U) /\ ToSet(<<>>) = {}
    BY DEF ToSet
  <2>3. UNION {ToSet(seqs[i]) : i \in DOMAIN seqs} = {}
    BY <1>1, <1>2
  <2> QED
    BY <2>1, <2>2, <2>3
<1>3. CASE Len(seqs) # 0
  <2>1. PICK N \in Nat : Len(seqs) = N + 1
    <3>1. Len(seqs) - 1 \in Nat /\ Len(seqs) = (Len(seqs) - 1) + 1
      BY <1>1, <1>3
    <3> QED
      BY <3>1
  <2>2. /\ FlattenSeq(seqs) \in Seq(U)
        /\ ToSet(FlattenSeq(seqs)) = UNION {ToSet(seqs[i]) : i \in 1..N + 1}
    BY <2>1, FlattenNonempty
  <2> QED
    BY <1>1, <2>1, <2>2
<1> QED
  BY <1>2, <1>3

LEMMA SequenceEmpty ==
  ASSUME NEW s, Sequence(s)
  PROVE  s = <<>> <=> DOMAIN s = {}
<1>1. PICK S : S = ToSet(s)
  OBVIOUS
<1>2. s \in Seq(S)
  BY <1>1 DEF Sequence
<1> QED
  BY <1>2

\* A sequence of sequences, flattened.
LEMMA FlattenSequences ==
  ASSUME NEW s, Sequence(s), NEW seqs, seqs = [i \in DOMAIN s |-> seqs[i]],
         \A i \in DOMAIN s : Sequence(seqs[i])
  PROVE  /\ Sequence(FlattenSeq(seqs))
         /\ ToSet(FlattenSeq(seqs)) = UNION {ToSet(seqs[i]) : i \in DOMAIN s}
<1>1. PICK U : U = UNION {ToSet(seqs[i]) : i \in DOMAIN s}
  OBVIOUS
<1>2. DOMAIN s = 1..Len(s) /\ Len(s) \in Nat /\ DOMAIN seqs = DOMAIN s
  BY SequenceDomain
<1>3. \A i \in DOMAIN s : ToSet(seqs[i]) \subseteq U
  BY <1>1
<1>4. \A i \in DOMAIN s : seqs[i] \in Seq(U)
  BY <1>3, SequenceOver
<1>5. PICK S : S = Seq(U)
  OBVIOUS
<1>6. seqs \in [1..Len(s) -> S]
  BY <1>2, <1>4, <1>5
<1>7. seqs \in Seq(Seq(U))
  <2>1. seqs \in Seq(S)
    BY <1>2, <1>6
  <2> QED
    BY <1>5, <2>1
<1> QED
  BY <1>1, <1>2, <1>7, FlattenIs, SequenceIs

\* What Select makes of a sequence, given what it makes of each member.
LEMMA Selected ==
  ASSUME NEW s, Sequence(s), NEW seqs, seqs = [i \in DOMAIN s |-> seqs[i]],
         \A i \in DOMAIN s : seqs[i] \in {<<s[i]>>, <<>>}
  PROVE  /\ Sequence(FlattenSeq(seqs))
         /\ \A x : x \in ToSet(FlattenSeq(seqs))
                     <=> \E i \in DOMAIN s : x = s[i] /\ seqs[i] = <<s[i]>>
<1>1. \A i \in DOMAIN s : Sequence(seqs[i])
  BY SequenceSmall
<1>2. \A i \in DOMAIN s : ToSet(seqs[i]) = IF seqs[i] = <<s[i]>> THEN {s[i]} ELSE {}
  BY SequenceSmall
<1> QED
  BY <1>1, <1>2, FlattenSequences

-----------------------------------------------------------------------------
(* The modules of a Terraform state. *)

\* What a module and those below it hold, given what each module holds.
Holding(modules, below, i) ==
    modules[i].resources
    \o FlattenSeq([k \in DOMAIN modules[i].children |-> below[modules[i].children[k]]])

LEMMA HoldingIs ==
  ASSUME NEW U, NEW modules, NEW N, N \in Nat, NEW i \in 1..N, NEW below,
         modules[i].resources \in Seq(U), modules[i].children \in Seq(i + 1..N),
         \A j \in i + 1..N : below[j] \in Seq(U)
  PROVE  /\ Holding(modules, below, i) \in Seq(U)
         /\ ToSet(modules[i].resources) \subseteq ToSet(Holding(modules, below, i))
         /\ \A j \in ToSet(modules[i].children) :
              ToSet(below[j]) \subseteq ToSet(Holding(modules, below, i))
<1>1. PICK c : c = modules[i].children
  OBVIOUS
<1>2. c \in [1..Len(c) -> i + 1..N] /\ Len(c) \in Nat /\ DOMAIN c = 1..Len(c)
  <2>1. PICK R : R = i + 1..N
    OBVIOUS
  <2>2. c \in Seq(R)
    BY <1>1, <2>1
  <2>3. c \in [1..Len(c) -> R] /\ Len(c) \in Nat /\ DOMAIN c = 1..Len(c)
    BY <2>2
  <2> QED
    BY <2>1, <2>3
<1>3. PICK seqs : seqs = [k \in DOMAIN c |-> below[c[k]]]
  OBVIOUS
<1>4. seqs \in Seq(Seq(U))
  <2>1. PICK S : S = Seq(U)
    OBVIOUS
  <2>2. seqs \in [1..Len(c) -> S]
    BY <1>2, <1>3, <2>1
  <2>3. seqs \in Seq(S)
    BY <1>2, <2>2
  <2> QED
    BY <2>1, <2>3
<1>5. /\ FlattenSeq(seqs) \in Seq(U)
      /\ ToSet(FlattenSeq(seqs)) = UNION {ToSet(seqs[k]) : k \in DOMAIN seqs}
  BY <1>4, FlattenIs
<1>6. Holding(modules, below, i) = modules[i].resources \o FlattenSeq(seqs)
  BY <1>1, <1>3 DEF Holding
<1>7. \A j \in ToSet(c) : ToSet(below[j]) \subseteq ToSet(FlattenSeq(seqs))
  <2> TAKE j \in ToSet(c)
  <2>1. PICK k \in DOMAIN c : j = c[k]
    BY DEF ToSet
  <2>2. k \in DOMAIN seqs /\ seqs[k] = below[j]
    BY <1>3, <2>1
  <2> QED
    BY <1>5, <2>2
<1>8. /\ modules[i].resources \o FlattenSeq(seqs) \in Seq(U)
      /\ ToSet(modules[i].resources \o FlattenSeq(seqs))
           = ToSet(modules[i].resources) \cup ToSet(FlattenSeq(seqs))
  BY <1>5, ConcatIs
<1> QED
  BY <1>1, <1>6, <1>7, <1>8

\* It depends on the modules after it alone.
Agree(f, g, from, N) == \A j \in from..N : f[j] = g[j]

LEMMA HoldingLocal ==
  ASSUME NEW modules, NEW N, NEW i, NEW f, NEW g,
         modules[i].children \in Seq(i + 1..N), Agree(f, g, i + 1, N)
  PROVE  Holding(modules, f, i) = Holding(modules, g, i)
<1>1. PICK c : c = modules[i].children
  OBVIOUS
<1>2. \A k \in DOMAIN c : c[k] \in i + 1..N
  <2>1. PICK R : R = i + 1..N
    OBVIOUS
  <2>2. c \in Seq(R)
    BY <1>1, <2>1
  <2>3. \A k \in DOMAIN c : c[k] \in R
    BY <2>2
  <2> QED
    BY <2>1, <2>3
<1>3. [k \in DOMAIN c |-> f[c[k]]] = [k \in DOMAIN c |-> g[c[k]]]
  BY <1>2 DEF Agree
<1> QED
  BY <1>1, <1>3 DEF Holding

\* f tells of module i what it holds.
Walks(modules, f) == f = [i \in DOMAIN modules |-> Holding(modules, f, i)]

ModulesOver(U, N, modules) ==
    /\ N \in Nat /\ DOMAIN modules = 1..N
    /\ \A i \in 1..N : modules[i].resources \in Seq(U) /\ modules[i].children \in Seq(i + 1..N)

\* The walk is computed from the last module to the first.
LEMMA BelowExists ==
  ASSUME NEW U, NEW N, NEW modules, ModulesOver(U, N, modules)
  PROVE  \E f : Walks(modules, f)
<1>1. /\ N \in Nat /\ DOMAIN modules = 1..N
      /\ \A i \in 1..N : modules[i].resources \in Seq(U) /\ modules[i].children \in Seq(i + 1..N)
  BY DEF ModulesOver
<1>2. PICK S : S = [1..N -> Seq(U)]
  OBVIOUS
<1>3. PICK first : first = [i \in 1..N |-> <<>>]
  OBVIOUS
<1>4. PICK step : step = [n \in 1..N |-> [g \in S |->
                            [g EXCEPT ![N + 1 - n] = Holding(modules, g, N + 1 - n)]]]
  OBVIOUS
<1>5. first \in S
  BY <1>2, <1>3
<1>6. ASSUME NEW n \in 1..N, NEW g \in S
      PROVE  [g EXCEPT ![N + 1 - n] = Holding(modules, g, N + 1 - n)] \in S
  <2>1. PICK i \in 1..N : i = N + 1 - n
    BY <1>1
  <2>2. g \in [1..N -> Seq(U)]
    BY <1>2
  <2>3. \A j \in i + 1..N : g[j] \in Seq(U)
    BY <1>1, <2>2
  <2>4. Holding(modules, g, i) \in Seq(U)
    BY <1>1, <2>3, HoldingIs
  <2>5. [g EXCEPT ![i] = Holding(modules, g, i)] \in [1..N -> Seq(U)]
    BY <2>2, <2>4
  <2> QED
    BY <1>2, <2>1, <2>5
<1>7. step \in [1..N -> [S -> S]]
  BY <1>4, <1>6
<1>8. PICK chain : Chain(S, N, first, step, chain)
  BY <1>1, <1>5, <1>7, Recursion
<1>9. chain \in [0..N -> S] /\ \A n \in 1..N : chain[n] = step[n][chain[n - 1]]
  BY <1>8 DEF Chain
<1>10. ASSUME NEW n \in 1..N
       PROVE  /\ chain[n] \in [1..N -> Seq(U)] /\ chain[n - 1] \in [1..N -> Seq(U)]
              /\ chain[n][N + 1 - n] = Holding(modules, chain[n - 1], N + 1 - n)
              /\ \A j \in 1..N : j # N + 1 - n => chain[n][j] = chain[n - 1][j]
  <2>1. chain[n] \in S /\ chain[n - 1] \in S
    BY <1>1, <1>9
  <2>2. chain[n] = [chain[n - 1] EXCEPT ![N + 1 - n] = Holding(modules, chain[n - 1], N + 1 - n)]
    BY <1>4, <1>9, <2>1
  <2>3. N + 1 - n \in 1..N
    BY <1>1
  <2> QED
    BY <1>2, <2>1, <2>2, <2>3
<1>11. PICK G : G = {n \in 0..N : \A i \in N + 1 - n..N :
                                     chain[n][i] = Holding(modules, chain[n], i)}
  OBVIOUS
<1>12. 0 \in G
  <2>1. 0 \in 0..N /\ N + 1 - 0..N = {}
    BY <1>1
  <2> QED
    BY <1>11, <2>1
<1>13. ASSUME NEW n \in 1..N, n - 1 \in G PROVE n \in G
  <2>1. \A i \in N + 1 - (n - 1)..N : chain[n - 1][i] = Holding(modules, chain[n - 1], i)
    BY <1>11, <1>13
  <2>2. ASSUME NEW i \in N + 1 - n..N PROVE chain[n][i] = Holding(modules, chain[n], i)
    <3>1. i \in 1..N /\ \A j \in i + 1..N : j \in 1..N /\ j # N + 1 - n
      BY <1>1
    <3>2. \A j \in i + 1..N : chain[n][j] = chain[n - 1][j]
      BY <1>10, <3>1
    <3>3. Holding(modules, chain[n], i) = Holding(modules, chain[n - 1], i)
      <4>1. PICK f, g : f = chain[n] /\ g = chain[n - 1]
        OBVIOUS
      <4>2. Agree(f, g, i + 1, N)
        BY <3>2, <4>1 DEF Agree
      <4>3. modules[i].children \in Seq(i + 1..N) /\ i \in 1..N
        BY <1>1, <3>1
      <4>4. Holding(modules, f, i) = Holding(modules, g, i)
        BY <1>1, <4>2, <4>3, HoldingLocal
      <4> QED
        BY <4>1, <4>4
    <3>4. CASE i = N + 1 - n
      BY <1>10, <3>3, <3>4
    <3>5. CASE i # N + 1 - n
      <4>1. i \in N + 1 - (n - 1)..N
        BY <1>1, <3>5
      <4> QED
        BY <1>10, <2>1, <3>1, <3>3, <3>5, <4>1
    <3> QED
      BY <3>4, <3>5
  <2> QED
    BY <1>11, <2>2
<1>14. N \in G
  <2>1. \A n \in 0..N : n \in G
    BY <1>1, <1>12, <1>13, Induction
  <2> QED
    BY <1>1, <2>1
<1>15. \A i \in 1..N : chain[N][i] = Holding(modules, chain[N], i)
  <2>1. N + 1 - N = 1
    BY <1>1
  <2> QED
    BY <1>11, <1>14, <2>1
<1>16. chain[N] = [i \in 1..N |-> chain[N][i]]
  BY <1>1, <1>2, <1>9
<1>17. Walks(modules, chain[N])
  BY <1>1, <1>15, <1>16 DEF Walks
<1> QED
  BY <1>17

LEMMA BelowIs ==
  ASSUME NEW U, NEW N, NEW modules, ModulesOver(U, N, modules)
  PROVE  \A i \in 1..N :
           /\ Below(modules)[i] \in Seq(U)
           /\ ToSet(modules[i].resources) \subseteq ToSet(Below(modules)[i])
           /\ \A j \in ToSet(modules[i].children) :
                ToSet(Below(modules)[j]) \subseteq ToSet(Below(modules)[i])
<1>1. /\ N \in Nat /\ DOMAIN modules = 1..N
      /\ \A i \in 1..N : modules[i].resources \in Seq(U) /\ modules[i].children \in Seq(i + 1..N)
  BY DEF ModulesOver
<1>2. PICK f : f = CHOOSE g : Walks(modules, g)
  OBVIOUS
<1>3. f = [i \in DOMAIN modules |-> Holding(modules, f, i)]
  <2>1. Walks(modules, f)
    BY <1>2, BelowExists
  <2> QED
    BY <2>1 DEF Walks
<1>4. Below(modules) = f
  BY <1>2, Zenon DEF Below, Holding, Walks
<1>5. PICK G : G = {n \in 0..N : \A i \in N + 1 - n..N : f[i] \in Seq(U)}
  OBVIOUS
<1>6. 0 \in G
  <2>1. 0 \in 0..N /\ N + 1 - 0..N = {}
    BY <1>1
  <2> QED
    BY <1>5, <2>1
<1>7. ASSUME NEW n \in 1..N, n - 1 \in G PROVE n \in G
  <2>1. \A i \in N + 1 - (n - 1)..N : f[i] \in Seq(U)
    BY <1>5, <1>7
  <2>2. ASSUME NEW i \in N + 1 - n..N PROVE f[i] \in Seq(U)
    <3>1. i \in 1..N /\ \A j \in i + 1..N : j \in N + 1 - (n - 1)..N
      BY <1>1
    <3>2. f[i] = Holding(modules, f, i)
      BY <1>1, <1>3, <3>1
    <3>3. \A j \in i + 1..N : f[j] \in Seq(U)
      BY <2>1, <3>1
    <3>4. modules[i].resources \in Seq(U) /\ modules[i].children \in Seq(i + 1..N)
      BY <1>1, <3>1
    <3>5. Holding(modules, f, i) \in Seq(U)
      BY <1>1, <3>1, <3>3, <3>4, HoldingIs
    <3> QED
      BY <3>2, <3>5
  <2> QED
    BY <1>5, <2>2
<1>8. N \in G
  <2>1. \A n \in 0..N : n \in G
    BY <1>1, <1>6, <1>7, Induction
  <2> QED
    BY <1>1, <2>1
<1>9. N + 1 - N = 1
  BY <1>1
<1>10. \A i \in 1..N : f[i] \in Seq(U)
  <2>1. \A i \in N + 1 - N..N : f[i] \in Seq(U)
    BY <1>5, <1>8
  <2>2. \A i \in 1..N : i \in N + 1 - N..N
    BY <1>1
  <2> QED
    BY <2>1, <2>2, Zenon
<1>11. ASSUME NEW i \in 1..N
       PROVE  /\ ToSet(modules[i].resources) \subseteq ToSet(f[i])
              /\ \A j \in ToSet(modules[i].children) : ToSet(f[j]) \subseteq ToSet(f[i])
  <2>1. \A j \in i + 1..N : f[j] \in Seq(U)
    BY <1>1, <1>10
  <2>2. modules[i].resources \in Seq(U) /\ modules[i].children \in Seq(i + 1..N)
    BY <1>1
  <2>3. f[i] = Holding(modules, f, i)
    BY <1>1, <1>3
  <2>4. /\ ToSet(modules[i].resources) \subseteq ToSet(Holding(modules, f, i))
        /\ \A j \in ToSet(modules[i].children) : ToSet(f[j]) \subseteq ToSet(Holding(modules, f, i))
    BY <1>1, <2>1, <2>2, HoldingIs
  <2> QED
    BY <2>3, <2>4
<1> QED
  BY <1>4, <1>10, <1>11

All(modules) == UNION {ToSet(modules[i].resources) : i \in DOMAIN modules}

LEMMA StateOver ==
  ASSUME NEW state, IsState(state)
  PROVE  /\ ModulesOver(All(state.modules), Len(state.modules), state.modules)
         /\ state.modules = <<>> <=> DOMAIN state.modules = {}
<1>1. PICK modules, N, U : modules = state.modules /\ N = Len(modules) /\ U = All(modules)
  OBVIOUS
<1>2. N \in Nat /\ DOMAIN modules = 1..N /\ (modules = <<>> <=> DOMAIN modules = {})
  BY <1>1, SequenceDomain, SequenceEmpty DEF IsState
<1>3. \A i \in 1..N : modules[i].resources \in Seq(U)
  <2> TAKE i \in 1..N
  <2>1. Sequence(modules[i].resources)
    BY <1>1, <1>2 DEF IsState
  <2>2. ToSet(modules[i].resources) \subseteq U
    BY <1>1, <1>2 DEF All
  <2> QED
    BY <2>1, <2>2, SequenceOver
<1>4. \A i \in 1..N : modules[i].children \in Seq(i + 1..N)
  BY <1>1, <1>2 DEF IsState
<1>5. ModulesOver(U, N, modules)
  BY <1>2, <1>3, <1>4 DEF ModulesOver
<1> QED
  BY <1>1, <1>2, <1>5

LEMMA ObjectsIs == ASSUME NEW state, IsState(state) PROVE Sequence(Objects(state.modules))
<1>1. PICK modules, N, U : modules = state.modules /\ N = Len(modules) /\ U = All(modules)
  OBVIOUS
<1>2. ModulesOver(U, N, modules) /\ (modules = <<>> <=> DOMAIN modules = {})
  BY <1>1, StateOver
<1>3. CASE modules = <<>>
  BY <1>1, <1>3, SequenceSmall DEF Objects
<1>4. CASE modules # <<>>
  <2>1. 1 \in 1..N
    BY <1>2, <1>4 DEF ModulesOver
  <2>2. Below(modules)[1] \in Seq(U)
    BY <1>2, <2>1, BelowIs
  <2>3. Sequence(Below(modules)[1])
    BY <2>2, SequenceIs
  <2> QED
    BY <1>1, <1>4, <2>3 DEF Objects
<1> QED
  BY <1>3, <1>4

\* However deep the modules of a Terraform state are nested, the walk misses no resource and
\* makes up none (terraform_state.go:45-74).
THEOREM WalkComplete ==
  ASSUME NEW state, IsState(state),
         \A i \in DOMAIN state.modules :
           i # 1 => \E j \in 1..i - 1 : i \in ToSet(state.modules[j].children)
  PROVE  ToSet(Objects(state.modules)) = All(state.modules)
<1>1. PICK modules, N, U : modules = state.modules /\ N = Len(modules) /\ U = All(modules)
  OBVIOUS
<1>2. ModulesOver(U, N, modules) /\ (modules = <<>> <=> DOMAIN modules = {})
  BY <1>1, StateOver
<1>3. N \in Nat /\ DOMAIN modules = 1..N
  BY <1>2 DEF ModulesOver
<1>4. CASE modules = <<>>
  <2>1. ToSet(Objects(modules)) = {}
    BY <1>4, SequenceSmall DEF Objects
  <2>2. All(modules) = {}
    BY <1>2, <1>4 DEF All
  <2> QED
    BY <1>1, <2>1, <2>2
<1>5. CASE modules # <<>>
  <2>1. 1 \in 1..N
    BY <1>2, <1>3, <1>5
  <2>2. PICK below : below = Below(modules)
    OBVIOUS
  <2>3. \A i \in 1..N : /\ below[i] \in Seq(U) /\ ToSet(modules[i].resources) \subseteq ToSet(below[i])
                        /\ \A j \in ToSet(modules[i].children) : ToSet(below[j]) \subseteq ToSet(below[i])
    BY <1>2, <2>2, BelowIs
  <2>4. PICK G : G = {n \in 0..N : \A i \in 1..n : ToSet(below[i]) \subseteq ToSet(below[1])}
    OBVIOUS
  <2>5. 0 \in G
    BY <1>3, <2>4
  <2>6. ASSUME NEW n \in 1..N, n - 1 \in G PROVE n \in G
    <3>1. \A i \in 1..n - 1 : ToSet(below[i]) \subseteq ToSet(below[1])
      BY <2>4, <2>6
    <3>2. ToSet(below[n]) \subseteq ToSet(below[1])
      <4>1. CASE n = 1
        BY <4>1
      <4>2. CASE n # 1
        <5>1. PICK j \in 1..n - 1 : n \in ToSet(modules[j].children)
          BY <1>1, <1>3, <4>2
        <5>2. j \in 1..N
          BY <1>3
        <5>3. ToSet(below[n]) \subseteq ToSet(below[j])
          BY <2>3, <5>1, <5>2
        <5> QED
          BY <3>1, <5>3
      <4> QED
        BY <4>1, <4>2
    <3>3. \A i \in 1..n : i \in 1..n - 1 \/ i = n
      BY <1>3
    <3> QED
      BY <2>4, <3>1, <3>2, <3>3
  <2>7. N \in G
    <3>1. \A n \in 0..N : n \in G
      BY <1>3, <2>5, <2>6, Induction
    <3> QED
      BY <1>3, <3>1
  <2>8. U \subseteq ToSet(below[1])
    <3>1. \A i \in 1..N : ToSet(below[i]) \subseteq ToSet(below[1])
      BY <2>4, <2>7
    <3>2. \A i \in 1..N : ToSet(modules[i].resources) \subseteq ToSet(below[1])
      BY <2>3, <3>1
    <3> QED
      BY <1>1, <1>3, <3>2 DEF All
  <2>9. ToSet(below[1]) \subseteq U
    BY <2>1, <2>3, SequenceIs
  <2> QED
    BY <1>1, <1>5, <2>2, <2>8, <2>9 DEF Objects
<1> QED
  BY <1>4, <1>5

-----------------------------------------------------------------------------
(* collectFindings: what one result leaves in the report. *)

Distinct(s) == \A i, j \in DOMAIN s : Key(s[i]) = Key(s[j]) => i = j

\* One finding more.
AddOne(s, f) == IF Key(f) \in Keys(s) THEN s ELSE Append(s, f)

LEMMA AddOneIs ==
  ASSUME NEW s, NEW f, Sequence(s)
  PROVE  /\ Sequence(AddOne(s, f)) /\ ToSet(s) \subseteq ToSet(AddOne(s, f))
         /\ ToSet(AddOne(s, f)) \subseteq ToSet(s) \cup {f}
         /\ Keys(s) \subseteq Keys(AddOne(s, f)) /\ Key(f) \in Keys(AddOne(s, f))
         /\ Distinct(s) => Distinct(AddOne(s, f))
<1>1. CASE Key(f) \in Keys(s)
  BY <1>1 DEF AddOne
<1>2. CASE Key(f) \notin Keys(s)
  <2>1. PICK t : t = Append(s, f)
    OBVIOUS
  <2>2. /\ Sequence(t) /\ ToSet(t) = ToSet(s) \cup {f} /\ Len(t) = Len(s) + 1
        /\ t[Len(s) + 1] = f /\ \A i \in 1..Len(s) : t[i] = s[i]
    BY <2>1, SequenceAppend
  <2>3. DOMAIN s = 1..Len(s) /\ DOMAIN t = 1..Len(s) + 1 /\ Len(s) \in Nat
    BY <2>2, SequenceDomain
  <2>4. Keys(s) \subseteq Keys(t) /\ Key(f) \in Keys(t)
    BY <2>2, <2>3 DEF Keys
  <2>5. ASSUME Distinct(s) PROVE Distinct(t)
    <3>1. \A i \in 1..Len(s) : Key(t[i]) # Key(f)
      BY <1>2, <2>2, <2>3 DEF Keys
    <3>2. \A i, j \in 1..Len(s) : Key(t[i]) = Key(t[j]) => i = j
      BY <2>2, <2>3, <2>5 DEF Distinct
    <3>3. \A i \in DOMAIN t : i \in 1..Len(s) \/ (i = Len(s) + 1 /\ t[i] = f)
      BY <2>2, <2>3
    <3>4. ASSUME NEW i \in DOMAIN t, NEW j \in DOMAIN t, Key(t[i]) = Key(t[j]) PROVE i = j
      BY <3>1, <3>2, <3>3, <3>4
    <3> QED
      BY <3>4 DEF Distinct
  <2>6. AddOne(s, f) = t
    BY <1>2, <2>1 DEF AddOne
  <2> QED
    BY <2>2, <2>4, <2>5, <2>6
<1> QED
  BY <1>1, <1>2

Adding(seen, found, f, n) == IF n = 0 THEN seen ELSE AddOne(f[n - 1], found[n])
Keeps(seen, found, f) == f = [n \in 0..Len(found) |-> Adding(seen, found, f, n)]

LEMMA KeptExists ==
  ASSUME NEW seen, NEW found, Sequence(seen), Sequence(found)
  PROVE  \E f : Keeps(seen, found, f)
<1>1. DOMAIN found = 1..Len(found) /\ Len(found) \in Nat
  BY SequenceDomain
<1>2. PICK U : U = ToSet(seen) \cup ToSet(found)
  OBVIOUS
<1>3. PICK S : S = {s \in Seq(U) : Sequence(s)}
  OBVIOUS
<1>4. PICK N : N = Len(found)
  OBVIOUS
<1>5. PICK step : step = [n \in 1..N |-> [s \in S |-> AddOne(s, found[n])]]
  OBVIOUS
<1>6. seen \in S
  BY <1>2, <1>3, SequenceOver
<1>7. ASSUME NEW n \in 1..N, NEW s \in S PROVE AddOne(s, found[n]) \in S
  <2>1. found[n] \in ToSet(found)
    BY <1>1, <1>4 DEF ToSet
  <2>2. Sequence(s) /\ ToSet(s) \subseteq U
    BY <1>3, SequenceIs
  <2>3. Sequence(AddOne(s, found[n])) /\ ToSet(AddOne(s, found[n])) \subseteq U
    BY <1>2, <2>1, <2>2, AddOneIs
  <2> QED
    BY <1>3, <2>3, SequenceOver
<1>8. step \in [1..N -> [S -> S]]
  BY <1>5, <1>7
<1>9. PICK f : Chain(S, N, seen, step, f)
  BY <1>1, <1>4, <1>6, <1>8, Recursion
<1>10. f \in [0..N -> S] /\ f[0] = seen /\ \A n \in 1..N : f[n] = step[n][f[n - 1]]
  BY <1>9 DEF Chain
<1>11. \A n \in 0..N : f[n] = Adding(seen, found, f, n)
  <2> TAKE n \in 0..N
  <2>1. CASE n = 0
    BY <1>10, <2>1 DEF Adding
  <2>2. CASE n # 0
    <3>1. n \in 1..N /\ f[n - 1] \in S
      BY <1>1, <1>4, <1>10, <2>2
    <3>2. f[n] = AddOne(f[n - 1], found[n])
      BY <1>5, <1>10, <3>1
    <3> QED
      BY <2>2, <3>2 DEF Adding
  <2> QED
    BY <2>1, <2>2
<1>12. f = [n \in 0..N |-> f[n]]
  BY <1>10
<1>13. f = [n \in 0..N |-> Adding(seen, found, f, n)]
  BY <1>11, <1>12
<1> QED
  BY <1>4, <1>13 DEF Keeps

\* After the first n findings, s is the report.
Merging(seen, found, n, s) ==
    /\ Sequence(s) /\ ToSet(seen) \subseteq ToSet(s)
    /\ ToSet(s) \subseteq ToSet(seen) \cup ToSet(found)
    /\ Keys(seen) \subseteq Keys(s) /\ \A i \in 1..n : Key(found[i]) \in Keys(s)
    /\ Distinct(seen) => Distinct(s)

\* Nothing is dropped but findings whose key is there already, and nothing is added.
Merged(seen, found, s) ==
    /\ Sequence(s) /\ ToSet(seen) \subseteq ToSet(s)
    /\ ToSet(s) \subseteq ToSet(seen) \cup ToSet(found)
    /\ Keys(seen) \subseteq Keys(s) /\ Keys(found) \subseteq Keys(s)
    /\ Distinct(seen) => Distinct(s)

\* The dedupe of findings (runner.go:296-317): whatever was in the report and whatever comes,
\* no key is lost, nothing else is added, and nothing is there twice.
THEOREM KeptIs ==
  ASSUME NEW seen, NEW found, Sequence(seen), Sequence(found)
  PROVE  Merged(seen, found, Kept(seen, found)[Len(found)])
<1>1. PICK N : N = Len(found)
  OBVIOUS
<1>2. DOMAIN found = 1..N /\ N \in Nat
  BY <1>1, SequenceDomain
<1>3. PICK f : f = CHOOSE g : Keeps(seen, found, g)
  OBVIOUS
<1>4. f = [n \in 0..N |-> Adding(seen, found, f, n)]
  <2>1. Keeps(seen, found, f)
    BY <1>3, KeptExists
  <2> QED
    BY <1>1, <2>1 DEF Keeps
<1>5. Kept(seen, found) = f
  BY <1>3, Zenon DEF Kept, Adding, AddOne, Keeps
<1>6. f[0] = seen /\ \A n \in 1..N : f[n] = AddOne(f[n - 1], found[n])
  <2>1. \A n \in 0..N : f[n] = Adding(seen, found, f, n)
    BY <1>4
  <2> QED
    BY <1>2, <2>1 DEF Adding
<1>7. PICK G : G = {n \in 0..N : Merging(seen, found, n, f[n])}
  OBVIOUS
<1>8. 0 \in G
  <2>1. Merging(seen, found, 0, seen) /\ 0 \in 0..N
    BY <1>2 DEF Merging
  <2> QED
    BY <1>6, <1>7, <2>1
<1>9. ASSUME NEW n \in 1..N, n - 1 \in G PROVE n \in G
  <2>1. PICK s, x : s = f[n - 1] /\ x = found[n]
    OBVIOUS
  <2>2. Merging(seen, found, n - 1, s)
    BY <1>7, <1>9, <2>1
  <2>3. f[n] = AddOne(s, x) /\ x \in ToSet(found)
    BY <1>2, <1>6, <2>1 DEF ToSet
  <2>4. Sequence(s) /\ \A i \in 1..n - 1 : Key(found[i]) \in Keys(s)
    BY <2>2 DEF Merging
  <2>5. /\ Sequence(AddOne(s, x)) /\ ToSet(s) \subseteq ToSet(AddOne(s, x))
        /\ ToSet(AddOne(s, x)) \subseteq ToSet(s) \cup {x}
        /\ Keys(s) \subseteq Keys(AddOne(s, x)) /\ Key(x) \in Keys(AddOne(s, x))
        /\ Distinct(s) => Distinct(AddOne(s, x))
    BY <2>4, AddOneIs
  <2>6. \A i \in 1..n : Key(found[i]) \in Keys(AddOne(s, x))
    <3>1. \A i \in 1..n : i \in 1..n - 1 \/ i = n
      BY <1>2
    <3> QED
      BY <2>1, <2>4, <2>5, <3>1
  <2>7. Merging(seen, found, n, AddOne(s, x))
    BY <2>2, <2>3, <2>5, <2>6 DEF Merging
  <2>8. n \in 0..N
    OBVIOUS
  <2> QED
    BY <1>7, <2>3, <2>7, <2>8
<1>10. N \in G
  <2>1. \A n \in 0..N : n \in G
    BY <1>2, <1>8, <1>9, Induction
  <2> QED
    BY <1>2, <2>1
<1>11. PICK s : s = f[N]
  OBVIOUS
<1>12. Merging(seen, found, N, s)
  BY <1>7, <1>10, <1>11
<1>13. Keys(found) \subseteq Keys(s)
  BY <1>2, <1>12 DEF Keys, Merging
<1>14. Merged(seen, found, s)
  BY <1>12, <1>13 DEF Merged, Merging
<1> QED
  BY <1>1, <1>5, <1>11, <1>14

-----------------------------------------------------------------------------
(* What is read, chosen and found is a sequence. *)

Requested == request \in Requests

LEMMA RequestIs ==
  ASSUME Requested
  PROVE  /\ request.via \in {"run", "context", "resources"}
         /\ request.mode \in {"state", "source", "resources"}
         /\ request.llm \in {"", "cli", "grounded", "http"} /\ request.pool \in 0..2
         /\ IsState(request.state) /\ Sequence(request.names) /\ Sequence(request.resources)
         /\ Sequence(request.tree)
         /\ \A i \in DOMAIN request.tree : Sequence(request.tree[i].resources)
         /\ request.mode # "source" => request.tree = <<>>
  BY ScanAssumption DEF Requested

LEMMA ResourcesIs == ASSUME NEW objects, Sequence(objects) PROVE Sequence(Resources(objects))
<1>1. PICK t : t = [i \in DOMAIN objects |-> Resource(objects[i])]
  OBVIOUS
<1>2. Sequence(t)
  BY <1>1, SequenceByIndex
<1> QED
  BY <1>1, <1>2 DEF Resources

LEMMA StateIs ==
  ASSUME NEW state, NEW yes, IsState(state) PROVE Sequence(ParseState(state, yes))
<1>1. Sequence(<<>>)
  BY SequenceSmall
<1>2. Sequence(ParsePulumiState(state))
  BY ResourcesIs DEF IsState, ParsePulumiState
<1>3. Sequence(ParseTerraformState(state))
  <2>1. PICK objects : objects = state.top \o Objects(state.modules)
    OBVIOUS
  <2>2. Sequence(state.top) /\ Sequence(Objects(state.modules))
    BY ObjectsIs DEF IsState
  <2>3. Sequence(objects)
    BY <2>1, <2>2, SequenceConcat
  <2>4. Sequence(Resources(objects))
    BY <2>3, ResourcesIs
  <2> QED
    BY <1>1, <2>1, <2>4 DEF ParseTerraformState
<1> QED
  BY <1>1, <1>2, <1>3 DEF ParseState

LEMMA InputIs == ASSUME Requested PROVE Sequence(Input)
<1>1. Sequence(ParseState(request.state, request.yes)) /\ Sequence(request.resources)
  BY RequestIs, StateIs
<1> QED
  BY <1>1, SequenceSmall DEF Input

LEMMA EvaluateAllIs ==
  ASSUME NEW resources, Sequence(resources) PROVE Sequence(EvaluateAll(resources))
<1>1. PICK seqs : seqs = [i \in DOMAIN resources |-> EvaluateResource(resources[i])]
  OBVIOUS
<1>2. \A x, y : Sequence(<<x, y>>)
  BY DEF Sequence, ToSet
<1>3. \A r : Sequence(EvaluateResource(r))
  BY <1>2, SequenceSmall DEF EvaluateResource
<1>4. Sequence(FlattenSeq(seqs))
  BY <1>1, <1>3, FlattenSequences
<1> QED
  BY <1>1, <1>4 DEF EvaluateAll

Hcl(tree) == Select(tree, LAMBDA f : f.kind = "tf" /\ f.ok)

LEMMA HclIs ==
  ASSUME NEW tree, Sequence(tree)
  PROVE  /\ Sequence(Hcl(tree))
         /\ \A f \in ToSet(Hcl(tree)) : \E i \in DOMAIN tree : f = tree[i] /\ f.kind = "tf" /\ f.ok
<1>1. PICK seqs : seqs = [i \in DOMAIN tree |->
                            IF tree[i].kind = "tf" /\ tree[i].ok THEN <<tree[i]>> ELSE <<>>]
  OBVIOUS
<1>2. /\ Sequence(FlattenSeq(seqs))
      /\ \A x : x \in ToSet(FlattenSeq(seqs))
                  <=> \E i \in DOMAIN tree : x = tree[i] /\ seqs[i] = <<tree[i]>>
  <2>1. seqs = [i \in DOMAIN tree |-> seqs[i]]
    BY <1>1
  <2>2. \A i \in DOMAIN tree : seqs[i] \in {<<tree[i]>>, <<>>}
    BY <1>1
  <2> HIDE <1>1
  <2> QED
    BY <2>1, <2>2, Selected
<1>3. Hcl(tree) = FlattenSeq(seqs)
  BY <1>1, Zenon DEF Hcl, Select
<1>4. \A i \in DOMAIN tree : seqs[i] = <<tree[i]>> => tree[i].kind = "tf" /\ tree[i].ok
  BY <1>1
<1> QED
  BY <1>2, <1>3, <1>4

IsTree(tree) == Sequence(tree) /\ \A i \in DOMAIN tree : Sequence(tree[i].resources)

LEMMA TerraformSourceIs ==
  ASSUME NEW tree, IsTree(tree) PROVE Sequence(ParseTerraformSource(tree))
<1>1. PICK hcl : hcl = Hcl(tree)
  OBVIOUS
<1>2. PICK seqs : seqs = [i \in DOMAIN hcl |-> hcl[i].resources]
  OBVIOUS
<1>3. Sequence(hcl) /\ \A i \in DOMAIN hcl : Sequence(hcl[i].resources)
  <2>1. Sequence(hcl) /\ \A f \in ToSet(hcl) : \E i \in DOMAIN tree : f = tree[i]
    BY <1>1, HclIs DEF IsTree
  <2> QED
    BY <2>1 DEF IsTree, ToSet
<1>4. Sequence(FlattenSeq(seqs))
  BY <1>2, <1>3, FlattenSequences
<1>5. ParseTerraformSource(tree) = FlattenSeq(seqs)
  BY <1>1, <1>2, Zenon DEF ParseTerraformSource, Hcl
<1> QED
  BY <1>4, <1>5

LEMMA StaticSourceIs ==
  ASSUME NEW tree, IsTree(tree), NEW n \in 0..2 PROVE Sequence(StaticSource(tree, n))
<1>1. Sequence(EvaluateAll(ParseTerraformSource(tree)))
  BY TerraformSourceIs, EvaluateAllIs
<1>2. Sequence(SubSeq(MockFindings, 1, n + 1))
  <2>1. PICK U : U = ToSet(MockFindings)
    OBVIOUS
  <2>2. MockFindings \in Seq(U) /\ Len(MockFindings) = 3
    BY <2>1 DEF MockFindings, ToSet
  <2>3. SubSeq(MockFindings, 1, n + 1) \in Seq(U)
    BY <2>2
  <2> QED
    BY <2>3, SequenceIs
<1> QED
  BY <1>1, <1>2 DEF StaticSource

LEMMA OrphansIs ==
  ASSUME NEW resources, Sequence(resources) PROVE Sequence(Orphans(resources))
<1> DEFINE aws == Select(resources, LAMBDA r : r.type[1] = "aws")
           referenced == UNION {aws[i].refs : i \in {j \in DOMAIN aws : aws[j].type[2] # "securityGroup"}}
           Detect(kind) == Select(aws, LAMBDA r : r.type[2] = kind /\ Orphan(r, referenced))
           found == Detect("volume") \o Detect("eip") \o Detect("role")
                    \o Detect("bucket") \o Detect("securityGroup")
<1>1. Orphans(resources) = [i \in DOMAIN found |->
                              Finding(OrphanRule[found[i].type[2]], found[i].urn, Info)]
  BY Zenon DEF Orphans
<1>2. Sequence(aws)
  <2>1. PICK seqs : seqs = [i \in DOMAIN resources |->
                              IF resources[i].type[1] = "aws" THEN <<resources[i]>> ELSE <<>>]
    OBVIOUS
  <2>2. seqs = [i \in DOMAIN resources |-> seqs[i]]
    BY <2>1
  <2>3. \A i \in DOMAIN resources : seqs[i] \in {<<resources[i]>>, <<>>}
    BY <2>1
  <2>4. aws = FlattenSeq(seqs)
    BY <2>1, Zenon DEF Select
  <2> HIDE <2>1 DEF aws
  <2>5. Sequence(FlattenSeq(seqs))
    BY <2>2, <2>3, Selected
  <2> QED
    BY <2>4, <2>5
<1> HIDE DEF aws, referenced
<1>3. ASSUME NEW kind PROVE Sequence(Detect(kind))
  <2>1. PICK seqs : seqs = [i \in DOMAIN aws |->
                              IF aws[i].type[2] = kind /\ Orphan(aws[i], referenced)
                              THEN <<aws[i]>> ELSE <<>>]
    OBVIOUS
  <2>2. seqs = [i \in DOMAIN aws |-> seqs[i]]
    BY <2>1
  <2>3. \A i \in DOMAIN aws : seqs[i] \in {<<aws[i]>>, <<>>}
    BY <2>1
  <2>4. Detect(kind) = FlattenSeq(seqs)
    BY <2>1, Zenon DEF Select
  <2> HIDE <2>1 DEF Detect
  <2>5. Sequence(FlattenSeq(seqs))
    BY <1>2, <2>2, <2>3, Selected
  <2> QED
    BY <2>4, <2>5
<1>4. Sequence(found)
  <2> HIDE DEF Detect
  <2> QED
    BY <1>3, SequenceConcat
<1> HIDE DEF found
<1>5. PICK t : t = [i \in DOMAIN found |-> Finding(OrphanRule[found[i].type[2]], found[i].urn, Info)]
  OBVIOUS
<1>6. Sequence(t)
  <2>1. t = [i \in DOMAIN found |-> t[i]]
    BY <1>5
  <2> HIDE <1>5
  <2> QED
    BY <1>4, <2>1, SequenceByIndex
<1> QED
  BY <1>1, <1>5, <1>6

LEMMA HandedIs == ASSUME NEW resources, Sequence(resources) PROVE Sequence(Handed(resources))
<1>1. PICK seqs : seqs = [i \in DOMAIN resources |->
                            IF resources[i].type[1] = "terraform"
                               \/ (resources[i].type[1] = "pulumi" /\ resources[i].type[2] \in Kinds)
                            THEN <<resources[i]>> ELSE <<>>]
  OBVIOUS
<1>2. Sequence(FlattenSeq(seqs))
  <2>1. seqs = [i \in DOMAIN resources |-> seqs[i]]
    BY <1>1
  <2>2. \A i \in DOMAIN resources : seqs[i] \in {<<resources[i]>>, <<>>}
    BY <1>1
  <2> HIDE <1>1
  <2> QED
    BY <2>1, <2>2, Selected
<1>3. Handed(resources) = FlattenSeq(seqs)
  BY <1>1, Zenon DEF Handed, Select
<1> QED
  BY <1>2, <1>3

LEMMA SubjectsAre == ASSUME Requested, NEW i PROVE Sequence(Subjects(i))
<1>1. Sequence(<<<<"r1">>, <<"r2">>>>)
  BY DEF Sequence, ToSet
<1>2. PICK handed : handed = Handed(Input)
  OBVIOUS
<1>3. PICK t : t = [k \in DOMAIN handed |-> Address(handed[k])]
  OBVIOUS
<1>4. Sequence(handed)
  BY <1>2, InputIs, HandedIs
<1>5. Sequence(t)
  <2>1. t = [k \in DOMAIN handed |-> t[k]]
    BY <1>3
  <2> HIDE <1>3
  <2> QED
    BY <1>4, <2>1, SequenceByIndex
<1>6. Subjects(i) = IF request.mode = "source" \/ providers[i] = "prowler" THEN <<<<"r1">>, <<"r2">>>>
                    ELSE t
  BY <1>2, <1>3, Zenon DEF Subjects
<1> QED
  BY <1>1, <1>5, <1>6

\* What a tool writes is nothing that can be read, or a sequence of results.
LEMMA OutputsAre ==
  ASSUME Requested, NEW i, NEW output \in Outputs(i), output.kind = "results"
  PROVE  Sequence(output.results)
<1> DEFINE Result(k, word) == [rule |-> "R", res |-> Subjects(i)[k], file |-> <<"main.tf">>,
                               word |-> word, fail |-> word # "info"]
<1>1. output \notin [kind : {"none", "prose"}]
  OBVIOUS
<1>2. PICK n \in 0..Len(Subjects(i)), word \in Words :
        output = [kind |-> "results", results |-> [k \in 1..n |-> Result(k, word)]]
  <2>1. output \in {[kind |-> "results", results |-> [k \in 1..n |-> Result(k, word)]] :
                      n \in 0..Len(Subjects(i)), word \in Words}
    <3> DEFINE T == {[kind |-> "results", results |-> [k \in 1..n |-> Result(k, word)]] :
                        n \in 0..Len(Subjects(i)), word \in Words}
    <3>1. Outputs(i) = [kind : {"none", "prose"}] \cup T
      BY DEF Outputs
    <3> HIDE DEF T
    <3>2. output \in T
      BY <1>1, <3>1
    <3> QED
      BY <3>2 DEF T
  <2> QED
    BY <2>1
<1>3. PICK t : t = [k \in 1..n |-> Result(k, word)]
  OBVIOUS
<1>4. Sequence(t)
  <2>1. t = [k \in 1..n |-> t[k]]
    BY <1>3
  <2>2. n \in Nat
    BY SubjectsAre, SequenceDomain
  <2> HIDE <1>3
  <2>3. t \in [1..n -> ToSet(t)]
    BY <2>1 DEF ToSet
  <2> QED
    BY <2>2, <2>3 DEF Sequence
<1>5. output.results = t
  BY <1>2, <1>3
<1> QED
  BY <1>4, <1>5

LEMMA ParseOutputIs ==
  ASSUME NEW tool \in Tools, NEW results, Sequence(results)
  PROVE  Sequence(ParseOutput(tool, results))
<1>1. Sequence(ParseTfsecOutput(results))
  BY SequenceByIndex DEF ParseTfsecOutput
<1>2. ASSUME NEW some, Sequence(some) PROVE Sequence(ParseCheckovOutput(some))
  BY <1>2, SequenceByIndex DEF ParseCheckovOutput
<1>3. Sequence(ParseTrivyOutput(results))
  BY SequenceByIndex DEF ParseTrivyOutput
<1>4. Sequence(ParseProwlerOutput(results))
  <2>1. PICK seqs : seqs = [i \in DOMAIN results |->
                              IF results[i].fail THEN <<results[i]>> ELSE <<>>]
    OBVIOUS
  <2>2. Sequence(FlattenSeq(seqs))
    <3>1. seqs = [i \in DOMAIN results |-> seqs[i]]
      BY <2>1
    <3>2. \A i \in DOMAIN results : seqs[i] \in {<<results[i]>>, <<>>}
      BY <2>1
    <3> HIDE <2>1
    <3> QED
      BY <3>1, <3>2, Selected
  <2>3. Select(results, LAMBDA r : r.fail) = FlattenSeq(seqs)
    BY <2>1, Zenon DEF Select
  <2> QED
    BY <1>2, <2>2, <2>3, Zenon DEF ParseProwlerOutput
<1> QED
  BY <1>1, <1>2, <1>3, <1>4 DEF ParseOutput, Tools

LEMMA AdapterIs ==
  ASSUME Requested, NEW i, NEW output \in Outputs(i), NEW tool \in Tools, NEW exit, NEW done
  PROVE  /\ Sequence(Adapter(tool, exit, done, output).found)
         /\ Adapter(tool, exit, done, output).err \in BOOLEAN
         /\ ~Adapter(tool, exit, done, output).err
              => output.kind = "results" /\ (exit = "ok" \/ (tool = "prowler" /\ ~done))
<1>1. output.kind = "results" => Sequence(ParseOutput(tool, output.results))
  BY OutputsAre, ParseOutputIs
<1> QED
  BY <1>1, SequenceSmall DEF Adapter

\* What an LLM says of its own failure, and that it says it as a warning.
Loud == {"LLM-ERROR", "LLM-CB-KNOWLEDGE-PARTIAL"}
Says(found, rules) == \E f \in ToSet(found) : f.rule \in rules
Warns(found) == \A f \in ToSet(found) : f.rule \in Loud => f.sev = Warning
Truncates == CapPromptResources(Grounded) > 0

LEMMA FindingsAre ==
  ASSUME NEW answer, Sequence(answer)
  PROVE  /\ Sequence(ParseLLMFindings(answer)) /\ Warns(ParseLLMFindings(answer))
<1>1. PICK t : t = ParseLLMFindings(answer)
  OBVIOUS
<1>2. t = [k \in DOMAIN answer |-> t[k]] /\ \A k \in DOMAIN answer : t[k].rule \notin Loud
  BY <1>1 DEF ParseLLMFindings, Finding, Loud
<1>3. Sequence(t) /\ DOMAIN t = DOMAIN answer
  BY <1>2, SequenceByIndex
<1>4. Warns(t)
  BY <1>2, <1>3 DEF Warns, ToSet
<1> QED
  BY <1>1, <1>3, <1>4

LEMMA PostProcessIs ==
  ASSUME NEW i, NEW findings, Sequence(findings), Warns(findings)
  PROVE  LET found == PostProcess(i, findings) IN
         /\ Sequence(found) /\ Warns(found)
         /\ Truncates => Says(found, {"LLM-CB-TRUNCATED"})
         /\ runs[i].happened = "misses" => Says(found, Loud)
<1> DEFINE If(condition, finding) == IF condition THEN <<finding>> ELSE <<>>
           f1 == About("LLM-CB-TRUNCATED", Info)
           f2 == About("LLM-CB-KNOWLEDGE-PARTIAL", Warning)
           f3 == About("LLM-CB-RULES-PROVENANCE", Info)
<1>1. PICK a, b, c : /\ a = If(Truncates, f1) /\ b = If(runs[i].happened = "misses", f2)
                     /\ c = <<f3>>
  OBVIOUS
<1>2. /\ Sequence(a) /\ ToSet(a) = IF Truncates THEN {f1} ELSE {}
      /\ Sequence(b) /\ ToSet(b) = IF runs[i].happened = "misses" THEN {f2} ELSE {}
      /\ Sequence(c) /\ ToSet(c) = {f3}
  <2> HIDE DEF f1, f2, f3
  <2> QED
    BY <1>1, SequenceSmall
<1>3. PICK found : found = findings \o a \o b \o c
  OBVIOUS
<1>4. Sequence(found) /\ ToSet(found) = ToSet(findings) \cup ToSet(a) \cup ToSet(b) \cup ToSet(c)
  <2> HIDE DEF f1, f2, f3
  <2> QED
    BY <1>2, <1>3, SequenceConcat
<1>5. PostProcess(i, findings) = found
  BY <1>1, <1>3, Zenon DEF PostProcess, Truncates
<1>6. /\ f1.rule \notin Loud /\ f1.rule = "LLM-CB-TRUNCATED"
      /\ f2.rule \in Loud /\ f2.sev = Warning /\ f3.rule \notin Loud
  BY DEF Loud, About, Finding
<1> HIDE DEF f1, f2, f3
<1>7. Warns(found)
  BY <1>2, <1>4, <1>6 DEF Warns
<1>8. Truncates => Says(found, {"LLM-CB-TRUNCATED"})
  BY <1>2, <1>4, <1>6 DEF Says
<1>9. runs[i].happened = "misses" => Says(found, Loud)
  BY <1>2, <1>4, <1>6 DEF Says
<1> QED
  BY <1>4, <1>5, <1>7, <1>8, <1>9

\* A scan runs adapters, or an LLM and nothing else.
IsProviders(ps) ==
    /\ Sequence(ps)
    /\ \/ \A i \in DOMAIN ps : ps[i] \in Known
       \/ DOMAIN ps = {1} /\ ps[1] = "llm"

LEMMA ProvidersAre == ASSUME Requested PROVE IsProviders(Providers)
<1>1. Sequence(<<"static", "orphan">>) /\ \A x \in ToSet(<<"static", "orphan">>) : x \in Known
  BY DEF Sequence, ToSet, Known
<1>2. Sequence(SelectProviders) /\ \A x \in ToSet(SelectProviders) : x \in Known
  <2>1. PICK names : names = request.names
    OBVIOUS
  <2>2. PICK seqs : seqs = [i \in DOMAIN names |-> IF names[i] \in Known THEN <<names[i]>> ELSE <<>>]
    OBVIOUS
  <2>3. seqs = [i \in DOMAIN names |-> seqs[i]] /\ Sequence(names)
    BY <2>1, <2>2, RequestIs
  <2>4. \A i \in DOMAIN names : seqs[i] \in {<<names[i]>>, <<>>} /\ (seqs[i] = <<names[i]>> => names[i] \in Known)
    BY <2>2
  <2>5. Select(request.names, LAMBDA name : name \in Known) = FlattenSeq(seqs)
    BY <2>1, <2>2, Zenon DEF Select
  <2> HIDE <2>2
  <2>6. /\ Sequence(FlattenSeq(seqs))
        /\ \A x : x \in ToSet(FlattenSeq(seqs))
                    <=> \E i \in DOMAIN names : x = names[i] /\ seqs[i] = <<names[i]>>
    BY <2>3, <2>4, Selected
  <2>7. \A x \in ToSet(FlattenSeq(seqs)) : x \in Known
    BY <2>4, <2>6
  <2> QED
    BY <1>1, <2>5, <2>6, <2>7 DEF SelectProviders
<1>3. Sequence(SourceProviders) /\ \A x \in ToSet(SourceProviders) : x \in Known
  <2>1. PICK names : names = SelectProviders
    OBVIOUS
  <2>2. PICK seqs : seqs = [i \in DOMAIN names |->
                              IF names[i] \in SupportsSource
                                 /\ (names[i] = "tfsec" => Iac \in {"", "terraform"})
                              THEN <<names[i]>> ELSE <<>>]
    OBVIOUS
  <2>3. seqs = [i \in DOMAIN names |-> seqs[i]] /\ Sequence(names)
    BY <1>2, <2>1, <2>2
  <2>4. \A i \in DOMAIN names : seqs[i] \in {<<names[i]>>, <<>>} /\ names[i] \in Known
    BY <1>2, <2>1, <2>2 DEF ToSet
  <2>5. SourceProviders = FlattenSeq(seqs)
    BY <2>1, <2>2, Zenon DEF Select, SourceProviders
  <2> HIDE <2>2
  <2>6. /\ Sequence(FlattenSeq(seqs))
        /\ \A x : x \in ToSet(FlattenSeq(seqs))
                    <=> \E i \in DOMAIN names : x = names[i] /\ seqs[i] = <<names[i]>>
    BY <2>3, <2>4, Selected
  <2> QED
    BY <2>4, <2>5, <2>6
<1>4. Sequence(<<"llm">>) /\ DOMAIN <<"llm">> = {1} /\ <<"llm">>[1] = "llm"
  BY SequenceSmall
<1>5. \A s : (\A x \in ToSet(s) : x \in Known) => \A i \in DOMAIN s : s[i] \in Known
  BY DEF ToSet
<1>6. IsProviders(SelectProviders) /\ IsProviders(SourceProviders) /\ IsProviders(<<"llm">>)
  BY <1>2, <1>3, <1>4, <1>5 DEF IsProviders
<1> QED
  BY <1>6 DEF Providers

-----------------------------------------------------------------------------
(* An LLM that is shown nothing is not shown too little. *)

LEMMA CapEmpty == CapPromptResources(<<>>) = 0
<1> DEFINE Fits(k) == k <= MaxResources /\ (k <= 1 \/ Bytes(SubSeq(<<>>, 1, k)) <= MaxBytes)
<1>1. Len(<<>>) = 0 /\ 0..0 = {0} /\ MaxResources \in Nat
  BY InventoryAssumption
<1>2. Fits(0)
  BY <1>1
<1>3. PICK shown : shown = CHOOSE k \in 0..0 : Fits(k) /\ \A j \in 0..0 : Fits(j) => j <= k
  OBVIOUS
<1>4. CapPromptResources(<<>>) = 0 - shown
  BY <1>1, <1>3 DEF CapPromptResources
<1> HIDE DEF Fits
<1>5. shown \in {0}
  <2>1. \E k \in 0..0 : Fits(k) /\ \A j \in 0..0 : Fits(j) => j <= k
    BY <1>1, <1>2
  <2> QED
    BY <1>1, <1>3, <2>1
<1> HIDE <1>3
<1> QED
  BY <1>4, <1>5

LEMMA NoBlocks == ASSUME NEW tree, Hcl(tree) = <<>> PROVE ParseTerraformSource(tree) = <<>>
<1>1. PICK hcl, seqs : hcl = Hcl(tree) /\ seqs = [i \in DOMAIN hcl |-> hcl[i].resources]
  OBVIOUS
<1>2. seqs = <<>>
  BY <1>1
<1>3. FlattenSeq(<<>>) = <<>>
  BY DEF FlattenSeq
<1>4. ParseTerraformSource(tree) = FlattenSeq(seqs)
  BY <1>1, Zenon DEF ParseTerraformSource, Hcl
<1> QED
  BY <1>2, <1>3, <1>4

\* Where no source file can be shown and none is bad, there is no HCL file.
THEOREM NothingGrounded ==
  ASSUME Requested, CollectSourceFiles(request.tree, Iac) = <<>>
  PROVE  ~Truncates
<1>1. CASE ~Grounds
  <2>1. Grounded = <<>>
    BY <1>1 DEF Grounded
  <2> QED
    BY <2>1, CapEmpty DEF Truncates
<1>2. CASE Grounds
  <2>1. PICK tree : tree = request.tree
    OBVIOUS
  <2>2. /\ Sequence(tree) /\ CollectSourceFiles(tree, "terraform") = <<>>
        /\ \A i \in DOMAIN tree : tree[i].kind \in Terraform => tree[i].ok
    BY <1>2, <2>1, RequestIs DEF Grounds, Diagnostics
  <2>3. PICK seqs : seqs = [i \in DOMAIN tree |->
                              IF Relevant(tree[i], "terraform") THEN <<tree[i]>> ELSE <<>>]
    OBVIOUS
  <2>4. PICK relevant : relevant = FlattenSeq(seqs)
    OBVIOUS
  <2>5. /\ Sequence(relevant)
        /\ \A x : x \in ToSet(relevant)
                    <=> \E i \in DOMAIN tree : x = tree[i] /\ tree[i].kind \in Terraform
    <3>1. seqs = [i \in DOMAIN tree |-> seqs[i]]
      BY <2>3
    <3>2. \A i \in DOMAIN tree : seqs[i] \in {<<tree[i]>>, <<>>}
      BY <2>3
    <3>3. \A i \in DOMAIN tree : seqs[i] = <<tree[i]>> <=> tree[i].kind \in Terraform
      BY <2>3 DEF Relevant
    <3> HIDE <2>3
    <3>4. /\ Sequence(FlattenSeq(seqs))
          /\ \A x : x \in ToSet(FlattenSeq(seqs))
                      <=> \E i \in DOMAIN tree : x = tree[i] /\ seqs[i] = <<tree[i]>>
      BY <2>2, <3>1, <3>2, Selected
    <3> QED
      BY <2>4, <3>3, <3>4
  <2>6. Select(tree, LAMBDA f : Relevant(f, "terraform")) = relevant
    BY <2>3, <2>4, Zenon DEF Select
  <2>7. relevant = <<>>
    <3> SUFFICES ASSUME relevant # <<>> PROVE FALSE
      OBVIOUS
    <3> DEFINE shown == IF Len(relevant) < MaxFiles THEN Len(relevant) ELSE MaxFiles
    <3>1. PICK first : first = SubSeq(relevant, 1, shown)
      OBVIOUS
    <3>2. relevant \in Seq(ToSet(relevant)) /\ Len(relevant) \in Nat \ {0}
      BY <2>5, SequenceDomain, SequenceEmpty DEF Sequence
    <3>3. shown \in 1..Len(relevant)
      BY <3>2, InventoryAssumption
    <3>4. first \in Seq(ToSet(relevant)) /\ Len(first) = shown
      <4>1. PICK S : S = ToSet(relevant)
        OBVIOUS
      <4>2. relevant \in Seq(S)
        BY <3>2, <4>1
      <4> HIDE DEF shown
      <4>3. first \in Seq(S) /\ Len(first) = shown
        BY <3>1, <3>2, <3>3, <4>2
      <4> QED
        BY <4>1, <4>3
    <3>5. Sequence(first) /\ first[1] \in ToSet(relevant) /\ 1 \in DOMAIN first
      <4> HIDE DEF shown
      <4> QED
        BY <3>2, <3>3, <3>4, SequenceIs
    <3>6. first[1].ok
      BY <2>2, <2>5, <3>5
    <3>7. PICK oks : oks = [i \in DOMAIN first |-> IF first[i].ok THEN <<first[i]>> ELSE <<>>]
      OBVIOUS
    <3>8. CollectSourceFiles(tree, "terraform") = FlattenSeq(oks)
      BY <2>6, <3>1, <3>7, Zenon DEF CollectSourceFiles, Select
    <3>9. first[1] \in ToSet(FlattenSeq(oks))
      <4>1. oks = [i \in DOMAIN first |-> oks[i]] /\ oks[1] = <<first[1]>>
        BY <3>5, <3>6, <3>7
      <4>2. \A i \in DOMAIN first : oks[i] \in {<<first[i]>>, <<>>}
        BY <3>7
      <4> HIDE <3>7
      <4>3. \A x : x \in ToSet(FlattenSeq(oks))
                     <=> \E i \in DOMAIN first : x = first[i] /\ oks[i] = <<first[i]>>
        BY <3>5, <4>1, <4>2, Selected
      <4> QED
        BY <3>5, <4>1, <4>3
    <3> QED
      BY <2>2, <3>8, <3>9, SequenceSmall
  <2>8. Hcl(tree) = <<>>
    <3>1. Sequence(Hcl(tree)) /\ ToSet(Hcl(tree)) = {}
      BY <2>2, <2>5, <2>7, HclIs, SequenceSmall DEF Terraform
    <3> QED
      BY <3>1, SequenceEmpty DEF ToSet
  <2>9. ParseTerraformSource(tree) = <<>>
    BY <2>8, NoBlocks
  <2> QED
    BY <1>2, <2>1, <2>9, CapEmpty DEF Truncates, Grounded
<1> QED
  BY <1>1, <1>2

\* Only an audit of source files has an LLM that could be shown too little.
LEMMA NotSource == ASSUME Requested, request.mode # "source" PROVE ~Truncates
<1>1. request.tree = <<>>
  BY RequestIs
<1>2. Sequence(Hcl(<<>>)) /\ ToSet(Hcl(<<>>)) = {}
  <2>1. Sequence(<<>>) /\ DOMAIN <<>> = {}
    BY SequenceSmall
  <2>2. PICK tree : tree = <<>>
    OBVIOUS
  <2>3. Sequence(Hcl(tree)) /\ \A f \in ToSet(Hcl(tree)) : \E i \in DOMAIN tree : f = tree[i]
    BY <2>1, <2>2, HclIs
  <2> QED
    BY <2>1, <2>2, <2>3
<1>3. Hcl(<<>>) = <<>>
  BY <1>2, SequenceEmpty DEF ToSet
<1>4. Grounded = <<>>
  BY <1>1, <1>3, NoBlocks DEF Grounded
<1> QED
  BY <1>4, CapEmpty DEF Truncates

-----------------------------------------------------------------------------
(* The inductive invariant: what a goroutine knows wherever it is, and what the stream and *)
(* the report keep of those that are done.                                                 *)

Answered == {"send", "done"}
Places == {"judge", "version", "prepare", "tool", "gather", "fetch", "stream", "held"} \cup Answered

IsRun(run) ==
    /\ run = [at |-> run.at, late |-> run.late, hung |-> run.hung, temp |-> run.temp,
              found |-> run.found, err |-> run.err, happened |-> run.happened]
    /\ run.at \in Places /\ run.temp \in BOOLEAN /\ run.err \in BOOLEAN /\ Sequence(run.found)

\* A panic is told, and nothing temporary is left once there is an answer.
Tidy(run) ==
    /\ run.temp => run.at \in {"tool", "held"}
    /\ run.happened = "panic" => run.err

\* Which provider is where, and what can have happened to it before it answers.
Place(p, run) ==
    /\ run.at = "judge" => p \in {"static", "orphan"}
    /\ run.at \in {"version", "prepare", "tool"} => p \in Tools
    /\ run.at \in {"gather", "fetch", "stream"} => p = "llm"
    /\ run.at = "fetch" => Grounds
    /\ run.at \in Places \ ({"stream", "held"} \cup Answered) => run.happened = "nothing"
    /\ run.at = "stream" => run.happened = "nothing" \/ (run.happened = "misses" /\ Grounds)

\* What the code lets pass: prowler's exit code, and an error inside a stream over HTTP.
Conceded(p, happened) ==
    \/ p = "prowler" /\ happened = "exit"
    \/ p = "llm" /\ happened = "silence" /\ request.llm = "http"

\* What an answer tells: anything else that happened, and what the LLM was not shown.
Tells(p, happened, found, err) ==
    /\ happened = "nothing" \/ Conceded(p, happened) \/ err \/ (p = "llm" /\ Says(found, Loud))
    /\ p = "llm" /\ happened = "nothing" /\ Truncates => Says(found, {"LLM-CB-TRUNCATED"})
    /\ p = "llm" => Warns(found)
Told(p, run) == run.at \in Answered => Tells(p, run.happened, run.found, run.err)

RunInv(p, run) == IsRun(run) /\ Tidy(run) /\ Place(p, run) /\ Told(p, run)

ShapeInv ==
    /\ Requested /\ phase \in {"collect", "scan", "returned"}
    /\ closed \in BOOLEAN /\ Sequence(stream) /\ Sequence(report)
    /\ runs = [i \in DOMAIN runs |-> runs[i]]

PhaseInv ==
    /\ phase = "collect" => /\ DOMAIN runs = {} /\ stream = <<>> /\ ~closed /\ report = <<>>
                            /\ errors = {}
    /\ phase # "returned" => result = "none"
    /\ phase = "scan" \/ (phase = "returned" /\ result # "refused") =>
         providers = Providers /\ DOMAIN runs = DOMAIN providers /\ ~Refused
    /\ closed => \A i \in DOMAIN runs : runs[i].at = "done"
    /\ phase = "returned" /\ result # "refused" => closed /\ stream = <<>>
    /\ result = "ok" => errors = {}

RunsInv == \A i \in DOMAIN runs : RunInv(providers[i], runs[i])

Collected(i) ==
    /\ Keys(runs[i].found) \subseteq Keys(report)
    /\ runs[i].err => i \in errors

\* What was sent is in the stream or collected, and nothing else is.
StreamInv ==
    \A m \in ToSet(stream) :
        /\ m.from \in DOMAIN runs /\ runs[m.from].at = "done"
        /\ m.found = runs[m.from].found /\ m.err = runs[m.from].err
SentInv ==
    \A i \in DOMAIN runs :
        runs[i].at = "done" => Collected(i) \/ \E m \in ToSet(stream) : m.from = i
ErrorsInv == \A i \in errors : i \in DOMAIN runs /\ runs[i].at = "done" /\ runs[i].err
ReportInv ==
    /\ \A f \in ToSet(report) : \E i \in DOMAIN runs : runs[i].at = "done" /\ f \in ToSet(runs[i].found)
    /\ Distinct(report)

Inv == ShapeInv /\ PhaseInv /\ RunsInv /\ StreamInv /\ SentInv /\ ErrorsInv /\ ReportInv

LEMMA NotGrounded == ASSUME ~Grounds PROVE ~Truncates
<1>1. Grounded = <<>>
  BY DEF Grounded
<1> QED
  BY <1>1, CapEmpty DEF Truncates

\* What depends on the request alone stays.
LEMMA Same ==
  ASSUME UNCHANGED request
  PROVE  /\ Requested' = Requested /\ Providers' = Providers /\ Refused' = Refused
         /\ Grounds' = Grounds /\ Truncates' = Truncates
<1>1. Requested' = Requested
  BY DEF Requested
<1>2. /\ Iac' = Iac /\ Input' = Input
      /\ SelectProviders' = SelectProviders
  <2>1. Iac' = Iac /\ Input' = Input
    BY DEF Iac, Input
  <2>2. SelectProviders' = SelectProviders
    BY DEF SelectProviders, Select
  <2> QED
    BY <2>1, <2>2
<1>3. SourceProviders' = SourceProviders
  BY <1>2 DEF SourceProviders, Select
<1>4. Providers' = Providers
  BY <1>2, <1>3 DEF Providers
<1>5. Refused' = Refused
  BY <1>2, <1>4 DEF Refused
<1>6. Grounds' = Grounds
  BY <1>2 DEF Grounds
<1>7. Grounded' = Grounded
  BY <1>6 DEF Grounded
<1>8. Truncates' = Truncates
  BY <1>7 DEF Truncates
<1> QED
  BY <1>1, <1>4, <1>5, <1>6, <1>8

LEMMA SameRun ==
  ASSUME UNCHANGED request, NEW p, NEW run, RunInv(p, run)
  PROVE  RunInv(p, run)'
<1>1. Grounds' = Grounds /\ Truncates' = Truncates
  BY Same
<1> QED
  BY <1>1 DEF RunInv, IsRun, Tidy, Place, Told, Tells, Conceded

LEMMA Initial == ASSUME Init PROVE Inv
<1>1. Sequence(<<>>) /\ ToSet(<<>>) = {} /\ DOMAIN <<>> = {} /\ <<>> = [i \in DOMAIN <<>> |-> <<>>[i]]
  BY SequenceSmall
<1>2. ShapeInv /\ PhaseInv /\ RunsInv
  BY <1>1 DEF Init, ShapeInv, PhaseInv, RunsInv, Requested
<1>3. StreamInv /\ SentInv /\ ErrorsInv /\ ReportInv
  BY <1>1 DEF Init, StreamInv, SentInv, ErrorsInv, ReportInv, Distinct
<1> QED
  BY <1>2, <1>3 DEF Inv

-----------------------------------------------------------------------------
(* The goroutine of a provider. *)

\* A step of one goroutine, which has not sent its result, concerns its own run alone.
LEMMA Becoming ==
  ASSUME Inv, NEW i \in DOMAIN runs, runs[i].at # "done",
         NEW run, run.at # "done", RunInv(providers[i], run), Becomes(i, run)
  PROVE  Inv'
<1>1. /\ phase = "scan" /\ runs' = [runs EXCEPT ![i] = run]
      /\ UNCHANGED <<request, phase, ended, providers, stream, closed, report, errors, result>>
  BY DEF Becomes, channel, collected
<1>2. /\ DOMAIN runs' = DOMAIN runs /\ runs'[i] = run
      /\ \A j \in DOMAIN runs : j # i => runs'[j] = runs[j]
      /\ runs' = [j \in DOMAIN runs' |-> runs'[j]]
  BY <1>1 DEF Inv, ShapeInv
<1>3. \A j \in DOMAIN runs : runs[j].at = "done" \/ runs'[j].at = "done" => runs'[j] = runs[j]
  BY <1>2
<1>4. ShapeInv'
  BY <1>1, <1>2 DEF Inv, ShapeInv, Requested
<1>5. PhaseInv'
  <2>1. Providers' = Providers /\ Refused' = Refused
    BY <1>1, Same
  <2>2. ~closed
    BY DEF Inv, PhaseInv
  <2> QED
    BY <1>1, <1>2, <2>1, <2>2 DEF Inv, PhaseInv
<1>6. RunsInv'
  <2> SUFFICES ASSUME NEW j \in DOMAIN runs PROVE RunInv(providers[j], runs[j])'
    BY <1>2 DEF RunsInv
  <2>1. RunInv(providers[j], runs'[j])
    BY <1>2 DEF Inv, RunsInv
  <2>2. PICK p, r : p = providers[j] /\ r = runs'[j]
    OBVIOUS
  <2>3. RunInv(p, r)'
    BY <1>1, <2>1, <2>2, SameRun
  <2> QED
    BY <1>1, <2>2, <2>3
<1>7. StreamInv'
  BY <1>1, <1>2, <1>3 DEF Inv, StreamInv
<1>8. SentInv'
  BY <1>1, <1>2, <1>3 DEF Inv, SentInv, Collected
<1>9. ErrorsInv'
  BY <1>1, <1>2, <1>3 DEF Inv, ErrorsInv
<1>10. ReportInv'
  BY <1>1, <1>2, <1>3 DEF Inv, ReportInv
<1> QED
  BY <1>4, <1>5, <1>6, <1>7, <1>8, <1>9, <1>10 DEF Inv

Working == Places \ ({"held"} \cup Answered)

\* At one of these places a goroutine has found nothing yet.
LEMMA Moving ==
  ASSUME Inv, NEW i \in DOMAIN runs, runs[i].at \in Working, NEW run,
         run = [runs[i] EXCEPT !.at = run.at, !.late = run.late, !.hung = run.hung,
                               !.temp = run.temp, !.happened = run.happened],
         run.at \in Places \ Answered, run.temp \in BOOLEAN, run.temp => run.at \in {"tool", "held"},
         run.happened # "panic", Place(providers[i], run), Becomes(i, run)
  PROVE  Inv'
<1>1. RunInv(providers[i], runs[i])
  BY DEF Inv, RunsInv
<1>2. IsRun(run)
  BY <1>1 DEF RunInv, IsRun
<1>3. Tidy(run)
  BY DEF Tidy
<1>4. run.at # "done" /\ runs[i].at # "done" /\ Told(providers[i], run)
  BY DEF Answered, Told, Working
<1>5. RunInv(providers[i], run)
  BY <1>2, <1>3, <1>4 DEF RunInv
<1> QED
  BY <1>4, <1>5, Becoming

LEMMA Answering ==
  ASSUME Inv, NEW i \in DOMAIN runs, runs[i].at \notin Answered,
         NEW happened, NEW found, NEW err, Sequence(found), err \in BOOLEAN,
         happened = "panic" => err, Tells(providers[i], happened, found, err),
         Answer(i, happened, found, err)
  PROVE  Inv'
<1>1. PICK run : run = [runs[i] EXCEPT !.at = "send", !.temp = FALSE, !.happened = happened,
                                       !.found = found, !.err = err]
  OBVIOUS
<1>2. /\ run.at = "send" /\ run.temp = FALSE /\ run.happened = happened
      /\ run.found = found /\ run.err = err
      /\ run = [at |-> "send", late |-> runs[i].late, hung |-> runs[i].hung, temp |-> FALSE,
                found |-> found, err |-> err, happened |-> happened]
  <2>1. PICK r : r = runs[i]
    OBVIOUS
  <2>2. r = [at |-> r.at, late |-> r.late, hung |-> r.hung, temp |-> r.temp,
             found |-> r.found, err |-> r.err, happened |-> r.happened]
    BY <2>1 DEF Inv, RunsInv, RunInv, IsRun
  <2>3. run = [r EXCEPT !.at = "send", !.temp = FALSE, !.happened = happened,
                        !.found = found, !.err = err]
    BY <1>1, <2>1
  <2>4. DOMAIN run = {"at", "late", "hung", "temp", "found", "err", "happened"}
    BY <2>2, <2>3
  <2>5. run = [z \in {"at", "late", "hung", "temp", "found", "err", "happened"} |-> run[z]]
    BY <2>2, <2>3
  <2>6. /\ run.at = "send" /\ run.late = r.late /\ run.hung = r.hung /\ run.temp = FALSE
        /\ run.found = found /\ run.err = err /\ run.happened = happened
    BY <2>2, <2>3
  <2> QED
    BY <2>1, <2>4, <2>5, <2>6
<1>3. Becomes(i, run)
  BY <1>1 DEF Answer
<1>4. IsRun(run)
  <2>1. /\ run.late = runs[i].late /\ run.hung = runs[i].hung
    BY <1>2
  <2> QED
    BY <1>2, <2>1 DEF IsRun, Places, Answered
<1>5. Tidy(run) /\ Place(providers[i], run) /\ Told(providers[i], run)
  BY <1>2 DEF Tidy, Place, Told, Places, Answered
<1>6. RunInv(providers[i], run) /\ run.at # "done" /\ runs[i].at # "done"
  BY <1>2, <1>4, <1>5 DEF RunInv, Answered
<1> QED
  BY <1>3, <1>6, Becoming

LEMMA Failing ==
  ASSUME Inv, NEW i \in DOMAIN runs, runs[i].at \notin Answered, NEW happened,
         happened # "nothing", Fails(i, happened)
  PROVE  Inv'
<1>1. Sequence(<<>>) /\ Warns(<<>>)
  BY SequenceSmall DEF Warns
<1>2. Tells(providers[i], happened, <<>>, TRUE)
  BY <1>1 DEF Tells
<1>3. Answer(i, happened, <<>>, TRUE)
  BY DEF Fails
<1> QED
  BY <1>1, <1>2, <1>3, Answering

LEMMA Disappointing ==
  ASSUME Inv, NEW i \in DOMAIN runs, runs[i].at \notin Answered, NEW happened,
         happened \notin {"nothing", "panic"}, providers[i] = "llm", Disappoints(i, happened)
  PROVE  Inv'
<1>1. PICK f : f = About("LLM-ERROR", Warning)
  OBVIOUS
<1>2. f.rule \in Loud /\ f.sev = Warning
  BY <1>1 DEF About, Finding, Loud
<1>3. Sequence(<<f>>) /\ ToSet(<<f>>) = {f}
  BY SequenceSmall
<1>4. Warns(<<f>>) /\ Says(<<f>>, Loud)
  BY <1>2, <1>3 DEF Warns, Says
<1>5. Tells(providers[i], happened, <<f>>, FALSE)
  BY <1>4 DEF Tells
<1>6. Answer(i, happened, <<f>>, FALSE)
  BY <1>1 DEF Disappoints
<1> QED
  BY <1>3, <1>5, <1>6, Answering

LEMMA StepPanic == ASSUME Inv, NEW i \in DOMAIN runs, Panic(i) PROVE Inv'
  BY Failing DEF Panic, Answered

LEMMA StepJudge == ASSUME Inv, NEW i \in DOMAIN runs, Judge(i) PROVE Inv'
<1>1. PICK found : /\ found = (CASE providers[i] = "orphan" -> Orphans(Input)
                                 [] request.mode = "source" -> StaticSource(request.tree, request.pool)
                                 [] OTHER                   -> EvaluateAll(Input))
                   /\ Answer(i, "nothing", found, FALSE) /\ runs[i].at = "judge"
  BY DEF Judge
<1>2. Requested
  BY DEF Inv, ShapeInv
<1>3. Sequence(Orphans(Input)) /\ Sequence(EvaluateAll(Input))
  BY <1>2, InputIs, OrphansIs, EvaluateAllIs
<1>4. Sequence(StaticSource(request.tree, request.pool))
  BY <1>2, RequestIs, StaticSourceIs DEF IsTree
<1>5. Sequence(found)
  BY <1>1, <1>3, <1>4
<1>6. providers[i] # "llm"
  BY <1>1 DEF Inv, RunsInv, RunInv, Place
<1>7. Tells(providers[i], "nothing", found, FALSE)
  BY <1>6 DEF Tells
<1> QED
  BY <1>1, <1>5, <1>7, Answering DEF Answered

LEMMA StepVersion == ASSUME Inv, NEW i \in DOMAIN runs, CheckVersion(i) PROVE Inv'
<1>1. runs[i].at = "version" /\ RunInv(providers[i], runs[i])
  BY DEF CheckVersion, Inv, RunsInv
<1>2. CASE Fails(i, "missing") \/ Fails(i, "version")
  BY <1>1, <1>2, Failing DEF Answered
<1>3. CASE \E place \in {"tool", "prepare"} : Goes(i, place)
  <2>1. PICK place \in {"tool", "prepare"} : Goes(i, place)
    BY <1>3
  <2>2. PICK run : run = [runs[i] EXCEPT !.at = place] /\ Becomes(i, run)
    BY <2>1 DEF Goes
  <2>3. /\ run.at = place /\ run.late = runs[i].late /\ run.hung = runs[i].hung
        /\ run.temp = runs[i].temp /\ run.happened = runs[i].happened
    BY <1>1, <2>2 DEF RunInv, IsRun
  <2>4. run.temp = FALSE /\ run.happened = "nothing" /\ providers[i] \in Tools
    BY <1>1, <2>3 DEF RunInv, IsRun, Tidy, Place, Places, Answered
  <2>5. Place(providers[i], run)
    BY <2>3, <2>4 DEF Place
  <2>6. run = [runs[i] EXCEPT !.at = run.at, !.late = run.late, !.hung = run.hung,
                              !.temp = run.temp, !.happened = run.happened]
    BY <1>1, <2>2, <2>3 DEF RunInv, IsRun
  <2>7. run.at \in Places \ Answered /\ runs[i].at \in Working
    BY <1>1, <2>3 DEF Places, Answered, Working
  <2> HIDE <2>2
  <2> QED
    BY <2>2, <2>4, <2>5, <2>6, <2>7, Moving
<1>4. CASE \E version \in Versions :
              IF VersionFits(providers[i], version)
              THEN Goes(i, IF request.mode = "source" THEN "tool" ELSE "prepare")
              ELSE Fails(i, "version")
  <2>1. PICK version \in Versions :
              IF VersionFits(providers[i], version)
              THEN Goes(i, IF request.mode = "source" THEN "tool" ELSE "prepare")
              ELSE Fails(i, "version")
    BY <1>4
  <2>2. Fails(i, "version") \/ Goes(i, "tool") \/ Goes(i, "prepare")
    BY <2>1
  <2> QED
    BY <1>2, <1>3, <2>2
<1> QED
  BY <1>2, <1>4 DEF CheckVersion

LEMMA StepPrepare == ASSUME Inv, NEW i \in DOMAIN runs, Prepare(i) PROVE Inv'
<1>1. runs[i].at = "prepare" /\ RunInv(providers[i], runs[i])
  BY DEF Prepare, Inv, RunsInv
<1>2. CASE Fails(i, "write")
  BY <1>1, <1>2, Failing DEF Answered
<1>3. CASE Becomes(i, [runs[i] EXCEPT !.at = "tool", !.temp = TRUE])
  <2>2. PICK run : run = [runs[i] EXCEPT !.at = "tool", !.temp = TRUE] /\ Becomes(i, run)
    BY <1>3
  <2>3. /\ run.at = "tool" /\ run.late = runs[i].late /\ run.hung = runs[i].hung
        /\ run.temp = TRUE /\ run.happened = runs[i].happened
    BY <1>1, <2>2 DEF RunInv, IsRun
  <2>4. run.happened = "nothing" /\ providers[i] \in Tools
    BY <1>1, <2>3 DEF RunInv, Place, Places, Answered
  <2>5. Place(providers[i], run)
    BY <2>3, <2>4 DEF Place
  <2>6. run = [runs[i] EXCEPT !.at = run.at, !.late = run.late, !.hung = run.hung,
                              !.temp = run.temp, !.happened = run.happened]
    BY <1>1, <2>2, <2>3 DEF RunInv, IsRun
  <2>7. run.at \in Places \ Answered /\ runs[i].at \in Working
    BY <1>1, <2>3 DEF Places, Answered, Working
  <2> QED
    BY <2>2, <2>3, <2>4, <2>5, <2>6, <2>7, Moving
<1> QED
  BY <1>2, <1>3 DEF Prepare

\* The end of a tool, which exits or is killed.
LEMMA Reading ==
  ASSUME Inv, NEW i \in DOMAIN runs, runs[i].at = "tool", NEW output \in Outputs(i),
         NEW exit, exit \in {"ok", "exit", "killed"}, exit = "killed" => Done(i),
         Read(i, exit, output)
  PROVE  Inv'
<1>1. PICK read : read = Adapter(providers[i], exit, Done(i), output)
  OBVIOUS
<1>2. PICK happened : happened = IF exit # "ok" THEN exit
                                 ELSE IF output.kind # "results" THEN "output" ELSE "nothing"
  OBVIOUS
<1>3. providers[i] \in Tools /\ Requested
  BY DEF Inv, ShapeInv, RunsInv, RunInv, Place
<1>4. /\ Sequence(read.found) /\ read.err \in BOOLEAN
      /\ ~read.err => output.kind = "results" /\ (exit = "ok" \/ (providers[i] = "prowler" /\ ~Done(i)))
  BY <1>1, <1>3, AdapterIs
<1>5. happened = "nothing" \/ Conceded(providers[i], happened) \/ read.err
  BY <1>2, <1>4 DEF Conceded
<1>6. providers[i] # "llm" /\ happened # "panic"
  BY <1>2, <1>3 DEF Tools
<1>7. Tells(providers[i], happened, read.found, read.err)
  BY <1>5, <1>6 DEF Tells
<1>8. Answer(i, happened, read.found, read.err)
  BY <1>1, <1>2, Zenon DEF Read
<1> QED
  BY <1>4, <1>6, <1>7, <1>8, Answering DEF Answered

LEMMA StepTool == ASSUME Inv, NEW i \in DOMAIN runs, RunTool(i) PROVE Inv'
<1>1. PICK exit \in {"ok", "exit"}, output \in Outputs(i) : Read(i, exit, output)
  BY DEF RunTool
<1> QED
  BY <1>1, Reading DEF RunTool

\* From one place to the next with nothing found and nothing gone wrong but lookups.
LEMMA Going ==
  ASSUME Inv, NEW i \in DOMAIN runs, runs[i].at \in {"version", "tool", "gather", "fetch", "stream"},
         NEW place, place \in Places \ Answered, place = "held" \/ ~runs[i].temp,
         Place(providers[i], [runs[i] EXCEPT !.at = place]), Goes(i, place)
  PROVE  Inv'
<1>1. RunInv(providers[i], runs[i])
  BY DEF Inv, RunsInv
<1>2. PICK run : run = [runs[i] EXCEPT !.at = place]
  OBVIOUS
<1>3. /\ run.at = place /\ run.late = runs[i].late /\ run.hung = runs[i].hung
      /\ run.temp = runs[i].temp /\ run.happened = runs[i].happened
  BY <1>1, <1>2 DEF RunInv, IsRun
<1>4. run = [runs[i] EXCEPT !.at = run.at, !.late = run.late, !.hung = run.hung,
                            !.temp = run.temp, !.happened = run.happened]
  BY <1>1, <1>2, <1>3 DEF RunInv, IsRun
<1>5. run.temp \in BOOLEAN /\ (run.temp => run.at \in {"tool", "held"})
  BY <1>1, <1>3 DEF RunInv, IsRun
<1>6. run.happened # "panic"
  BY <1>1, <1>3 DEF RunInv, Place, Places, Answered
<1>7. runs[i].at \in Working
  BY DEF Working, Places, Answered
<1>8. Becomes(i, run) /\ Place(providers[i], run)
  BY <1>2 DEF Goes
<1> QED
  BY <1>3, <1>4, <1>5, <1>6, <1>7, <1>8, Moving

LEMMA StepGather == ASSUME Inv, NEW i \in DOMAIN runs, Gather(i) PROVE Inv'
<1>1. /\ runs[i].at = "gather" /\ RunInv(providers[i], runs[i]) /\ Requested
      /\ providers[i] = "llm" /\ runs[i].happened = "nothing" /\ runs[i].temp = FALSE
  BY DEF Gather, Inv, ShapeInv, RunsInv, RunInv, Place, Tidy, IsRun, Places, Answered
<1>2. CASE CollectSourceFiles(request.tree, Iac) = <<>>
  <2>1. Answer(i, "nothing", <<>>, FALSE) /\ ~Truncates
    BY <1>1, <1>2, NothingGrounded DEF Gather
  <2>2. Sequence(<<>>) /\ Warns(<<>>)
    BY SequenceSmall DEF Warns
  <2>3. Tells(providers[i], "nothing", <<>>, FALSE)
    BY <2>1, <2>2 DEF Tells
  <2> QED
    BY <1>1, <2>1, <2>2, <2>3, Answering DEF Answered
<1>3. CASE CollectSourceFiles(request.tree, Iac) # <<>>
  <2>1. PICK place : /\ place = (IF Grounds THEN "fetch" ELSE "stream") /\ Goes(i, place)
    BY <1>3 DEF Gather
  <2>2. PICK run : run = [runs[i] EXCEPT !.at = place]
    OBVIOUS
  <2>3. run.at = place /\ run.happened = "nothing"
    BY <1>1, <2>2 DEF RunInv, IsRun
  <2>4. Place(providers[i], run)
    BY <1>1, <2>1, <2>3 DEF Place
  <2>5. place \in Places \ Answered
    BY <2>1 DEF Places, Answered
  <2> QED
    BY <1>1, <2>1, <2>2, <2>4, <2>5, Going
<1> QED
  BY <1>2, <1>3

LEMMA StepFetch == ASSUME Inv, NEW i \in DOMAIN runs, FetchBundle(i) PROVE Inv'
<1>1. /\ runs[i].at = "fetch" /\ RunInv(providers[i], runs[i]) /\ Grounds
      /\ providers[i] = "llm" /\ runs[i].happened = "nothing" /\ runs[i].temp = FALSE
  BY DEF FetchBundle, Inv, RunsInv, RunInv, Place, Tidy, IsRun, Places, Answered
<1>2. CASE Goes(i, "stream")
  <2>2. PICK run : run = [runs[i] EXCEPT !.at = "stream"]
    OBVIOUS
  <2>3. run.at = "stream" /\ run.happened = "nothing"
    BY <1>1, <2>2 DEF RunInv, IsRun
  <2>4. Place(providers[i], run)
    BY <1>1, <2>3 DEF Place
  <2>5. "stream" \in Places \ Answered
    BY DEF Places, Answered
  <2> QED
    BY <1>1, <1>2, <2>2, <2>4, <2>5, Going
<1>3. CASE Becomes(i, [runs[i] EXCEPT !.at = "stream", !.happened = "misses"])
  <2>1. PICK run : run = [runs[i] EXCEPT !.at = "stream", !.happened = "misses"] /\ Becomes(i, run)
    BY <1>3
  <2>2. /\ run.at = "stream" /\ run.late = runs[i].late /\ run.hung = runs[i].hung
        /\ run.temp = FALSE /\ run.happened = "misses"
    BY <1>1, <2>1 DEF RunInv, IsRun
  <2>3. run = [runs[i] EXCEPT !.at = run.at, !.late = run.late, !.hung = run.hung,
                              !.temp = run.temp, !.happened = run.happened]
    BY <1>1, <2>1, <2>2 DEF RunInv, IsRun
  <2>4. Place(providers[i], run)
    BY <1>1, <2>2 DEF Place
  <2>5. run.at \in Places \ Answered /\ runs[i].at \in Working
    BY <1>1, <2>2 DEF Places, Answered, Working
  <2> HIDE <2>1
  <2> QED
    BY <2>1, <2>2, <2>3, <2>4, <2>5, Moving
<1>4. CASE Disappoints(i, "knowledge")
  BY <1>1, <1>4, Disappointing DEF Answered
<1> QED
  BY <1>2, <1>3, <1>4 DEF FetchBundle

\* The answer of an LLM: misses were noted before it, silence is the network's.
LEMMA Hearing ==
  ASSUME Inv, NEW i \in DOMAIN runs, runs[i].at = "stream",
         NEW answer, Sequence(answer), NEW happened, Hear(i, answer, happened),
         \/ happened = runs[i].happened
         \/ happened = "silence" /\ request.llm = "http"
         \/ happened = "output" /\ answer = Prose
  PROVE  Inv'
<1>1. /\ providers[i] = "llm"
      /\ runs[i].happened = "nothing" \/ (runs[i].happened = "misses" /\ Grounds)
  BY DEF Inv, RunsInv, RunInv, Place
<1>2. CASE answer = Prose
  <2>1. Disappoints(i, "output")
    BY <1>2 DEF Hear
  <2> QED
    BY <1>1, <2>1, Disappointing DEF Answered
<1>3. CASE answer # Prose
  <2>1. PICK findings : findings = ParseLLMFindings(answer)
    OBVIOUS
  <2>2. Sequence(findings) /\ Warns(findings)
    BY <2>1, FindingsAre
  <2>3. PICK found : /\ found = (IF request.llm = "grounded" THEN PostProcess(i, findings) ELSE findings)
                     /\ Answer(i, happened, found, FALSE)
    BY <1>3, <2>1 DEF Hear
  <2>4. Truncates \/ Grounds => request.llm = "grounded"
    <3>1. Grounds => request.llm = "grounded"
      BY DEF Grounds
    <3> QED
      BY <3>1, NotGrounded
  <2>5. Sequence(found) /\ Warns(found)
    BY <2>2, <2>3, PostProcessIs
  <2>6. Truncates => Says(found, {"LLM-CB-TRUNCATED"})
    BY <2>2, <2>3, <2>4, PostProcessIs
  <2>7. happened = "nothing" \/ Conceded("llm", happened) \/ Says(found, Loud)
    <3>1. runs[i].happened = "misses" => Says(found, Loud)
      BY <1>1, <2>2, <2>3, <2>4, PostProcessIs
    <3> QED
      BY <1>1, <1>3, <3>1 DEF Conceded
  <2>8. Tells(providers[i], happened, found, FALSE)
    BY <1>1, <2>5, <2>6, <2>7 DEF Tells
  <2>9. happened # "panic"
    BY <1>1
  <2> QED
    BY <2>3, <2>5, <2>8, <2>9, Answering DEF Answered
<1> QED
  BY <1>2, <1>3

LEMMA StepStream == ASSUME Inv, NEW i \in DOMAIN runs, Stream(i) PROVE Inv'
<1>1. runs[i].at = "stream" /\ providers[i] = "llm"
  BY DEF Stream, Inv, RunsInv, RunInv, Place
<1>2. CASE Hears(i)
  <2>1. PICK answer \in Answers : Hear(i, answer, runs[i].happened)
    BY <1>2 DEF Hears
  <2>2. Sequence(answer)
    BY ScanAssumption
  <2> QED
    BY <1>1, <2>1, <2>2, Hearing
<1>3. CASE Disappoints(i, "exit")
  BY <1>1, <1>3, Disappointing DEF Answered
<1>4. CASE Hear(i, Prose, "output")
  <2>1. Sequence(Prose)
    BY SequenceSmall DEF Prose
  <2> QED
    BY <1>1, <1>4, <2>1, Hearing
<1>5. CASE request.llm = "http" /\ Hear(i, <<>>, "silence")
  <2>1. Sequence(<<>>)
    BY SequenceSmall
  <2> QED
    BY <1>1, <1>5, <2>1, Hearing
<1> QED
  BY <1>2, <1>3, <1>4, <1>5 DEF Stream, StreamCLI, StreamGrounded, StreamHTTP

LEMMA StepKilled == ASSUME Inv, NEW i \in DOMAIN runs, Killed(i) PROVE Inv'
<1>1. runs[i].at \in {"version", "tool", "stream"} /\ Done(i) /\ RunInv(providers[i], runs[i])
  BY DEF Killed, Waiting, Inv, RunsInv
<1>2. CASE Goes(i, "held")
  <2>1. PICK run : run = [runs[i] EXCEPT !.at = "held"]
    OBVIOUS
  <2>2. run.at = "held"
    BY <1>1, <2>1 DEF RunInv, IsRun
  <2>3. Place(providers[i], run)
    BY <2>2 DEF Place
  <2>4. "held" \in Places \ Answered
    BY DEF Places, Answered
  <2> QED
    BY <1>1, <1>2, <2>1, <2>3, <2>4, Going
<1>3. CASE Fails(i, "killed")
  BY <1>1, <1>3, Failing DEF Answered
<1>4. CASE runs[i].at = "tool" /\ \E output \in Outputs(i) : Read(i, "killed", output)
  BY <1>1, <1>4, Reading
<1>5. CASE runs[i].at = "stream" /\ Disappoints(i, "killed")
  <2>1. providers[i] = "llm"
    BY <1>1, <1>5 DEF RunInv, Place
  <2> QED
    BY <1>5, <2>1, Disappointing DEF Answered
<1> QED
  BY <1>2, <1>3, <1>4, <1>5 DEF Killed

LEMMA StepLate ==
  ASSUME Inv, NEW i \in DOMAIN runs, Hang(i) \/ ProviderTimeout(i) PROVE Inv'
<1>1. RunInv(providers[i], runs[i])
  BY DEF Inv, RunsInv
<1>2. runs[i].at \in Working
  BY <1>1 DEF Hang, ProviderTimeout, Waiting, Working, Answered, Places, RunInv, IsRun
<1>3. PICK run : /\ run \in {[runs[i] EXCEPT !.hung = TRUE], [runs[i] EXCEPT !.late = TRUE]}
                 /\ Becomes(i, run)
  BY DEF Hang, ProviderTimeout
<1>4. run.at = runs[i].at /\ run.temp = runs[i].temp /\ run.happened = runs[i].happened
  BY <1>1, <1>3 DEF RunInv, IsRun
<1>5. run = [runs[i] EXCEPT !.at = run.at, !.late = run.late, !.hung = run.hung,
                            !.temp = run.temp, !.happened = run.happened]
  <2>1. CASE run = [runs[i] EXCEPT !.hung = TRUE]
    BY <1>1, <1>4, <2>1 DEF RunInv, IsRun
  <2>2. CASE run = [runs[i] EXCEPT !.late = TRUE]
    BY <1>1, <1>4, <2>2 DEF RunInv, IsRun
  <2> QED
    BY <1>3, <2>1, <2>2
<1>6. run.temp \in BOOLEAN /\ (run.temp => run.at \in {"tool", "held"})
  BY <1>1, <1>4 DEF RunInv, IsRun, Tidy
<1>7. run.happened # "panic" /\ Place(providers[i], run)
  BY <1>1, <1>2, <1>4 DEF RunInv, Place, Working, Answered
<1>8. run.at \in Places \ Answered
  BY <1>2, <1>4 DEF Working
<1> HIDE <1>3
<1> QED
  BY <1>2, <1>3, <1>5, <1>6, <1>7, <1>8, Moving

\* The result goes to the stream as it is.
LEMMA StepSend == ASSUME Inv, NEW i \in DOMAIN runs, Send(i) PROVE Inv'
<1> DEFINE m == [from |-> i, found |-> runs[i].found, err |-> runs[i].err]
<1>1. /\ phase = "scan" /\ runs[i].at = "send" /\ stream' = Append(stream, m)
      /\ UNCHANGED <<request, phase, ended, providers, closed, report, errors, result>>
      /\ RunInv(providers[i], runs[i])
  BY DEF Send, collected, Inv, RunsInv
<1>2. /\ DOMAIN runs' = DOMAIN runs /\ runs' = [j \in DOMAIN runs' |-> runs'[j]]
      /\ \A j \in DOMAIN runs : j # i => runs'[j] = runs[j]
      /\ runs'[i] = [runs[i] EXCEPT !.at = "done"]
  BY DEF Send, Inv, ShapeInv
<1>3. PICK run : run = runs'[i]
  OBVIOUS
<1>4. /\ run.at = "done" /\ run.late = runs[i].late /\ run.hung = runs[i].hung
      /\ run.temp = runs[i].temp /\ run.found = runs[i].found /\ run.err = runs[i].err
      /\ run.happened = runs[i].happened /\ IsRun(run)
  <2>1. /\ run.at = "done" /\ run.late = runs[i].late /\ run.hung = runs[i].hung
        /\ run.temp = runs[i].temp /\ run.found = runs[i].found /\ run.err = runs[i].err
        /\ run.happened = runs[i].happened
    BY <1>1, <1>2, <1>3 DEF RunInv, IsRun
  <2>2. run = [at |-> run.at, late |-> run.late, hung |-> run.hung, temp |-> run.temp,
               found |-> run.found, err |-> run.err, happened |-> run.happened]
    BY <1>1, <1>2, <1>3 DEF RunInv, IsRun
  <2> QED
    BY <1>1, <2>1, <2>2 DEF RunInv, IsRun, Places, Answered
<1>5. RunInv(providers[i], run)
  BY <1>1, <1>4 DEF RunInv, Tidy, Place, Told, Places, Answered
<1>6. \A j \in DOMAIN runs : runs'[j].found = runs[j].found /\ runs'[j].err = runs[j].err
                             /\ (runs[j].at = "done" => runs'[j].at = "done")
  BY <1>2, <1>3, <1>4
<1>7. Sequence(stream') /\ ToSet(stream') = ToSet(stream) \cup {m}
  <2> HIDE DEF m
  <2> QED
    BY <1>1, SequenceAppend DEF Inv, ShapeInv
<1>8. ShapeInv'
  BY <1>1, <1>2, <1>7 DEF Inv, ShapeInv, Requested
<1>9. PhaseInv'
  <2>1. Providers' = Providers /\ Refused' = Refused
    BY <1>1, Same
  <2>2. ~closed
    BY <1>1 DEF Inv, PhaseInv
  <2> QED
    BY <1>1, <1>2, <2>1, <2>2 DEF Inv, PhaseInv
<1>10. RunsInv'
  <2> SUFFICES ASSUME NEW j \in DOMAIN runs PROVE RunInv(providers[j], runs[j])'
    BY <1>2 DEF RunsInv
  <2>1. RunInv(providers[j], runs'[j])
    BY <1>2, <1>3, <1>5 DEF Inv, RunsInv
  <2>2. PICK p, r : p = providers[j] /\ r = runs'[j]
    OBVIOUS
  <2>3. RunInv(p, r)'
    BY <1>1, <2>1, <2>2, SameRun
  <2> QED
    BY <1>1, <2>2, <2>3
<1>11. StreamInv'
  <2>1. m.from = i /\ m.found = runs[i].found /\ m.err = runs[i].err
    OBVIOUS
  <2> HIDE DEF m
  <2> SUFFICES ASSUME NEW k \in ToSet(stream')
               PROVE  /\ k.from \in DOMAIN runs' /\ runs'[k.from].at = "done"
                      /\ k.found = runs'[k.from].found /\ k.err = runs'[k.from].err
    BY DEF StreamInv
  <2>2. CASE k \in ToSet(stream)
    BY <1>2, <1>6, <2>2 DEF Inv, StreamInv
  <2>3. CASE k = m
    BY <1>2, <1>3, <1>4, <2>1, <2>3
  <2> QED
    BY <1>7, <2>2, <2>3
<1>12. SentInv'
  BY <1>1, <1>2, <1>6, <1>7 DEF Inv, SentInv, Collected
<1>13. ErrorsInv'
  BY <1>1, <1>2, <1>6 DEF Inv, ErrorsInv
<1>14. ReportInv'
  BY <1>1, <1>2, <1>6 DEF Inv, ReportInv
<1> QED
  BY <1>8, <1>9, <1>10, <1>11, <1>12, <1>13, <1>14 DEF Inv

-----------------------------------------------------------------------------
(* The caller. *)

LEMMA StepDrain == ASSUME Inv, Drain PROVE Inv'
<1>1. PICK next, t : next = Head(stream) /\ t = Kept(report, next.found)[Len(next.found)]
  OBVIOUS
<1>2. /\ phase = "scan" /\ stream # <<>> /\ report' = t /\ stream' = Tail(stream)
      /\ errors' = IF next.err THEN errors \cup {next.from} ELSE errors
      /\ UNCHANGED <<request, phase, ended, providers, runs, closed, result>>
  BY <1>1 DEF Drain, Drained
<1>3. /\ Sequence(stream') /\ next \in ToSet(stream)
      /\ ToSet(stream) = {next} \cup ToSet(stream')
  BY <1>1, <1>2, SequenceTail DEF Inv, ShapeInv
<1>4. /\ next.from \in DOMAIN runs /\ runs[next.from].at = "done"
      /\ next.found = runs[next.from].found /\ next.err = runs[next.from].err
  BY <1>3 DEF Inv, StreamInv
<1>5. Sequence(next.found) /\ Sequence(report)
  BY <1>4 DEF Inv, ShapeInv, RunsInv, RunInv, IsRun
<1>6. Merged(report, next.found, t)
  BY <1>1, <1>5, KeptIs
<1>7. ShapeInv'
  BY <1>2, <1>3, <1>6 DEF Inv, ShapeInv, Requested, Merged
<1>8. PhaseInv'
  <2>1. Providers' = Providers /\ Refused' = Refused
    BY <1>2, Same
  <2> QED
    BY <1>2, <2>1 DEF Inv, PhaseInv
<1>9. RunsInv'
  <2> SUFFICES ASSUME NEW j \in DOMAIN runs PROVE RunInv(providers[j], runs[j])'
    BY <1>2 DEF RunsInv
  <2>1. PICK p, r : p = providers[j] /\ r = runs[j]
    OBVIOUS
  <2>2. RunInv(p, r)
    BY <2>1 DEF Inv, RunsInv
  <2>3. RunInv(p, r)'
    BY <1>2, <2>2, SameRun
  <2> QED
    BY <1>2, <2>1, <2>3
<1>10. StreamInv'
  BY <1>2, <1>3 DEF Inv, StreamInv
<1>11. SentInv'
  <2>1. Keys(report) \subseteq Keys(t) /\ Keys(next.found) \subseteq Keys(t) /\ errors \subseteq errors'
    BY <1>2, <1>6 DEF Merged
  <2>2. ASSUME NEW j \in DOMAIN runs, runs[j].at = "done"
        PROVE  Collected(j)' \/ \E m \in ToSet(stream') : m.from = j
    <3>1. CASE j = next.from
      BY <1>2, <1>4, <2>1, <3>1 DEF Collected
    <3>2. CASE j # next.from
      <4>1. Collected(j) \/ \E m \in ToSet(stream') : m.from = j
        BY <1>3, <2>2, <3>2 DEF Inv, SentInv
      <4> QED
        BY <1>2, <2>1, <4>1 DEF Collected
    <3> QED
      BY <3>1, <3>2
  <2> QED
    BY <1>2, <2>2 DEF SentInv
<1>12. ErrorsInv'
  BY <1>2, <1>4 DEF Inv, ErrorsInv
<1>13. ReportInv'
  BY <1>2, <1>4, <1>6 DEF Inv, ReportInv, Merged
<1> QED
  BY <1>7, <1>8, <1>9, <1>10, <1>11, <1>12, <1>13 DEF Inv

LEMMA StepCollect == ASSUME Inv, Collect PROVE Inv'
<1>1. /\ phase = "collect" /\ DOMAIN runs = {} /\ stream = <<>> /\ ~closed /\ report = <<>> /\ errors = {}
      /\ result = "none"
      /\ UNCHANGED <<request, ended, stream, closed, report, errors>> /\ Requested
  BY DEF Collect, Inv, PhaseInv, ShapeInv, channel, collected
<1>2. /\ Requested' /\ Providers' = Providers /\ Refused' = Refused
  BY <1>1, Same
<1>3. Sequence(<<>>) /\ ToSet(<<>>) = {} /\ DOMAIN <<>> = {} /\ Distinct(<<>>)
  BY SequenceSmall DEF Distinct
<1>4. StreamInv' /\ ErrorsInv' /\ ReportInv'
  BY <1>1, <1>3 DEF StreamInv, ErrorsInv, ReportInv
<1>5. CASE /\ ~Refused /\ phase' = "scan" /\ providers' = Providers
           /\ runs' = [i \in DOMAIN Providers |-> Spawned(Providers[i])] /\ UNCHANGED result
  <2>1. DOMAIN runs' = DOMAIN Providers /\ runs' = [i \in DOMAIN runs' |-> runs'[i]]
    BY <1>5
  <2>2. ShapeInv'
    BY <1>1, <1>2, <1>3, <1>5, <2>1 DEF Inv, ShapeInv
  <2>3. PhaseInv'
    BY <1>1, <1>2, <1>5, <2>1 DEF PhaseInv
  <2>4. ASSUME NEW i \in DOMAIN Providers
        PROVE  RunInv(Providers[i], Spawned(Providers[i])) /\ Spawned(Providers[i]).at # "done"
    <3>1. PICK p, run : p = Providers[i] /\ run = Spawned(p)
      OBVIOUS
    <3>2. p \in Tools \/ p \in {"static", "orphan"} \/ p = "llm"
      BY <1>1, <3>1, ProvidersAre DEF IsProviders, Known
    <3>3. /\ run = [at |-> First(p), late |-> FALSE, hung |-> FALSE, temp |-> FALSE,
                    found |-> <<>>, err |-> FALSE, happened |-> "nothing"]
          /\ run.at = First(p) /\ run.late = FALSE /\ run.hung = FALSE /\ run.temp = FALSE
          /\ run.found = <<>> /\ run.err = FALSE /\ run.happened = "nothing"
      BY <3>1 DEF Spawned
    <3>4. /\ First(p) \in {"judge", "gather", "version"}
          /\ First(p) = "judge" => p \in {"static", "orphan"}
          /\ First(p) = "gather" => p = "llm"
          /\ First(p) = "version" => p \in Tools
      BY <3>2 DEF First, Tools
    <3>5. IsRun(run)
      BY <1>3, <3>3, <3>4 DEF IsRun, Places
    <3>6. Tidy(run) /\ Place(p, run) /\ Told(p, run)
      BY <3>3, <3>4 DEF Tidy, Place, Told, Places, Answered
    <3>7. RunInv(p, run) /\ run.at # "done"
      BY <3>3, <3>4, <3>5, <3>6 DEF RunInv
    <3> QED
      BY <3>1, <3>7
  <2>5. RunsInv'
    <3> SUFFICES ASSUME NEW i \in DOMAIN Providers PROVE RunInv(providers[i], runs[i])'
      BY <2>1 DEF RunsInv
    <3>1. PICK p, run : p = Providers[i] /\ run = Spawned(p)
      OBVIOUS
    <3>2. RunInv(p, run)
      BY <2>4, <3>1
    <3>3. RunInv(p, run)'
      BY <1>1, <3>2, SameRun
    <3> QED
      BY <1>5, <3>1, <3>3
  <2>6. SentInv'
    BY <1>5, <2>1, <2>4 DEF SentInv
  <2> QED
    BY <1>4, <2>2, <2>3, <2>5, <2>6 DEF Inv
<1>6. CASE phase' = "returned" /\ result' = "refused" /\ UNCHANGED <<providers, runs>>
  <2>1. ShapeInv'
    BY <1>1, <1>2, <1>6 DEF Inv, ShapeInv
  <2>2. PhaseInv'
    BY <1>1, <1>2, <1>6 DEF PhaseInv
  <2>3. RunsInv' /\ SentInv'
    BY <1>1, <1>6 DEF RunsInv, SentInv
  <2> QED
    BY <1>4, <2>1, <2>2, <2>3 DEF Inv
<1> QED
  BY <1>5, <1>6 DEF Collect

\* What becomes of the caller alone leaves the goroutines' part as it is.
LEMMA Apart ==
  ASSUME Inv, UNCHANGED <<request, providers, runs, stream, report, errors>>
  PROVE  RunsInv' /\ StreamInv' /\ SentInv' /\ ErrorsInv' /\ ReportInv'
<1>1. RunsInv'
  <2> SUFFICES ASSUME NEW j \in DOMAIN runs PROVE RunInv(providers[j], runs[j])'
    BY DEF RunsInv
  <2>1. PICK p, r : p = providers[j] /\ r = runs[j]
    OBVIOUS
  <2>2. RunInv(p, r)
    BY <2>1 DEF Inv, RunsInv
  <2>3. RunInv(p, r)'
    BY <2>2, SameRun
  <2> QED
    BY <2>1, <2>3
<1>2. StreamInv' /\ SentInv'
  BY DEF Inv, StreamInv, SentInv, Collected
<1>3. ErrorsInv' /\ ReportInv'
  BY DEF Inv, ErrorsInv, ReportInv
<1> QED
  BY <1>1, <1>2, <1>3

LEMMA StepCaller == ASSUME Inv, Cancel \/ Timeout \/ Close \/ Return \/ UNCHANGED vars PROVE Inv'
<1>1. UNCHANGED <<request, providers, runs, stream, report, errors>>
  BY DEF Cancel, Timeout, Close, Return, vars, channel, collected
<1>2. RunsInv' /\ StreamInv' /\ SentInv' /\ ErrorsInv' /\ ReportInv'
  BY <1>1, Apart
<1>3. Requested' /\ Providers' = Providers /\ Refused' = Refused
  BY <1>1, Same DEF Inv, ShapeInv
<1>4. ShapeInv' /\ PhaseInv'
  <2>1. CASE Close
    BY <1>1, <1>3, <2>1 DEF Inv, ShapeInv, PhaseInv, Close
  <2>2. CASE Return
    <3>1. phase = "scan" /\ phase' = "returned" /\ closed /\ closed' /\ stream = <<>>
          /\ result' # "refused" /\ (result' = "ok" => errors = {})
      BY <2>2 DEF Return, Verdict, channel, collected
    <3> QED
      BY <1>1, <1>3, <3>1 DEF Inv, ShapeInv, PhaseInv
  <2>3. CASE UNCHANGED <<phase, closed, result>>
    BY <1>1, <1>3, <2>3 DEF Inv, ShapeInv, PhaseInv
  <2> QED
    BY <2>1, <2>2, <2>3 DEF Cancel, Timeout, vars, channel, collected
<1> QED
  BY <1>2, <1>4 DEF Inv

LEMMA Step == ASSUME Inv, [Next]_vars PROVE Inv'
<1>1. CASE Collect \/ Drain
  BY <1>1, StepCollect, StepDrain
<1>2. CASE Cancel \/ Timeout \/ Close \/ Return \/ UNCHANGED vars
  BY <1>2, StepCaller
<1>3. CASE \E i \in DOMAIN runs : Goroutine(i) \/ Hang(i) \/ ProviderTimeout(i)
  <2>1. PICK i \in DOMAIN runs : Goroutine(i) \/ Hang(i) \/ ProviderTimeout(i)
    BY <1>3
  <2>2. CASE Goroutine(i)
    BY <2>2, StepPanic, StepJudge, StepVersion, StepPrepare, StepTool, StepGather, StepFetch,
       StepStream, StepKilled, StepSend DEF Goroutine
  <2>3. CASE Hang(i) \/ ProviderTimeout(i)
    BY <2>3, StepLate
  <2> QED
    BY <2>1, <2>2, <2>3
<1> QED
  BY <1>1, <1>2, <1>3 DEF Next

\* The inductive invariant holds throughout.
THEOREM InvAlways == Spec => []Inv
<1>1. Init => Inv
  BY Initial
<1>2. Inv /\ [Next]_vars => Inv'
  BY Step
<1> QED
  BY <1>1, <1>2, PTL DEF Spec

-----------------------------------------------------------------------------
(* The theorems. *)

LEMMA DistinctCounts ==
  ASSUME NEW s, Sequence(s), Distinct(s) PROVE Cardinality(Keys(s)) = Len(s)
<1>1. DOMAIN s = 1..Len(s) /\ Len(s) \in Nat
  BY SequenceDomain
<1>2. PICK n, S : n = Len(s) /\ S = Keys(s)
  OBVIOUS
<1>3. PICK key : key = [k \in 1..n |-> Key(s[k])]
  OBVIOUS
<1>4. key \in Bijection(1..n, S)
  <2>1. key \in [1..n -> S]
    BY <1>1, <1>2, <1>3 DEF Keys
  <2>2. \A a, b \in 1..n : key[a] = key[b] => a = b
    BY <1>1, <1>2, <1>3 DEF Distinct
  <2>3. \A x \in S : \E a \in 1..n : key[a] = x
    BY <1>1, <1>2, <1>3 DEF Keys
  <2> QED
    BY <2>1, <2>2, <2>3, Zenon DEF Bijection, Injection, Surjection, IsInjective
<1>5. ExistsBijection(1..n, S)
  BY <1>4, Zenon DEF ExistsBijection
<1>6. n \in Nat
  BY <1>1, <1>2
<1>7. Cardinality(S) = n
  BY <1>5, <1>6, FS_CountingElements
<1> QED
  BY <1>2, <1>7

\* Every provider is done when the caller has its answer, and all of its outcome is there.
LEMMA AllCollected ==
  ASSUME Inv, phase = "returned", result # "refused"
  PROVE  /\ DOMAIN runs = DOMAIN Providers /\ providers = Providers /\ ~Refused
         /\ \A i \in DOMAIN runs : runs[i].at = "done" /\ Collected(i)
<1>1. /\ providers = Providers /\ DOMAIN runs = DOMAIN providers /\ ~Refused
      /\ stream = <<>> /\ \A i \in DOMAIN runs : runs[i].at = "done"
  BY DEF Inv, PhaseInv
<1>2. ToSet(stream) = {}
  BY <1>1, SequenceSmall
<1>3. \A i \in DOMAIN runs : Collected(i)
  BY <1>1, <1>2 DEF Inv, SentInv
<1> QED
  BY <1>1, <1>3

LEMMA KeepsOutcomes == ASSUME Inv PROVE OutcomesKept
<1> SUFFICES ASSUME phase = "returned", result # "refused"
             PROVE  /\ \A i \in DOMAIN runs :
                         /\ runs[i].err <=> i \in errors
                         /\ runs[i].happened = "panic" => i \in errors
                         /\ \A k \in DOMAIN runs[i].found : Key(runs[i].found[k]) \in Reported
                         /\ ~runs[i].temp
                    /\ Cardinality(Reported) = Len(report)
                    /\ \A k \in DOMAIN report : \E i \in DOMAIN runs : report[k] \in ToSet(runs[i].found)
                    /\ result = "ok" => errors = {}
  BY DEF OutcomesKept
<1>1. \A i \in DOMAIN runs : runs[i].at = "done" /\ Collected(i)
  BY AllCollected
<1>2. ASSUME NEW i \in DOMAIN runs
      PROVE  /\ runs[i].err <=> i \in errors
             /\ runs[i].happened = "panic" => i \in errors
             /\ \A k \in DOMAIN runs[i].found : Key(runs[i].found[k]) \in Reported
             /\ ~runs[i].temp
  <2>1. RunInv(providers[i], runs[i]) /\ runs[i].at = "done"
    BY <1>1 DEF Inv, RunsInv
  <2>2. runs[i].err <=> i \in errors
    <3>1. runs[i].err => i \in errors
      BY <1>1 DEF Collected
    <3>2. i \in errors => runs[i].err
      BY DEF Inv, ErrorsInv
    <3> QED
      BY <2>1, <3>1, <3>2 DEF RunInv, IsRun
  <2>3. /\ runs[i].happened = "panic" => runs[i].err
        /\ ~runs[i].temp
    BY <2>1 DEF RunInv, Tidy
  <2>4. \A k \in DOMAIN runs[i].found : Key(runs[i].found[k]) \in Reported
    BY <1>1 DEF Collected, Keys, Reported
  <2> QED
    BY <2>2, <2>3, <2>4
<1>3. Cardinality(Reported) = Len(report)
  BY DistinctCounts DEF Inv, ShapeInv, ReportInv, Reported
<1>4. \A k \in DOMAIN report : \E i \in DOMAIN runs : report[k] \in ToSet(runs[i].found)
  BY DEF Inv, ReportInv, ToSet
<1>5. result = "ok" => errors = {}
  BY DEF Inv, PhaseInv
<1> QED
  BY <1>2, <1>3, <1>4, <1>5

\* The outcome of every provider is in what the caller gets, whatever the requests, the
\* tools and the answers, and however many goroutines race: the errors and the findings of
\* all of them, nothing else and nothing twice, and no temporary copy is left
\* (orchestrator.go:36-66, runner.go:296-317).
THEOREM OutcomesAlwaysKept == Spec => []OutcomesKept
<1>1. Inv => OutcomesKept
  BY KeepsOutcomes
<1> QED
  BY <1>1, InvAlways, PTL

\* What an LLM says that is loud, or of a truncation, is in the report as it says it.
LEMMA Heeded ==
  ASSUME Inv, phase = "returned", result # "refused", NEW i \in DOMAIN runs,
         providers[i] = "llm", NEW rules, Says(runs[i].found, rules)
  PROVE  \E k \in DOMAIN report : report[k].rule \in rules /\ report[k] \in ToSet(runs[i].found)
<1>1. PICK j \in DOMAIN runs[i].found : runs[i].found[j].rule \in rules
  BY DEF Says, ToSet
<1>2. PICK k \in DOMAIN report : Key(report[k]) = Key(runs[i].found[j])
  BY <1>1, AllCollected DEF Collected, Keys
<1>3. report[k].rule = runs[i].found[j].rule
  BY <1>2 DEF Key
<1>4. PICK l \in DOMAIN runs : report[k] \in ToSet(runs[l].found)
  BY DEF Inv, ReportInv, ToSet
<1>5. l = i
  <2>1. IsProviders(providers) /\ DOMAIN runs = DOMAIN providers
    BY AllCollected, ProvidersAre DEF Inv, ShapeInv
  <2>2. DOMAIN providers = {1}
    BY <2>1 DEF IsProviders, Known, Tools
  <2> QED
    BY <2>1, <2>2
<1> QED
  BY <1>1, <1>3, <1>4, <1>5

LEMMA IsCandid == ASSUME Inv PROVE NeverFalselyClean
<1> SUFFICES ASSUME result = "ok", \A k \in DOMAIN report : report[k].sev = Info
             PROVE  /\ \A i \in DOMAIN runs :
                         \/ runs[i].happened = "nothing"
                         \/ <<providers[i], runs[i].happened>> \in {<<"prowler", "exit">>, <<"llm", "silence">>}
                    /\ request.mode = "source" => runs # <<>>
                    /\ CapPromptResources(Grounded) > 0 =>
                           \E k \in DOMAIN report : report[k].rule = "LLM-CB-TRUNCATED"
  BY DEF NeverFalselyClean
<1>1. phase = "returned" /\ result # "refused" /\ errors = {}
  BY DEF Inv, ShapeInv, PhaseInv
<1>2. /\ DOMAIN runs = DOMAIN Providers /\ providers = Providers /\ ~Refused
      /\ \A i \in DOMAIN runs : runs[i].at = "done" /\ Collected(i)
  BY <1>1, AllCollected
<1>3. ASSUME NEW i \in DOMAIN runs
      PROVE  /\ Tells(providers[i], runs[i].happened, runs[i].found, runs[i].err) /\ ~runs[i].err
             /\ providers[i] = "llm" => ~Says(runs[i].found, Loud)
  <2>1. Told(providers[i], runs[i])
    BY DEF Inv, RunsInv, RunInv
  <2>2. Tells(providers[i], runs[i].happened, runs[i].found, runs[i].err)
    BY <1>2, <2>1 DEF Told, Answered
  <2>3. ~runs[i].err
    BY <1>1, <1>2 DEF Collected
  <2>4. ASSUME providers[i] = "llm", Says(runs[i].found, Loud) PROVE FALSE
    <3>1. PICK k \in DOMAIN report : report[k].rule \in Loud /\ report[k] \in ToSet(runs[i].found)
      BY <1>1, <2>4, Heeded
    <3>2. report[k].sev = Warning
      BY <2>2, <2>4, <3>1 DEF Tells, Warns
    <3> QED
      BY <3>2 DEF Info, Warning
  <2> QED
    BY <2>2, <2>3, <2>4
<1>4. ASSUME NEW i \in DOMAIN runs
      PROVE  runs[i].happened = "nothing" \/ Conceded(providers[i], runs[i].happened)
  BY <1>3 DEF Tells
<1>5. request.mode = "source" => runs # <<>>
  <2>1. request.mode = "source" => Providers # <<>>
    BY <1>2 DEF Refused
  <2>2. Sequence(Providers)
    BY ProvidersAre DEF Inv, ShapeInv, IsProviders
  <2>3. Providers # <<>> => DOMAIN Providers # {}
    BY <2>2, SequenceEmpty
  <2> QED
    BY <1>2, <2>1, <2>3
<1>6. ASSUME Truncates PROVE \E k \in DOMAIN report : report[k].rule = "LLM-CB-TRUNCATED"
  <2>1. Grounds /\ request.mode = "source"
    BY <1>6, NotGrounded, NotSource DEF Inv, ShapeInv
  <2>2. request.llm = "grounded"
    BY <2>1 DEF Grounds
  <2>3. Providers = <<"llm">>
    BY <2>1, <2>2 DEF Providers
  <2>4. 1 \in DOMAIN runs /\ providers[1] = "llm"
    BY <1>2, <2>3
  <2>5. runs[1].happened = "nothing"
    BY <1>4, <2>2, <2>4 DEF Conceded
  <2>6. Says(runs[1].found, {"LLM-CB-TRUNCATED"})
    BY <1>3, <1>6, <2>4, <2>5 DEF Tells
  <2> QED
    BY <1>1, <2>4, <2>6, Heeded
<1> QED
  BY <1>4, <1>5, <1>6 DEF Conceded, Truncates

\* Without an error and without a finding above info every provider that was started ran to
\* its end, a source tree had one, and resources that did not fit a grounded prompt are told
\* (runner.go:193-215, llm_analyzer.go:303-360, 507-567).  Conceded, and so not proved: an
\* exit code of prowler (adapter_prowler.go:42-48), an error before the first token of an
\* HTTP stream (llm/caller.go:100-105), names no adapter has, and files left out, cut or
\* unreadable (llm_files.go:34, 68-70).
THEOREM NeverFalselyCleanAlways == Spec => []NeverFalselyClean
<1>1. Inv => NeverFalselyClean
  BY IsCandid
<1> QED
  BY <1>1, InvAlways, PTL

-----------------------------------------------------------------------------
(* An audit goes on: it is never without a step to take, unless a tool holds it up, and *)
(* every step, whoever takes it, leaves one fewer.                                      *)

\* How many places are before a goroutine's end.
PlaceLeft(at) ==
    CASE at \in {"version", "gather"}       -> 4
      [] at \in {"prepare", "fetch"}        -> 3
      [] at \in {"judge", "tool", "stream"} -> 2
      [] at = "send"                        -> 1
      [] OTHER                              -> 0

\* What can happen once.
Left(happened) == IF happened THEN 0 ELSE 1

Weight(run) == PlaceLeft(run.at) + Left(run.late) + Left(run.hung)

\* The steps the goroutines have left, and those that have not sent their result.
Work(rs) == {w \in (DOMAIN rs) \X (1..6) : w[2] <= Weight(rs[w[1]])}
Unsent(rs) == {i \in DOMAIN rs : rs[i].at # "done"}

StepsLeft ==
    CASE phase = "collect" -> 7 * Len(Providers) + Left(ended) + Left(closed) + 2
      [] phase = "scan"    -> Cardinality(Work(runs)) + Cardinality(Unsent(runs)) + Len(stream)
                                + Left(ended) + Left(closed) + 1
      [] OTHER             -> 0

\* The stream has room for every result that is still to come.
RoomInv == phase = "scan" => Cardinality(Unsent(runs)) + Len(stream) <= Len(Providers)

\* What the goroutine of provider i waits for, and its deadline.
Runnable(i) ==
    \/ runs[i].at \in {"judge", "prepare", "gather", "fetch"}
    \/ runs[i].at \in Waiting /\ (~runs[i].hung \/ Done(i))
    \/ runs[i].at = "send" /\ Len(stream) < Len(providers)
Pending(i) == request.each /\ ~runs[i].late /\ runs[i].at \notin {"send", "done", "held"}

\* What the audit waits for: the caller, a goroutine, a deadline, or the stream.
Ready ==
    \/ phase = "collect"
    \/ /\ phase = "scan"
       /\ \/ \E i \in DOMAIN runs : Runnable(i) \/ Pending(i)
          \/ request.total /\ ~ended
          \/ \A i \in DOMAIN runs : runs[i].at = "done"
          \/ stream # <<>>

LEMMA LeftIs == \A b : Left(b) \in 0..1
  BY DEF Left

LEMMA WeightIs == \A run : PlaceLeft(run.at) \in 0..4 /\ Weight(run) \in 0..6
<1>1. \A at : PlaceLeft(at) \in 0..4
  BY DEF PlaceLeft
<1>2. \A a \in 0..4, b, c \in 0..1 : a + b + c \in 0..6
  OBVIOUS
<1> QED
  BY <1>1, <1>2, LeftIs, Zenon DEF Weight

LEMMA IntervalIs == ASSUME NEW N \in Nat PROVE IsFiniteSet(1..N) /\ Cardinality(1..N) = N
<1>1. 1 \in Int /\ N \in Int
  OBVIOUS
<1>2. IsFiniteSet(1..N) /\ Cardinality(1..N) = IF 1 > N THEN 0 ELSE N - 1 + 1
  BY <1>1, FS_Interval, Zenon
<1> QED
  BY <1>2

LEMMA Sizes ==
  ASSUME NEW ps, Sequence(ps), NEW rs, DOMAIN rs = DOMAIN ps
  PROVE  /\ Len(ps) \in Nat
         /\ IsFiniteSet(Work(rs)) /\ Cardinality(Work(rs)) \in Nat
         /\ Cardinality(Work(rs)) <= 6 * Len(ps)
         /\ IsFiniteSet(Unsent(rs)) /\ Cardinality(Unsent(rs)) \in Nat
         /\ Cardinality(Unsent(rs)) <= Len(ps)
<1>1. PICK N : N = Len(ps)
  OBVIOUS
<1>2. N \in Nat /\ DOMAIN rs = 1..N
  BY <1>1, SequenceDomain
<1>3. IsFiniteSet(1..N) /\ Cardinality(1..N) = N
  BY <1>2, IntervalIs
<1>4. IsFiniteSet(1..6) /\ Cardinality(1..6) = 6
  <2>1. 6 \in Nat
    OBVIOUS
  <2> QED
    BY <2>1, IntervalIs, Zenon
<1>5. PICK All6 : All6 = (1..N) \X (1..6)
  OBVIOUS
<1>6. IsFiniteSet(All6) /\ Cardinality(All6) = N * 6
  <2>1. /\ IsFiniteSet((1..N) \X (1..6))
        /\ Cardinality((1..N) \X (1..6)) = Cardinality(1..N) * Cardinality(1..6)
    BY <1>3, <1>4, FS_Product, Zenon
  <2> QED
    BY <1>3, <1>4, <1>5, <2>1, Zenon
<1>7. Work(rs) \in SUBSET All6 /\ Unsent(rs) \in SUBSET (1..N)
  BY <1>2, <1>5 DEF Work, Unsent
<1>8. /\ IsFiniteSet(Work(rs)) /\ Cardinality(Work(rs)) <= N * 6
      /\ IsFiniteSet(Unsent(rs)) /\ Cardinality(Unsent(rs)) <= N
  <2>1. IsFiniteSet(Work(rs)) /\ Cardinality(Work(rs)) <= Cardinality(All6)
    BY <1>6, <1>7, FS_Subset
  <2>2. IsFiniteSet(Unsent(rs)) /\ Cardinality(Unsent(rs)) <= Cardinality(1..N)
    BY <1>3, <1>7, FS_Subset
  <2> QED
    BY <1>3, <1>6, <2>1, <2>2
<1>9. Cardinality(Work(rs)) \in Nat /\ Cardinality(Unsent(rs)) \in Nat
  BY <1>8, FS_CardinalityType
<1>10. N * 6 = 6 * N
  BY <1>2
<1> QED
  BY <1>1, <1>2, <1>8, <1>9, <1>10

\* A step of one goroutine that lowers its weight lowers the work.
LEMMA WorkLess ==
  ASSUME NEW ps, Sequence(ps), NEW rs, DOMAIN rs = DOMAIN ps, NEW ss, DOMAIN ss = DOMAIN ps,
         NEW i \in DOMAIN rs, \A j \in DOMAIN rs : j # i => ss[j] = rs[j],
         Weight(ss[i]) < Weight(rs[i])
  PROVE  Cardinality(Work(ss)) < Cardinality(Work(rs))
<1>1. PICK a, b : a = Weight(ss[i]) /\ b = Weight(rs[i])
  OBVIOUS
<1>2. a \in 0..6 /\ b \in 0..6 /\ a < b
  BY <1>1, WeightIs
<1>3. \A k \in 1..6 : k <= a => k <= b
  BY <1>2
<1>4. Work(ss) \subseteq Work(rs)
  <2> SUFFICES ASSUME NEW j \in DOMAIN rs, NEW k \in 1..6, k <= Weight(ss[j])
               PROVE  k <= Weight(rs[j])
    BY DEF Work
  <2>1. CASE j = i
    BY <1>1, <1>3, <2>1
  <2>2. CASE j # i
    BY <2>2
  <2> QED
    BY <2>1, <2>2
<1>5. <<i, b>> \in Work(rs) /\ <<i, b>> \notin Work(ss)
  <2>1. b \in 1..6 /\ b <= b /\ ~(b <= a)
    BY <1>2
  <2> QED
    BY <1>1, <2>1 DEF Work
<1>6. /\ IsFiniteSet(Work(rs)) /\ Cardinality(Work(rs)) \in Nat
      /\ Cardinality(Work(ss)) \in Nat
  BY Sizes
<1>7. Cardinality(Work(ss)) <= Cardinality(Work(rs)) /\ Cardinality(Work(ss)) # Cardinality(Work(rs))
  <2>1. Work(ss) # Work(rs) /\ Work(ss) \in SUBSET Work(rs)
    BY <1>4, <1>5
  <2> QED
    BY <1>6, <2>1, FS_Subset
<1>8. \A m, n \in Nat : m <= n /\ m # n => m < n
  OBVIOUS
<1> QED
  BY <1>6, <1>7, <1>8

LEMMA UnsentLess ==
  ASSUME NEW ps, Sequence(ps), NEW rs, DOMAIN rs = DOMAIN ps, NEW ss, DOMAIN ss = DOMAIN ps,
         NEW i \in DOMAIN rs, \A j \in DOMAIN rs : j # i => ss[j] = rs[j],
         rs[i].at # "done", ss[i].at = "done"
  PROVE  Cardinality(Unsent(ss)) = Cardinality(Unsent(rs)) - 1
<1>1. Unsent(ss) = Unsent(rs) \ {i} /\ i \in Unsent(rs)
  BY DEF Unsent
<1>2. IsFiniteSet(Unsent(rs))
  BY Sizes
<1>3. Cardinality(Unsent(rs) \ {i}) = Cardinality(Unsent(rs)) - 1
  BY <1>1, <1>2, FS_RemoveElement, Zenon
<1> QED
  BY <1>1, <1>3

\* The step of a goroutine that does not send: it is nearer its end, or has lost its time or
\* its tool.
Nearer(i) ==
    \E run : /\ Becomes(i, run) /\ Weight(run) < Weight(runs[i])
             /\ run.at # "done" /\ runs[i].at # "done"

LEMMA Further ==
  ASSUME NEW i \in DOMAIN runs, NEW run, Becomes(i, run),
         run.late = runs[i].late, run.hung = runs[i].hung, run.at # "done",
         PlaceLeft(run.at) < PlaceLeft(runs[i].at)
  PROVE  Nearer(i)
<1>1. PICK a, b, c, d : /\ a = PlaceLeft(run.at) /\ b = PlaceLeft(runs[i].at)
                        /\ c = Left(run.late) /\ d = Left(run.hung)
  OBVIOUS
<1>2. a \in 0..4 /\ b \in 0..4 /\ a < b /\ c \in 0..1 /\ d \in 0..1
  BY <1>1, WeightIs, LeftIs
<1>3. a + c + d < b + c + d
  BY <1>2
<1>4. Weight(run) = a + c + d /\ Weight(runs[i]) = b + c + d
  BY <1>1, Zenon DEF Weight
<1>5. runs[i].at # "done"
  <2>1. PlaceLeft("done") = 0
    BY DEF PlaceLeft
  <2> QED
    BY <1>1, <1>2, <2>1
<1> QED
  BY <1>3, <1>4, <1>5 DEF Nearer

LEMMA RunIs ==
  ASSUME Inv, NEW i \in DOMAIN runs
  PROVE  /\ runs[i] = [at |-> runs[i].at, late |-> runs[i].late, hung |-> runs[i].hung,
                       temp |-> runs[i].temp, found |-> runs[i].found, err |-> runs[i].err,
                       happened |-> runs[i].happened]
         /\ runs[i].at \in Places
  BY DEF Inv, RunsInv, RunInv, IsRun

LEMMA AnswerNearer ==
  ASSUME Inv, NEW i \in DOMAIN runs, runs[i].at \in Working,
         NEW happened, NEW found, NEW err, Answer(i, happened, found, err)
  PROVE  Nearer(i)
<1>1. PICK run : run = [runs[i] EXCEPT !.at = "send", !.temp = FALSE, !.happened = happened,
                                       !.found = found, !.err = err]
  OBVIOUS
<1>2. run.at = "send" /\ run.late = runs[i].late /\ run.hung = runs[i].hung
  BY <1>1, RunIs
<1>3. PlaceLeft(run.at) < PlaceLeft(runs[i].at)
  BY <1>2 DEF PlaceLeft, Working, Places, Answered
<1>4. Becomes(i, run)
  BY <1>1 DEF Answer
<1> QED
  BY <1>2, <1>3, <1>4, Further

LEMMA GoesNearer ==
  ASSUME Inv, NEW i \in DOMAIN runs, NEW place, place # "done",
         PlaceLeft(place) < PlaceLeft(runs[i].at), Goes(i, place)
  PROVE  Nearer(i)
<1>1. PICK run : run = [runs[i] EXCEPT !.at = place]
  OBVIOUS
<1>2. run.at = place /\ run.late = runs[i].late /\ run.hung = runs[i].hung
  BY <1>1, RunIs
<1>3. Becomes(i, run)
  BY <1>1 DEF Goes
<1> QED
  BY <1>2, <1>3, Further

\* Every answer of a goroutine is one of these.
Ends(i) == \E happened, found, err : Answer(i, happened, found, err)

LEMMA EndsIf ==
  ASSUME NEW i
  PROVE  /\ \A happened : Fails(i, happened) => Ends(i)
         /\ \A happened : Disappoints(i, happened) => Ends(i)
         /\ \A exit, output : Read(i, exit, output) => Ends(i)
         /\ \A answer, happened : Hear(i, answer, happened) => Ends(i)
<1>1. \A happened : Fails(i, happened) => Ends(i)
  BY Zenon DEF Fails, Ends
<1>2. \A happened : Disappoints(i, happened) => Ends(i)
  BY Zenon DEF Disappoints, Ends
<1>3. \A exit, output : Read(i, exit, output) => Ends(i)
  BY Zenon DEF Read, Ends
<1>4. \A answer, happened : Hear(i, answer, happened) => Ends(i)
  <2> SUFFICES ASSUME NEW answer, NEW happened, Hear(i, answer, happened) PROVE Ends(i)
    OBVIOUS
  <2>1. CASE answer = Prose
    BY <1>2, <2>1 DEF Hear
  <2>2. CASE answer # Prose
    <3>1. PICK found : Answer(i, happened, found, FALSE)
      BY <2>2 DEF Hear
    <3> QED
      BY <3>1 DEF Ends
  <2> QED
    BY <2>1, <2>2
<1> QED
  BY <1>1, <1>2, <1>3, <1>4

LEMMA EndsNearer ==
  ASSUME Inv, NEW i \in DOMAIN runs, runs[i].at \in Working, Ends(i) PROVE Nearer(i)
  BY AnswerNearer DEF Ends

LEMMA PlacesLeft ==
    /\ PlaceLeft("version") = 4 /\ PlaceLeft("gather") = 4 /\ PlaceLeft("prepare") = 3
    /\ PlaceLeft("fetch") = 3 /\ PlaceLeft("judge") = 2 /\ PlaceLeft("tool") = 2
    /\ PlaceLeft("stream") = 2 /\ PlaceLeft("send") = 1 /\ PlaceLeft("held") = 0
    /\ PlaceLeft("done") = 0
  BY DEF PlaceLeft

LEMMA AdapterNearer ==
  ASSUME Inv, NEW i \in DOMAIN runs,
         Panic(i) \/ Judge(i) \/ CheckVersion(i) \/ Prepare(i) \/ RunTool(i)
  PROVE  Nearer(i)
<1> USE DEF Working, Places, Answered
<1>1. CASE Panic(i)
  <2>1. Ends(i)
    BY <1>1, EndsIf DEF Panic
  <2>2. runs[i].at \in Working
    BY <1>1, RunIs DEF Panic
  <2> QED
    BY <2>1, <2>2, EndsNearer
<1>2. CASE Judge(i)
  <2>1. Ends(i)
    BY <1>2, Zenon DEF Judge, Ends
  <2> QED
    BY <1>2, <2>1, EndsNearer DEF Judge
<1>3. CASE CheckVersion(i)
  <2>1. runs[i].at = "version"
    BY <1>3 DEF CheckVersion
  <2>2. Ends(i) \/ \E place \in {"tool", "prepare"} : Goes(i, place)
    <3>1. CASE Fails(i, "missing")
      BY <3>1, EndsIf
    <3>2. CASE \E version \in Versions :
                  IF VersionFits(providers[i], version)
                  THEN Goes(i, IF request.mode = "source" THEN "tool" ELSE "prepare")
                  ELSE Fails(i, "version")
      <4>1. Fails(i, "version") \/ Goes(i, IF request.mode = "source" THEN "tool" ELSE "prepare")
        BY <3>2
      <4> QED
        BY <4>1, EndsIf
    <3> QED
      BY <1>3, <3>1, <3>2 DEF CheckVersion
  <2>3. CASE \E place \in {"tool", "prepare"} : Goes(i, place)
    BY <2>1, <2>3, PlacesLeft, GoesNearer
  <2> QED
    BY <2>1, <2>2, <2>3, EndsNearer
<1>4. CASE Prepare(i)
  <2>1. runs[i].at = "prepare"
    BY <1>4 DEF Prepare
  <2>2. CASE Fails(i, "write")
    BY <2>1, <2>2, EndsIf, EndsNearer
  <2>3. CASE Becomes(i, [runs[i] EXCEPT !.at = "tool", !.temp = TRUE])
    <3>1. PICK run : run = [runs[i] EXCEPT !.at = "tool", !.temp = TRUE]
      OBVIOUS
    <3>2. run.at = "tool" /\ run.late = runs[i].late /\ run.hung = runs[i].hung
      BY <3>1, RunIs
    <3>3. Becomes(i, run)
      BY <2>3, <3>1
    <3>4. PlaceLeft(run.at) < PlaceLeft(runs[i].at)
      BY <2>1, <3>2, PlacesLeft
    <3> QED
      BY <3>2, <3>3, <3>4, Further
  <2> QED
    BY <1>4, <2>2, <2>3 DEF Prepare
<1>5. CASE RunTool(i)
  <2>1. Ends(i)
    BY <1>5, EndsIf DEF RunTool
  <2> QED
    BY <1>5, <2>1, EndsNearer DEF RunTool
<1> QED
  BY <1>1, <1>2, <1>3, <1>4, <1>5

LEMMA AnalyzerNearer ==
  ASSUME Inv, NEW i \in DOMAIN runs,
         Gather(i) \/ FetchBundle(i) \/ Stream(i) \/ Killed(i)
  PROVE  Nearer(i)
<1> USE DEF Working, Places, Answered
<1>1. CASE Gather(i)
  <2>1. runs[i].at = "gather"
    BY <1>1 DEF Gather
  <2>2. Answer(i, "nothing", <<>>, FALSE) \/ Goes(i, "fetch") \/ Goes(i, "stream")
    BY <1>1 DEF Gather
  <2>3. CASE Goes(i, "fetch") \/ Goes(i, "stream")
    BY <2>1, <2>3, PlacesLeft, GoesNearer
  <2> QED
    BY <2>1, <2>2, <2>3, AnswerNearer
<1>2. CASE FetchBundle(i)
  <2>1. runs[i].at = "fetch"
    BY <1>2 DEF FetchBundle
  <2>2. CASE Goes(i, "stream")
    BY <2>1, <2>2, PlacesLeft, GoesNearer
  <2>3. CASE Becomes(i, [runs[i] EXCEPT !.at = "stream", !.happened = "misses"])
    <3>1. PICK run : run = [runs[i] EXCEPT !.at = "stream", !.happened = "misses"]
      OBVIOUS
    <3>2. run.at = "stream" /\ run.late = runs[i].late /\ run.hung = runs[i].hung
      BY <3>1, RunIs
    <3>3. Becomes(i, run)
      BY <2>3, <3>1
    <3>4. PlaceLeft(run.at) < PlaceLeft(runs[i].at)
      BY <2>1, <3>2, PlacesLeft
    <3> QED
      BY <3>2, <3>3, <3>4, Further
  <2>4. CASE Disappoints(i, "knowledge")
    BY <2>1, <2>4, EndsIf, EndsNearer
  <2> QED
    BY <1>2, <2>2, <2>3, <2>4 DEF FetchBundle
<1>3. CASE Stream(i)
  <2>1. Ends(i)
    BY <1>3, EndsIf DEF Stream, StreamCLI, StreamGrounded, StreamHTTP, Hears
  <2> QED
    BY <1>3, <2>1, EndsNearer DEF Stream
<1>4. CASE Killed(i)
  <2>1. runs[i].at \in Waiting
    BY <1>4 DEF Killed
  <2>2. CASE Goes(i, "held")
    BY <2>1, <2>2, PlacesLeft, GoesNearer DEF Waiting
  <2>3. Goes(i, "held") \/ Ends(i)
    BY <1>4, EndsIf DEF Killed
  <2> QED
    BY <2>1, <2>2, <2>3, EndsNearer DEF Waiting
<1> QED
  BY <1>1, <1>2, <1>3, <1>4

LEMMA LateNearer ==
  ASSUME Inv, NEW i \in DOMAIN runs, Hang(i) \/ ProviderTimeout(i) PROVE Nearer(i)
<1>1. runs[i].at # "done"
  BY DEF Hang, ProviderTimeout, Waiting
<1>2. PICK run : /\ Becomes(i, run) /\ run.at = runs[i].at
                 /\ \/ run.late = runs[i].late /\ run.hung = TRUE /\ ~runs[i].hung
                    \/ run.hung = runs[i].hung /\ run.late = TRUE /\ ~runs[i].late
  <2>1. CASE Hang(i)
    <3>1. PICK run : run = [runs[i] EXCEPT !.hung = TRUE]
      OBVIOUS
    <3>2. run.at = runs[i].at /\ run.late = runs[i].late /\ run.hung = TRUE
      BY <3>1, RunIs
    <3>3. Becomes(i, run) /\ ~runs[i].hung
      BY <2>1, <3>1 DEF Hang
    <3> QED
      BY <3>2, <3>3
  <2>2. CASE ProviderTimeout(i)
    <3>1. PICK run : run = [runs[i] EXCEPT !.late = TRUE]
      OBVIOUS
    <3>2. run.at = runs[i].at /\ run.hung = runs[i].hung /\ run.late = TRUE
      BY <3>1, RunIs
    <3>3. Becomes(i, run) /\ ~runs[i].late
      BY <2>2, <3>1 DEF ProviderTimeout
    <3> QED
      BY <3>2, <3>3
  <2> QED
    BY <2>1, <2>2
<1>3. PICK a, b, c, d, e : /\ a = PlaceLeft(run.at) /\ b = Left(run.late) /\ c = Left(run.hung)
                           /\ d = Left(runs[i].late) /\ e = Left(runs[i].hung)
  OBVIOUS
<1>4. a \in 0..4 /\ b \in 0..1 /\ c \in 0..1 /\ d \in 0..1 /\ e \in 0..1
  BY <1>3, WeightIs, LeftIs
<1>5. (b = d /\ c = 0 /\ e = 1) \/ (c = e /\ b = 0 /\ d = 1)
  BY <1>2, <1>3 DEF Left
<1>6. a + b + c < a + d + e
  BY <1>4, <1>5
<1>7. Weight(run) = a + b + c /\ Weight(runs[i]) = a + d + e
  BY <1>2, <1>3, Zenon DEF Weight
<1>8. Weight(run) < Weight(runs[i])
  BY <1>6, <1>7
<1> QED
  BY <1>1, <1>2, <1>8 DEF Nearer

LEMMA Scanning ==
  ASSUME Inv, phase = "scan"
  PROVE  /\ providers = Providers /\ Sequence(Providers) /\ DOMAIN runs = DOMAIN Providers
         /\ Len(Providers) \in Nat /\ Len(stream) \in Nat
         /\ Cardinality(Work(runs)) \in Nat /\ Cardinality(Work(runs)) <= 6 * Len(Providers)
         /\ Cardinality(Unsent(runs)) \in Nat /\ IsFiniteSet(Unsent(runs))
         /\ StepsLeft = Cardinality(Work(runs)) + Cardinality(Unsent(runs)) + Len(stream)
                          + Left(ended) + Left(closed) + 1
<1>1. providers = Providers /\ Sequence(Providers) /\ DOMAIN runs = DOMAIN Providers
  BY ProvidersAre DEF Inv, ShapeInv, PhaseInv, IsProviders
<1>2. Len(stream) \in Nat
  BY SequenceDomain DEF Inv, ShapeInv
<1>3. StepsLeft = Cardinality(Work(runs)) + Cardinality(Unsent(runs)) + Len(stream)
                    + Left(ended) + Left(closed) + 1
  BY DEF StepsLeft
<1> QED
  BY <1>1, <1>2, <1>3, Sizes

\* Lowering one of the parts lowers the whole.
LEMMA Sums ==
  ASSUME NEW w \in Nat, NEW u \in Nat, NEW l \in Nat, NEW e \in 0..1, NEW c \in 0..1,
         NEW w1 \in Nat, NEW u1 \in Nat, NEW l1 \in Nat, NEW e1 \in 0..1, NEW c1 \in 0..1,
         w1 <= w, u1 + l1 <= u + l, e1 <= e, c1 <= c,
         w1 < w \/ u1 + l1 < u + l \/ e1 < e \/ c1 < c
  PROVE  w1 + u1 + l1 + e1 + c1 + 1 < w + u + l + e + c + 1
  OBVIOUS

LEMMA ScanLess ==
  ASSUME Inv, phase = "scan", phase' = "scan",
         NEW w1 \in Nat, NEW u1 \in Nat, NEW l1 \in Nat,
         w1 = Cardinality(Work(runs')), u1 = Cardinality(Unsent(runs')), l1 = Len(stream'),
         w1 <= Cardinality(Work(runs)),
         u1 + l1 <= Cardinality(Unsent(runs)) + Len(stream),
         Left(ended') <= Left(ended), Left(closed') <= Left(closed),
         \/ w1 < Cardinality(Work(runs)) \/ u1 + l1 < Cardinality(Unsent(runs)) + Len(stream)
         \/ Left(ended') < Left(ended) \/ Left(closed') < Left(closed)
  PROVE  StepsLeft' < StepsLeft
<1>1. PICK w, u, l, e, c, e1, c1 :
        /\ w = Cardinality(Work(runs)) /\ u = Cardinality(Unsent(runs)) /\ l = Len(stream)
        /\ e = Left(ended) /\ c = Left(closed) /\ e1 = Left(ended') /\ c1 = Left(closed')
  OBVIOUS
<1>2. /\ w \in Nat /\ u \in Nat /\ l \in Nat
      /\ e \in 0..1 /\ c \in 0..1 /\ e1 \in 0..1 /\ c1 \in 0..1
  BY <1>1, Scanning, LeftIs
<1>3. w1 + u1 + l1 + e1 + c1 + 1 < w + u + l + e + c + 1
  BY <1>1, <1>2, Sums
<1>4. StepsLeft = w + u + l + e + c + 1
  BY <1>1, Scanning
<1>5. StepsLeft' = w1 + u1 + l1 + e1 + c1 + 1
  BY <1>1, Zenon DEF StepsLeft
<1> QED
  BY <1>3, <1>4, <1>5

LEMMA NearerLess ==
  ASSUME Inv, RoomInv, NEW i \in DOMAIN runs, Nearer(i)
  PROVE  StepsLeft' < StepsLeft /\ RoomInv'
<1>1. PICK run : /\ Becomes(i, run) /\ Weight(run) < Weight(runs[i])
                 /\ run.at # "done" /\ runs[i].at # "done"
  BY DEF Nearer
<1>2. /\ phase = "scan" /\ phase' = "scan" /\ runs' = [runs EXCEPT ![i] = run]
      /\ UNCHANGED <<request, ended, closed, stream>>
  BY <1>1 DEF Becomes, channel
<1>3. /\ DOMAIN runs' = DOMAIN runs /\ runs'[i] = run
      /\ \A j \in DOMAIN runs : j # i => runs'[j] = runs[j]
  BY <1>2 DEF Inv, ShapeInv
<1>4. PICK rs : rs = runs'
  OBVIOUS
<1>5. Cardinality(Work(rs)) < Cardinality(Work(runs)) /\ Cardinality(Work(rs)) \in Nat
  <2>1. Sequence(Providers) /\ DOMAIN runs = DOMAIN Providers /\ DOMAIN rs = DOMAIN Providers
    BY <1>2, <1>3, <1>4, Scanning
  <2>2. Weight(rs[i]) < Weight(runs[i]) /\ \A j \in DOMAIN runs : j # i => rs[j] = runs[j]
    BY <1>1, <1>3, <1>4
  <2>3. Cardinality(Work(rs)) < Cardinality(Work(runs))
    BY <2>1, <2>2, WorkLess
  <2>4. Cardinality(Work(rs)) \in Nat
    BY <2>1, Sizes
  <2> QED
    BY <2>3, <2>4
<1>6. Unsent(rs) = Unsent(runs)
  BY <1>1, <1>3, <1>4 DEF Unsent
<1>7. StepsLeft' < StepsLeft
  <2>1. PICK w1, u1, l1, w : /\ w1 = Cardinality(Work(rs)) /\ u1 = Cardinality(Unsent(rs))
                             /\ l1 = Len(stream') /\ w = Cardinality(Work(runs))
    OBVIOUS
  <2>2. u1 = Cardinality(Unsent(runs)) /\ l1 = Len(stream)
    BY <1>2, <1>6, <2>1
  <2>3. w1 \in Nat /\ w \in Nat /\ u1 \in Nat /\ l1 \in Nat /\ w1 < w
    BY <1>2, <1>5, <2>1, <2>2, Scanning
  <2>4. w1 <= w /\ u1 + l1 <= u1 + l1
    BY <2>3
  <2>5. Left(ended') <= Left(ended) /\ Left(closed') <= Left(closed)
    BY <1>2, LeftIs
  <2> QED
    BY <1>2, <1>4, <2>1, <2>2, <2>3, <2>4, <2>5, ScanLess
<1>8. RoomInv'
  <2>1. Providers' = Providers
    BY <1>2, Same
  <2> QED
    BY <1>2, <1>4, <1>6, <2>1 DEF RoomInv
<1> QED
  BY <1>7, <1>8

\* Sending leaves as much in the goroutines and the stream together.
LEMMA SendLess ==
  ASSUME Inv, RoomInv, NEW i \in DOMAIN runs, Send(i)
  PROVE  StepsLeft' < StepsLeft /\ RoomInv'
<1> DEFINE m == [from |-> i, found |-> runs[i].found, err |-> runs[i].err]
<1>1. /\ phase = "scan" /\ phase' = "scan" /\ runs[i].at = "send"
      /\ stream' = Append(stream, m) /\ runs' = [runs EXCEPT ![i].at = "done"]
      /\ UNCHANGED <<request, ended, closed>>
  BY DEF Send
<1>2. /\ DOMAIN runs' = DOMAIN runs /\ runs'[i] = [runs[i] EXCEPT !.at = "done"]
      /\ \A j \in DOMAIN runs : j # i => runs'[j] = runs[j]
  BY <1>1 DEF Inv, ShapeInv
<1>3. PICK rs : rs = runs'
  OBVIOUS
<1>4. rs[i].at = "done" /\ rs[i].late = runs[i].late /\ rs[i].hung = runs[i].hung
  BY <1>2, <1>3, RunIs
<1>5. Weight(rs[i]) < Weight(runs[i])
  <2>1. PICK c, d : c = Left(runs[i].late) /\ d = Left(runs[i].hung)
    OBVIOUS
  <2>2. c \in 0..1 /\ d \in 0..1
    BY <2>1, LeftIs
  <2>3. 0 + c + d < 1 + c + d
    BY <2>2
  <2>4. Weight(rs[i]) = 0 + c + d /\ Weight(runs[i]) = 1 + c + d
    BY <1>1, <1>4, <2>1, PlacesLeft, Zenon DEF Weight
  <2> QED
    BY <2>3, <2>4
<1>6. Sequence(Providers) /\ DOMAIN runs = DOMAIN Providers /\ DOMAIN rs = DOMAIN Providers
  BY <1>1, <1>2, <1>3, Scanning
<1>7. PICK w1, u1, l1 : /\ w1 = Cardinality(Work(rs)) /\ u1 = Cardinality(Unsent(rs))
                        /\ l1 = Len(stream')
  OBVIOUS
<1>8. w1 < Cardinality(Work(runs)) /\ w1 \in Nat /\ u1 \in Nat
  <2>1. \A j \in DOMAIN runs : j # i => rs[j] = runs[j]
    BY <1>2, <1>3
  <2> QED
    BY <1>5, <1>6, <1>7, <2>1, WorkLess, Sizes
<1>9. u1 = Cardinality(Unsent(runs)) - 1
  <2>1. \A j \in DOMAIN runs : j # i => rs[j] = runs[j]
    BY <1>2, <1>3
  <2>2. runs[i].at # "done" /\ rs[i].at = "done"
    BY <1>1, <1>4
  <2> QED
    BY <1>6, <1>7, <2>1, <2>2, UnsentLess
<1>10. l1 = Len(stream) + 1
  <2> HIDE DEF m
  <2> QED
    BY <1>1, <1>7, SequenceAppend DEF Inv, ShapeInv
<1>11. PICK w, u, l : w = Cardinality(Work(runs)) /\ u = Cardinality(Unsent(runs)) /\ l = Len(stream)
  OBVIOUS
<1>12. w \in Nat /\ u \in Nat /\ l \in Nat
  BY <1>1, <1>11, Scanning
<1>13. l1 \in Nat /\ u1 + l1 = u + l /\ u1 + l1 <= u + l /\ w1 <= w /\ w1 < w
  BY <1>8, <1>9, <1>10, <1>11, <1>12
<1>14. StepsLeft' < StepsLeft
  <2>1. Left(ended') <= Left(ended) /\ Left(closed') <= Left(closed)
    BY <1>1, LeftIs
  <2> QED
    BY <1>1, <1>3, <1>7, <1>8, <1>11, <1>13, <2>1, ScanLess
<1>15. RoomInv'
  <2>1. Providers' = Providers
    BY <1>1, Same
  <2>2. u + l <= Len(Providers)
    BY <1>1, <1>11 DEF RoomInv
  <2> QED
    BY <1>3, <1>7, <1>13, <2>1, <2>2 DEF RoomInv
<1> QED
  BY <1>14, <1>15

LEMMA CollectLess == ASSUME Inv, Collect PROVE StepsLeft' < StepsLeft /\ RoomInv'
<1>1. PICK e, c : e = Left(ended) /\ c = Left(closed)
  OBVIOUS
<1>2. /\ phase = "collect" /\ stream = <<>> /\ Requested /\ e \in 0..1 /\ c \in 0..1
      /\ UNCHANGED <<request, ended, stream, closed>>
  BY <1>1, LeftIs DEF Collect, Inv, ShapeInv, PhaseInv, channel
<1>3. Sequence(Providers) /\ Providers' = Providers
  BY <1>2, ProvidersAre, Same DEF IsProviders
<1>4. PICK N : N = Len(Providers)
  OBVIOUS
<1>5. N \in Nat
  BY <1>3, <1>4, SequenceDomain
<1>6. StepsLeft = 7 * N + e + c + 2
  BY <1>1, <1>2, <1>4, Zenon DEF StepsLeft
<1>7. CASE phase' = "scan" /\ runs' = [i \in DOMAIN Providers |-> Spawned(Providers[i])]
  <2>1. PICK rs, w, u : rs = runs' /\ w = Cardinality(Work(rs)) /\ u = Cardinality(Unsent(rs))
    OBVIOUS
  <2>2. DOMAIN rs = DOMAIN Providers
    BY <1>7, <2>1
  <2>3. w \in Nat /\ w <= 6 * N /\ u \in Nat /\ u <= N
    BY <1>3, <1>4, <2>1, <2>2, Sizes
  <2>4. Len(stream') = 0
    BY <1>2
  <2>5. StepsLeft' = w + u + 0 + e + c + 1
    <3>1. Left(ended') = e /\ Left(closed') = c
      BY <1>1, <1>2
    <3> QED
      BY <1>7, <2>1, <2>4, <3>1, Zenon DEF StepsLeft
  <2>6. w + u + 0 + e + c + 1 < 7 * N + e + c + 2
    BY <1>2, <1>5, <2>3
  <2>7. StepsLeft' < StepsLeft
    BY <1>6, <2>5, <2>6
  <2>8. RoomInv'
    <3>1. u + 0 <= N
      BY <1>5, <2>3
    <3>2. Cardinality(Unsent(runs')) + Len(stream') <= Len(Providers')
      BY <1>3, <1>4, <2>1, <2>4, <3>1
    <3> QED
      BY <3>2, Zenon DEF RoomInv
  <2> QED
    BY <2>7, <2>8
<1>8. CASE phase' = "returned"
  <2>1. StepsLeft' = 0
    BY <1>8 DEF StepsLeft
  <2>2. 0 < 7 * N + e + c + 2
    BY <1>2, <1>5
  <2>3. RoomInv'
    BY <1>8 DEF RoomInv
  <2> QED
    BY <1>6, <2>1, <2>2, <2>3
<1> QED
  BY <1>7, <1>8 DEF Collect

\* The deadline of the whole audit, or its caller's cancellation.
LEMMA EndedLess == ASSUME Inv, RoomInv, Cancel \/ Timeout PROVE StepsLeft' < StepsLeft /\ RoomInv'
<1>1. /\ phase \in {"collect", "scan"} /\ ~ended /\ ended' = TRUE
      /\ UNCHANGED <<request, phase, runs, stream, closed>>
  BY DEF Cancel, Timeout, channel
<1>2. Providers' = Providers /\ Requested
  BY <1>1, Same DEF Inv, ShapeInv
<1>3. PICK c : c = Left(closed)
  OBVIOUS
<1>4. c \in 0..1 /\ Left(ended) = 1 /\ Left(ended') = 0 /\ Left(closed') = c
  BY <1>1, <1>3, LeftIs DEF Left
<1>5. CASE phase = "collect"
  <2>1. PICK N : N = Len(Providers)
    OBVIOUS
  <2>2. N \in Nat
    BY <1>2, <2>1, ProvidersAre, SequenceDomain DEF IsProviders
  <2>3. StepsLeft = 7 * N + 1 + c + 2 /\ StepsLeft' = 7 * N + 0 + c + 2
    <3>1. StepsLeft = 7 * N + 1 + c + 2
      BY <1>3, <1>4, <1>5, <2>1, Zenon DEF StepsLeft
    <3>2. phase' = "collect" /\ Len(Providers') = N
      BY <1>1, <1>2, <1>5, <2>1
    <3>3. StepsLeft' = 7 * N + 0 + c + 2
      BY <1>4, <3>2, Zenon DEF StepsLeft
    <3> QED
      BY <3>1, <3>3
  <2>4. 7 * N + 0 + c + 2 < 7 * N + 1 + c + 2
    BY <1>4, <2>2
  <2>5. RoomInv'
    BY <1>1, <1>5 DEF RoomInv
  <2> QED
    BY <2>3, <2>4, <2>5
<1>6. CASE phase = "scan"
  <2>1. PICK w, u, l : /\ w = Cardinality(Work(runs)) /\ u = Cardinality(Unsent(runs))
                       /\ l = Len(stream)
    OBVIOUS
  <2>2. w \in Nat /\ u \in Nat /\ l \in Nat
    BY <1>6, <2>1, Scanning
  <2>3. /\ phase' = "scan" /\ w = Cardinality(Work(runs')) /\ u = Cardinality(Unsent(runs'))
        /\ l = Len(stream')
    BY <1>1, <1>6, <2>1
  <2>4. w <= w /\ u + l <= u + l
    BY <2>2
  <2>5. Left(ended') < Left(ended) /\ Left(ended') <= Left(ended) /\ Left(closed') <= Left(closed)
    BY <1>3, <1>4
  <2>6. StepsLeft' < StepsLeft
    BY <1>6, <2>1, <2>2, <2>3, <2>4, <2>5, ScanLess
  <2>7. RoomInv'
    <3>1. Cardinality(Unsent(runs')) + Len(stream') <= Len(Providers')
      BY <1>2, <1>6, <2>1, <2>3 DEF RoomInv
    <3> QED
      BY <3>1, Zenon DEF RoomInv
  <2> QED
    BY <2>6, <2>7
<1> QED
  BY <1>1, <1>5, <1>6

LEMMA StreamLess ==
  ASSUME Inv, RoomInv, Close \/ Drain \/ Return PROVE StepsLeft' < StepsLeft /\ RoomInv'
<1>1. phase = "scan" /\ UNCHANGED <<request, ended, runs>>
  BY DEF Close, Drain, Return
<1>2. PICK w, u, l : w = Cardinality(Work(runs)) /\ u = Cardinality(Unsent(runs)) /\ l = Len(stream)
  OBVIOUS
<1>3. w \in Nat /\ u \in Nat /\ l \in Nat
  BY <1>1, <1>2, Scanning
<1>4. /\ w = Cardinality(Work(runs')) /\ u = Cardinality(Unsent(runs')) /\ Providers' = Providers
      /\ w <= w /\ Left(ended') <= Left(ended)
  BY <1>1, <1>2, <1>3, Same, LeftIs
<1>5. CASE Close
  <2>1. phase' = "scan" /\ ~closed /\ closed' = TRUE /\ stream' = stream
    BY <1>5 DEF Close
  <2>2. Left(closed') < Left(closed) /\ Left(closed') <= Left(closed)
    BY <2>1 DEF Left
  <2>3. u + l <= u + l /\ l = Len(stream')
    BY <1>2, <1>3, <2>1
  <2>4. StepsLeft' < StepsLeft
    BY <1>1, <1>2, <1>3, <1>4, <2>1, <2>2, <2>3, ScanLess
  <2> QED
    BY <1>1, <1>2, <1>4, <2>1, <2>3, <2>4 DEF RoomInv
<1>6. CASE Drain
  <2>1. phase' = "scan" /\ closed' = closed /\ stream # <<>> /\ stream' = Tail(stream)
    BY <1>1, <1>6 DEF Drain
  <2>2. Sequence(stream') /\ Len(stream') = l - 1
    BY <1>2, <2>1, SequenceTail DEF Inv, ShapeInv
  <2>3. PICK l1 : l1 = Len(stream')
    OBVIOUS
  <2>4. l1 \in Nat /\ u + l1 < u + l /\ u + l1 <= u + l
    BY <1>3, <2>2, <2>3, SequenceDomain
  <2>5. Left(closed') <= Left(closed)
    BY <2>1, LeftIs
  <2>6. StepsLeft' < StepsLeft
    BY <1>1, <1>2, <1>3, <1>4, <2>1, <2>3, <2>4, <2>5, ScanLess
  <2>7. RoomInv'
    <3>1. u + l <= Len(Providers) /\ Len(Providers) \in Nat
      BY <1>1, <1>2, Scanning DEF RoomInv
    <3>2. u + l1 <= Len(Providers)
      BY <1>3, <2>4, <3>1
    <3>3. Cardinality(Unsent(runs')) + Len(stream') <= Len(Providers')
      BY <1>4, <2>3, <3>2
    <3> QED
      BY <3>3, Zenon DEF RoomInv
  <2> QED
    BY <2>6, <2>7
<1>7. CASE Return
  <2>1. phase' = "returned"
    BY <1>7 DEF Return
  <2>2. StepsLeft' = 0 /\ RoomInv'
    BY <2>1 DEF StepsLeft, RoomInv
  <2>3. PICK e, c : e = Left(ended) /\ c = Left(closed)
    OBVIOUS
  <2>4. e \in 0..1 /\ c \in 0..1
    BY <2>3, LeftIs
  <2>5. 0 < w + u + l + e + c + 1
    BY <1>3, <2>4
  <2>6. StepsLeft = w + u + l + e + c + 1
    BY <1>1, <1>2, <2>3, Scanning
  <2> QED
    BY <2>2, <2>5, <2>6
<1> QED
  BY <1>5, <1>6, <1>7

LEMMA NextLess == ASSUME Inv, RoomInv, Next PROVE StepsLeft' < StepsLeft /\ RoomInv'
<1>1. CASE Collect
  BY <1>1, CollectLess
<1>2. CASE Cancel \/ Timeout
  BY <1>2, EndedLess
<1>3. CASE Close \/ Drain \/ Return
  BY <1>3, StreamLess
<1>4. CASE \E i \in DOMAIN runs : Goroutine(i) \/ Hang(i) \/ ProviderTimeout(i)
  <2>1. PICK i \in DOMAIN runs : Goroutine(i) \/ Hang(i) \/ ProviderTimeout(i)
    BY <1>4
  <2>2. CASE Send(i)
    BY <2>2, SendLess
  <2>3. CASE Hang(i) \/ ProviderTimeout(i)
    BY <2>3, LateNearer, NearerLess
  <2>4. CASE Goroutine(i) /\ ~Send(i)
    BY <2>4, AdapterNearer, AnalyzerNearer, NearerLess DEF Goroutine
  <2> QED
    BY <2>1, <2>2, <2>3, <2>4
<1> QED
  BY <1>1, <1>2, <1>3, <1>4 DEF Next

\* Who is not done and has nothing to do is held up by a tool.
LEMMA ReadyUnlessWedged == ASSUME Inv, RoomInv, phase # "returned" PROVE Ready \/ Wedged
<1> SUFFICES ASSUME phase = "scan", ~Ready PROVE Wedged
  BY DEF Ready, Inv, ShapeInv
<1>1. PICK i \in DOMAIN runs : runs[i].at # "done"
  BY DEF Ready
<1>2. ~Runnable(i) /\ ~Pending(i) /\ ~(request.total /\ ~ended)
  BY DEF Ready
<1>3. runs[i].at \in Waiting \cup {"send", "held"}
  BY <1>1, <1>2, RunIs DEF Runnable, Waiting, Places, Answered
<1>4. runs[i].at # "send"
  <2>1. Len(stream) < Len(providers)
    <3>1. PICK u, l, N : u = Cardinality(Unsent(runs)) /\ l = Len(stream) /\ N = Len(Providers)
      OBVIOUS
    <3>2. u \in Nat /\ l \in Nat /\ N \in Nat /\ u + l <= N /\ providers = Providers
      BY <3>1, Scanning DEF RoomInv
    <3>3. u # 0
      <4>1. i \in Unsent(runs) /\ IsFiniteSet(Unsent(runs))
        BY <1>1, Scanning DEF Unsent
      <4> QED
        BY <3>1, <4>1, FS_EmptySet
    <3>4. l < N
      BY <3>2, <3>3
    <3> QED
      BY <3>1, <3>2, <3>4
  <2> QED
    BY <1>2, <2>1 DEF Runnable
<1>5. CASE runs[i].at = "held"
  BY <1>5 DEF Wedged
<1>6. CASE runs[i].at \in Waiting
  <2>1. runs[i].hung /\ ~ended /\ ~runs[i].late
    BY <1>2, <1>6 DEF Runnable, Done
  <2>2. ~request.total /\ ~request.each
    BY <1>2, <1>6, <2>1 DEF Pending, Waiting
  <2> QED
    BY <2>1, <2>2 DEF Wedged
<1> QED
  BY <1>3, <1>4, <1>5, <1>6

LEMMA Bounded == ASSUME Inv, RoomInv PROVE StepsLeft \in 0..(7 * Len(Providers) + 4)
<1>1. PICK N, e, c : N = Len(Providers) /\ e = Left(ended) /\ c = Left(closed)
  OBVIOUS
<1>2. N \in Nat /\ e \in 0..1 /\ c \in 0..1
  BY <1>1, ProvidersAre, SequenceDomain, LeftIs DEF Inv, ShapeInv, IsProviders
<1>3. CASE phase = "collect"
  <2>1. StepsLeft = 7 * N + e + c + 2
    BY <1>1, <1>3, Zenon DEF StepsLeft
  <2>2. 7 * N + e + c + 2 \in 0..(7 * N + 4)
    BY <1>2
  <2> QED
    BY <1>1, <2>1, <2>2
<1>4. CASE phase = "scan"
  <2>1. PICK w, u, l : /\ w = Cardinality(Work(runs)) /\ u = Cardinality(Unsent(runs))
                       /\ l = Len(stream)
    OBVIOUS
  <2>2. w \in Nat /\ u \in Nat /\ l \in Nat /\ w <= 6 * N /\ u + l <= N
    BY <1>1, <1>4, <2>1, Scanning DEF RoomInv
  <2>3. w + u + l + e + c + 1 \in 0..(7 * N + 4)
    BY <1>2, <2>2
  <2>4. StepsLeft = w + u + l + e + c + 1
    BY <1>1, <1>4, <2>1, Scanning
  <2> QED
    BY <1>1, <2>3, <2>4
<1>5. CASE phase = "returned"
  <2>1. StepsLeft = 0
    BY <1>5 DEF StepsLeft
  <2>2. 0 \in 0..(7 * N + 4)
    BY <1>2
  <2> QED
    BY <1>1, <2>1, <2>2
<1> QED
  BY <1>3, <1>4, <1>5 DEF Inv, ShapeInv

\* An audit that has not returned has a step to take, unless a tool hangs without a deadline
\* or is held up by its child; no result ever waits for room in the stream; and whoever takes
\* a step, be it a deadline, a cancellation or a tool that stops to answer, an audit of N
\* providers takes at most 7 * N + 4 of them (orchestrator.go:30-66, runner.go:296-317).
THEOREM ScanProgress ==
  Spec => /\ [](/\ StepsLeft \in 0..(7 * Len(Providers) + 4)
                /\ phase # "returned" => Ready \/ Wedged
                /\ RoomInv)
          /\ [][StepsLeft' < StepsLeft]_vars
<1> DEFINE Held == /\ StepsLeft \in 0..(7 * Len(Providers) + 4)
                   /\ phase # "returned" => Ready \/ Wedged
                   /\ RoomInv
           Lower == StepsLeft' < StepsLeft
<1>1. Init => RoomInv
  BY DEF Init, RoomInv
<1>2. Inv /\ RoomInv /\ [Next]_vars => RoomInv' /\ [Lower]_vars
  <2> SUFFICES ASSUME Inv, RoomInv, [Next]_vars PROVE RoomInv' /\ [Lower]_vars
    OBVIOUS
  <2>1. CASE Next
    BY <2>1, NextLess
  <2>2. CASE UNCHANGED vars
    <3>1. UNCHANGED <<request, phase, runs, stream>>
      BY <2>2 DEF vars, channel
    <3>2. Providers' = Providers
      BY <3>1, Same
    <3> QED
      BY <2>2, <3>1, <3>2 DEF RoomInv
  <2> QED
    BY <2>1, <2>2
<1>3. Inv /\ RoomInv => Held
  BY Bounded, ReadyUnlessWedged
<1> HIDE DEF Held, Lower
<1>4. Spec => []Held /\ [][Lower]_vars
  BY <1>1, <1>2, <1>3, InvAlways, PTL DEF Spec
<1> QED
  BY <1>4 DEF Held, Lower
=============================================================================
