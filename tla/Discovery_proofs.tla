--------------------------- MODULE Discovery_proofs ---------------------------
(***************************************************************************)
(* Discovery loses nothing silently, warns truthfully and accounts for the *)
(* regions it skipped, for any account, types, regions and workers; and it *)
(* is never stuck, each step of it leaving less to do.                     *)
(***************************************************************************)
EXTENDS Discovery, FiniteSetTheorems, WellFoundedInduction, TLAPS

-----------------------------------------------------------------------------
(* Keep: what it keeps.  Its recursion is unfolded by least counterexample.   *)

\* One step of KeptUpTo's recursion, for a function f.
Following(s, S, f, n) == 
          IF n = 0 THEN <<>>
          ELSE IF s[n] \in S THEN Append(f[n - 1], s[n]) ELSE f[n - 1]

\* The least element of a set of naturals.
LEMMA Least == ASSUME NEW T, T \subseteq Nat, T # {} PROVE \E x \in T : \A y \in T : ~(y < x)
<1> DEFINE Less == OpToRel(<, Nat)
<1>1. IsWellFoundedOn(Less, Nat)
  BY NatLessThanWellFounded
<1>2. PICK x \in T : \A y \in T : <<y, x>> \notin Less
  <2> HIDE DEF Less
  <2> QED
    BY <1>1, WFMin
<1>3. \A y \in T : y < x => <<y, x>> \in Less
  BY DEF OpToRel
<1> QED
  BY <1>2, <1>3

LEMMA KeptUpToUnfolds ==
  ASSUME NEW R, NEW s \in Seq(R), NEW S
  PROVE  KeptUpTo(s, S) = [n \in 0..Len(s) |-> Following(s, S, KeptUpTo(s, S), n)]
<1> DEFINE Good(k) == \E g : g = [n \in 0..k |-> Following(s, S, g, n)]
           Bad == {k \in Nat : ~Good(k)}
<1>1. Good(0)
  <2> DEFINE g == [n \in 0..0 |-> <<>>]
  <2>1. g = [n \in 0..0 |-> Following(s, S, g, n)]
    BY DEF Following
  <2> QED
    BY <2>1
<1>2. ASSUME NEW k \in Nat, k > 0, Good(k - 1) PROVE Good(k)
  <2>1. PICK g : g = [n \in 0..k-1 |-> Following(s, S, g, n)]
    BY <1>2
  <2> DEFINE last == IF s[k] \in S THEN Append(g[k - 1], s[k]) ELSE g[k - 1]
             h == [n \in 0..k |-> IF n = k THEN last ELSE g[n]]
  <2>2. \A n \in 0..k : h[n] = Following(s, S, h, n)
    <3>1. \A n \in 0..k-1 : h[n] = Following(s, S, g, n) /\ g[n] = h[n]
      BY <2>1
    <3>2. \A n \in 0..k-1 : Following(s, S, g, n) = Following(s, S, h, n)
      <4> TAKE n \in 0..k-1
      <4>1. CASE n = 0
        BY <4>1 DEF Following
      <4>2. CASE n # 0
        <5>1. g[n - 1] = h[n - 1]
          BY <3>1, <4>2
        <5> HIDE DEF h
        <5> QED
          BY <4>2, <5>1 DEF Following
      <4> QED
        BY <4>1, <4>2
    <3>3. h[k] = Following(s, S, h, k)
      <4>1. h[k] = last /\ h[k - 1] = g[k - 1]
        BY <1>2
      <4> HIDE DEF h
      <4> QED
        BY <1>2, <4>1 DEF Following
    <3> HIDE DEF h
    <3> QED
      BY <3>1, <3>2, <3>3
  <2>3. h = [n \in 0..k |-> Following(s, S, h, n)]
    <3>1. h = [n \in 0..k |-> h[n]]
      OBVIOUS
    <3> HIDE DEF h
    <3> QED
      BY <2>2, <3>1
  <2> QED
    BY <2>3
<1>3. Bad = {}
  <2> SUFFICES ASSUME Bad # {} PROVE FALSE
    OBVIOUS
  <2>1. PICK k \in Bad : \A j \in Bad : ~(j < k)
    BY Least
  <2>2. k \in Nat /\ k # 0 /\ ~Good(k)
    BY <1>1, <2>1
  <2>3. Good(k - 1)
    BY <2>1, <2>2
  <2> QED
    BY <1>2, <2>2, <2>3
<1>4. PICK g : g = [n \in 0..Len(s) |-> Following(s, S, g, n)]
  BY <1>3
<1>5. KeptUpTo(s, S) = CHOOSE f : f = [n \in 0..Len(s) |-> Following(s, S, f, n)]
  BY Zenon DEF KeptUpTo, Following
<1> QED
  BY <1>4, <1>5, Zenon

LEMMA AppendIs ==
  ASSUME NEW R, NEW t \in Seq(R), NEW x \in R
  PROVE  Append(t, x) \in Seq(R) /\ InSeq(Append(t, x)) = InSeq(t) \cup {x}
<1>1. /\ Append(t, x) \in Seq(R) /\ Len(Append(t, x)) = Len(t) + 1
      /\ Append(t, x)[Len(t) + 1] = x /\ \A i \in 1..Len(t) : Append(t, x)[i] = t[i]
  OBVIOUS
<1>2. InSeq(t) = {t[i] : i \in 1..Len(t)} /\ InSeq(Append(t, x)) = {Append(t, x)[i] : i \in 1..Len(t) + 1}
  BY <1>1 DEF InSeq
<1>3. Len(t) \in Nat
  OBVIOUS
<1> DEFINE u == Append(t, x)
<1> HIDE DEF u
<1>4. {u[i] : i \in 1..Len(t) + 1} = {u[i] : i \in 1..Len(t)} \cup {u[Len(t) + 1]}
  BY <1>3
<1>5. {u[i] : i \in 1..Len(t)} = {t[i] : i \in 1..Len(t)}
  BY <1>1 DEF u
<1> QED
  BY <1>1, <1>2, <1>4, <1>5 DEF u

\* Keep keeps the members of S.
LEMMA KeepIs ==
  ASSUME NEW R, NEW s \in Seq(R), NEW S
  PROVE  Keep(s, S) \in Seq(R) /\ InSeq(Keep(s, S)) = InSeq(s) \cap S
<1> DEFINE f == KeptUpTo(s, S)
           Right(n) == f[n] \in Seq(R) /\ InSeq(f[n]) = {s[i] : i \in 1..n} \cap S
           Wrong == {n \in 0..Len(s) : ~Right(n)}
<1>1. /\ f[0] = <<>>
      /\ \A n \in 1..Len(s) : f[n] = IF s[n] \in S THEN Append(f[n - 1], s[n]) ELSE f[n - 1]
  <2>1. \A n \in 0..Len(s) : f[n] = Following(s, S, f, n)
    BY KeptUpToUnfolds
  <2> HIDE DEF f
  <2> QED
    BY <2>1 DEF Following
<1> HIDE DEF f
<1>2. Right(0)
  BY <1>1 DEF InSeq
<1>3. ASSUME NEW n \in 1..Len(s), Right(n - 1) PROVE Right(n)
  <2>1. s[n] \in R
    OBVIOUS
  <2>2. {s[i] : i \in 1..n} = {s[i] : i \in 1..n-1} \cup {s[n]}
    OBVIOUS
  <2>3. CASE s[n] \in S
    <3>1. f[n] = Append(f[n - 1], s[n])
      BY <1>1, <2>3
    <3>2. f[n] \in Seq(R) /\ InSeq(f[n]) = InSeq(f[n - 1]) \cup {s[n]}
      BY <1>3, <2>1, <3>1, AppendIs
    <3> QED
      BY <1>3, <2>2, <2>3, <3>1, <3>2
  <2>4. CASE s[n] \notin S
    BY <1>1, <1>3, <2>2, <2>4
  <2> QED
    BY <2>3, <2>4
<1>4. Wrong = {}
  <2> SUFFICES ASSUME Wrong # {} PROVE FALSE
    OBVIOUS
  <2>1. PICK n \in Wrong : \A m \in Wrong : ~(m < n)
    <3>1. Wrong \subseteq Nat
      OBVIOUS
    <3> HIDE DEF Wrong
    <3> QED
      BY <3>1, Least
  <2>2. n # 0 /\ n \in 1..Len(s)
    BY <1>2, <2>1
  <2>3. Right(n - 1)
    <3>1. n - 1 \in 0..Len(s) /\ n - 1 < n
      BY <2>2
    <3> QED
      BY <2>1, <3>1
  <2> QED
    BY <1>3, <2>1, <2>2, <2>3
<1>5. Right(Len(s))
  <2>1. Len(s) \in 0..Len(s)
    OBVIOUS
  <2> QED
    BY <1>4, <2>1
<1> QED
  BY <1>5 DEF Keep, InSeq, f

-----------------------------------------------------------------------------
(* The inductive invariant. *)

InHand(c) == \E w \in Workers : c \in job[w]
Waiting(c) == c \in queue \/ InHand(c)

\* Nothing has been listed yet, or nothing will be.
Early == phase \in {"preflight", "regions", "scout", "plan", "failed"} \/ (phase = "done" /\ dry)
EarlyInv ==
    /\ phase \in {"discover", "reprobe"} => ~dry
    /\ Early =>
         /\ found = {} /\ candidates = {} /\ warnings = {} /\ truth = {} /\ silent = {}
         /\ blind = {} /\ \A e \in errs : e[2] = "scout"
         /\ queue = {} /\ closed /\ exited = Workers

\* The pool: a worker holds one cell, no two the same; the channel is closed when all cells
\* are out or the context has ended, and a worker leaves with nothing in its hands.
PoolInv ==
    /\ closed => queue = {} \/ ended
    /\ exited # {} => closed
    /\ phase = "done" => exited = Workers
    /\ \A w \in Workers :
         /\ w \in exited => job[w] = {}
         /\ job[w] = {} \/ \E c \in Cells : job[w] = {c}
         /\ job[w] \cap queue = {}
         /\ phase = "reprobe" => job[w] \subseteq candidates
         /\ \A v \in Workers : v # w => job[w] \cap job[v] = {}
    /\ phase = "reprobe" => queue \subseteq candidates

\* A cell still to be listed has left no trace, and a candidate none but itself.
Untouched(c) == (\A i \in Ids : <<c, i>> \notin found) /\ <<c[1], c[2], "list">> \notin errs
CellInv ==
    /\ phase = "discover" =>
         /\ warnings = {} /\ blind = {}
         /\ \A c \in Cells : Waiting(c) => c \notin candidates /\ Untouched(c)
    /\ \A c \in candidates : Untouched(c)

WarnedInv == \A x \in warnings : \E c \in candidates : x = <<Home(c), c[2]>> /\ Kept(c) # {}

\* What has become of each cell.
Listed(c) == \A i \in Kept(c) : <<Home(c), c[2], i>> \notin Growth => <<c, i>> \in truth
ListedInv ==
    /\ phase = "discover" => \A c \in Jobs : Waiting(c) \/ Listed(c)
    /\ (phase = "reprobe" \/ Scanned) /\ ~ended => \A c \in Jobs : Listed(c)

Excused(c) ==
    \/ Reported(c)
    \/ c \in silent /\ ((\E i \in Ids : <<c, i>> \in found) \/ Kind[c[2]] = "uncurated" \/ c \in candidates)
LossInv == \A x \in truth \ found : Excused(x[1])

ReprobeInv ==
    (phase = "reprobe" \/ Scanned) /\ ~ended =>
      \A c \in candidates : Waiting(c) \/ Warned(c) \/ c \in blind

\* The scout: a failed probe is in the result, and a region left out showed no life.
ScoutInv ==
    /\ \A r \in Regions : probed[r].err => <<r, "scout", "list">> \in errs
    /\ phase = "scout" => regions = Enabled
    /\ want = "all" /\ phase \notin {"preflight", "regions", "failed"} =>
         /\ regions # <<>>
         /\ \A r \in InSeq(Enabled) \ InSeq(regions) : ~probed[r].alive

Inv == /\ EarlyInv /\ PoolInv /\ CellInv /\ WarnedInv /\ ListedInv /\ LossInv
       /\ ReprobeInv /\ ScoutInv

-----------------------------------------------------------------------------
(* Constants and types. *)

LEMMA InSeqType == ASSUME NEW R, NEW s \in Seq(R) PROVE InSeq(s) \subseteq R
  BY DEF InSeq

LEMMA WorkersExist == Workers # {}
<1>1. 1 \in 1..Concurrency
  BY DiscoveryAssumption
<1> QED
  BY <1>1 DEF Workers

LEMMA TypesAreNoScout == "scout" \notin Types
  BY DiscoveryAssumption

LEMMA RegionLists == Enabled \in Seq(Regions) /\ Named \in Seq(Regions) /\ Enabled # <<>>
  BY DiscoveryAssumption

LEMMA JobsAreCells == TypeOK => Jobs \subseteq Cells
<1> SUFFICES ASSUME TypeOK PROVE Jobs \subseteq Cells
  OBVIOUS
<1>1. InSeq(regions) \subseteq Regions
  <2>1. regions \in Seq(Regions)
    BY DEF TypeOK
  <2> QED
    BY <2>1, InSeqType
<1> QED
  BY <1>1 DEF Jobs, Cells

\* Distinct cells have distinct errors.
LEMMA CellsDiffer ==
  ASSUME NEW c \in Cells, NEW d \in Cells, c[1] = d[1], c[2] = d[2] PROVE c = d
  BY DEF Cells

-----------------------------------------------------------------------------
(* What does not change what is kept of the result. *)

LEMMA ResultKept ==
  ASSUME TypeOK, Inv, UNCHANGED result, there \subseteq there'
  PROVE  WarnedInv' /\ LossInv' /\ \A c \in candidates' : Untouched(c)'
<1>1. ASSUME NEW c PROVE Kept(c) \subseteq Kept(c)'
  BY DEF Kept, Held
<1>2. WarnedInv'
  <2>1. WarnedInv /\ warnings' = warnings /\ candidates' = candidates
    BY DEF Inv, result
  <2> QED
    BY <1>1, <2>1 DEF WarnedInv
<1>3. LossInv'
  <2>1. LossInv /\ UNCHANGED <<truth, found, errs, silent, candidates>>
    BY DEF Inv, result
  <2> QED
    BY <2>1 DEF LossInv, Excused, Reported
<1>4. \A c \in candidates' : Untouched(c)'
  <2>1. CellInv /\ UNCHANGED <<found, errs, candidates>>
    BY DEF Inv, result
  <2> QED
    BY <2>1 DEF CellInv, Untouched
<1> QED
  BY <1>2, <1>3, <1>4

-----------------------------------------------------------------------------
(* The start. *)

LEMMA InitType == Init => TypeOK
<1> SUFFICES ASSUME Init PROVE TypeOK
  OBVIOUS
<1>1. there \subseteq Homes \X Types \X Ids
  <2>1. Accounts \subseteq SUBSET Places
    BY DiscoveryAssumption
  <2>2. Places \subseteq Homes \X Types \X Ids
    BY DEF Places
  <2> QED
    BY <2>1, <2>2 DEF Init
<1>2. regions \in Seq(Regions)
  BY DEF Init
<1>3. probed \in [Regions -> [alive : BOOLEAN, err : BOOLEAN, over : BOOLEAN]]
  BY DEF Init, NotProbed
<1>4. job \in [Workers -> SUBSET Cells] /\ exited \subseteq Workers
  BY DEF Init
<1> QED
  BY <1>1, <1>2, <1>3, <1>4 DEF Init, TypeOK

LEMMA InitInv == Init => Inv
<1> SUFFICES ASSUME Init PROVE Inv
  OBVIOUS
<1>1. EarlyInv /\ CellInv /\ WarnedInv /\ LossInv
  BY DEF Init, EarlyInv, CellInv, WarnedInv, LossInv
<1>2. PoolInv
  BY DEF Init, PoolInv
<1>3. ListedInv /\ ReprobeInv
  BY DEF Init, ListedInv, ReprobeInv, Scanned
<1>4. ScoutInv
  BY DEF Init, ScoutInv, NotProbed
<1> QED
  BY <1>1, <1>2, <1>3, <1>4 DEF Inv

-----------------------------------------------------------------------------
(* Preflight, regions and scout. *)

\* A step of the early phases that leaves pool and result alone.
LEMMA EarlyKeeps ==
  ASSUME TypeOK, Inv, Early, Early', UNCHANGED <<there, want, dry, pool, result>>,
         ScoutInv', phase' # "reprobe" /\ phase' # "discover"
  PROVE  Inv'
<1>1. EarlyInv'
  <2>1. EarlyInv
    BY DEF Inv
  <2> QED
    BY <2>1 DEF EarlyInv, pool, result
<1>2. /\ queue' = {} /\ closed' /\ exited' = Workers /\ candidates' = {}
      /\ UNCHANGED <<job, exited, queue>>
  BY DEF Inv, EarlyInv, pool, result
<1>3. PoolInv'
  <2>1. PoolInv
    BY DEF Inv
  <2> QED
    BY <1>2, <2>1 DEF PoolInv
<1>4. WarnedInv' /\ LossInv' /\ CellInv'
  <2>1. WarnedInv' /\ LossInv' /\ \A c \in candidates' : Untouched(c)'
    BY ResultKept
  <2> QED
    BY <2>1 DEF CellInv
<1>5. phase' = "done" => dry'
  BY DEF Early
<1>6. ListedInv' /\ ReprobeInv'
  BY <1>5 DEF ListedInv, ReprobeInv, Scanned
<1> QED
  BY <1>1, <1>3, <1>4, <1>6 DEF Inv

LEMMA PreflightKeeps == TypeOK /\ Inv /\ (Preflight \/ Fail) => TypeOK' /\ Inv'
<1> SUFFICES ASSUME TypeOK, Inv, Preflight \/ Fail PROVE TypeOK' /\ Inv'
  OBVIOUS
<1>1. /\ phase \in {"preflight", "regions"} /\ phase' \in {"regions", "failed"}
      /\ UNCHANGED <<there, ended, want, dry, regions, probed, pool, result>>
  BY DEF Preflight, Fail
<1>2. TypeOK'
  BY <1>1 DEF TypeOK, pool, result
<1>3. ScoutInv'
  <2>1. ScoutInv /\ UNCHANGED <<errs, probed>>
    BY <1>1 DEF Inv, result
  <2> QED
    BY <1>1, <2>1 DEF ScoutInv
<1>4. Early /\ Early'
  BY <1>1 DEF Early
<1> QED
  BY <1>1, <1>2, <1>3, <1>4, EarlyKeeps

LEMMA ResolveRegionsKeeps == TypeOK /\ Inv /\ ResolveRegions => TypeOK' /\ Inv'
<1> SUFFICES ASSUME TypeOK, Inv, ResolveRegions PROVE TypeOK' /\ Inv'
  OBVIOUS
<1>1. /\ phase = "regions" /\ phase' \in {"scout", "plan"}
      /\ phase' = "scout" => want = "all"
      /\ UNCHANGED <<there, ended, want, dry, probed, pool, result>>
  BY DEF ResolveRegions
<1>2. want \in {"named", "all", "prompt"}
  <2>1. Wants \subseteq {"named", "all", "prompt", "none"}
    BY DiscoveryAssumption
  <2> QED
    BY <2>1 DEF ResolveRegions, TypeOK
<1>3. want = "all" => regions' = Enabled
  BY DEF ResolveRegions
<1>4. regions' \in Seq(Regions)
  <2>1. CASE want = "named"
    BY <2>1, RegionLists DEF ResolveRegions
  <2>2. CASE want = "all"
    BY <1>3, <2>2, RegionLists
  <2>3. CASE want = "prompt"
    <3>1. PICK S \in (SUBSET InSeq(Enabled)) \ {{}} : regions' = Keep(Enabled, S)
      BY <2>3 DEF ResolveRegions
    <3> QED
      BY <3>1, KeepIs, RegionLists
  <2> QED
    BY <1>2, <2>1, <2>2, <2>3
<1>5. TypeOK'
  BY <1>1, <1>4 DEF TypeOK, pool, result
<1>6. ScoutInv'
  <2>1. ScoutInv /\ UNCHANGED <<errs, probed, want>>
    BY <1>1 DEF Inv, result
  <2> QED
    BY <1>1, <1>3, <2>1, RegionLists DEF ScoutInv
<1>7. Early /\ Early'
  BY <1>1 DEF Early
<1> QED
  BY <1>1, <1>5, <1>6, <1>7, EarlyKeeps

LEMMA ProbeRegionKeeps ==
  ASSUME TypeOK, Inv, NEW r \in Regions, ProbeRegion(r) PROVE TypeOK' /\ Inv'
<1>1. /\ phase = "scout"
      /\ UNCHANGED <<there, ended, phase, want, dry, regions, pool,
                     found, candidates, warnings, truth, silent, blind, unfetched>>
  BY DEF ProbeRegion
<1>2. PICK alive \in BOOLEAN, err \in BOOLEAN :
        /\ probed' = [probed EXCEPT ![r] = [alive |-> alive, err |-> err, over |-> TRUE]]
        /\ errs' = errs \cup {e \in {<<r, "scout", "list">>} : err}
  BY DEF ProbeRegion
<1>3. TypeOK'
  <2>1. probed' \in [Regions -> [alive : BOOLEAN, err : BOOLEAN, over : BOOLEAN]]
    BY <1>2 DEF TypeOK
  <2>2. errs' \subseteq Regions \X (Types \cup {"scout"}) \X {"list", "other"}
    BY <1>2 DEF TypeOK
  <2> QED
    BY <1>1, <2>1, <2>2 DEF TypeOK, pool
<1>4. Early /\ EarlyInv /\ PoolInv /\ ScoutInv
  BY <1>1 DEF Early, Inv
<1>5. EarlyInv'
  <2>1. \A e \in errs' : e[2] = "scout"
    BY <1>2, <1>4 DEF EarlyInv
  <2> QED
    BY <1>1, <1>4, <2>1 DEF EarlyInv, pool
<1>6. PoolInv'
  BY <1>1, <1>4 DEF PoolInv, pool
<1>7. CellInv' /\ WarnedInv' /\ LossInv' /\ ListedInv' /\ ReprobeInv'
  <2>1. candidates' = {} /\ warnings' = {} /\ truth' = {} /\ phase' = "scout"
    BY <1>1, <1>4 DEF EarlyInv
  <2> QED
    BY <2>1 DEF CellInv, WarnedInv, LossInv, ListedInv, ReprobeInv, Scanned
<1>8. ScoutInv'
  <2>1. \A s \in Regions : probed'[s].err => <<s, "scout", "list">> \in errs'
    <3> TAKE s \in Regions
    <3>1. CASE s = r
      <4>1. probed'[r].err = err
        BY <1>2 DEF TypeOK
      <4> QED
        BY <1>2, <3>1, <4>1
    <3>2. CASE s # r
      <4>1. probed'[s] = probed[s]
        BY <1>2, <3>2 DEF TypeOK
      <4> QED
        BY <1>2, <1>4, <4>1 DEF ScoutInv
    <3> QED
      BY <3>1, <3>2
  <2>2. regions' = Enabled /\ regions' # <<>>
    BY <1>1, <1>4, RegionLists DEF ScoutInv
  <2> QED
    BY <2>1, <2>2 DEF ScoutInv
<1> QED
  BY <1>3, <1>5, <1>6, <1>7, <1>8 DEF Inv

LEMMA ScoutDoneKeeps == TypeOK /\ Inv /\ ScoutDone => TypeOK' /\ Inv'
<1> SUFFICES ASSUME TypeOK, Inv, ScoutDone PROVE TypeOK' /\ Inv'
  OBVIOUS
<1>1. /\ phase = "scout" /\ phase' = "plan"
      /\ regions' = IF Active = <<>> THEN regions ELSE Active
      /\ UNCHANGED <<there, ended, want, dry, probed, pool, result>>
  BY DEF ScoutDone
<1>2. regions = Enabled
  BY <1>1 DEF Inv, ScoutInv
<1> DEFINE Living == {r \in Regions : probed[r].alive}
<1>3. Active \in Seq(Regions) /\ InSeq(Active) = InSeq(Enabled) \cap Living
  <2>1. Keep(Enabled, Living) \in Seq(Regions)
        /\ InSeq(Keep(Enabled, Living)) = InSeq(Enabled) \cap Living
    BY KeepIs, RegionLists
  <2> QED
    BY <1>2, <2>1 DEF Active
<1>4. TypeOK'
  <2>1. regions' \in Seq(Regions)
    BY <1>1, <1>3 DEF TypeOK
  <2> QED
    BY <1>1, <2>1 DEF TypeOK, pool, result
<1>5. ScoutInv'
  <2>1. ScoutInv /\ UNCHANGED <<errs, probed>>
    BY <1>1 DEF Inv, result
  <2>2. regions' # <<>>
    BY <1>1, <1>2, RegionLists
  <2>3. InSeq(Enabled) \subseteq Regions
    BY InSeqType, RegionLists
  <2>4. \A r \in InSeq(Enabled) \ InSeq(regions') : ~probed[r].alive
    BY <1>1, <1>2, <1>3, <2>3
  <2> QED
    BY <1>1, <2>1, <2>2, <2>4 DEF ScoutInv
<1>6. Early /\ Early'
  BY <1>1 DEF Early
<1> QED
  BY <1>1, <1>4, <1>5, <1>6, EarlyKeeps

-----------------------------------------------------------------------------
(* The pool. *)

LEMMA PlanKeeps == TypeOK /\ Inv /\ Plan => TypeOK' /\ Inv'
<1> SUFFICES ASSUME TypeOK, Inv, Plan PROVE TypeOK' /\ Inv'
  OBVIOUS
<1>1. /\ phase = "plan" /\ UNCHANGED <<there, ended, want, dry, regions, probed, result>>
      /\ Early /\ EarlyInv /\ ScoutInv
  BY DEF Plan, Early, Inv
<1>2. CASE dry /\ phase' = "done" /\ UNCHANGED pool
  <2>1. TypeOK'
    BY <1>1, <1>2 DEF TypeOK, pool, result
  <2>2. ScoutInv'
    BY <1>1, <1>2 DEF ScoutInv, result
  <2>3. Early'
    BY <1>1, <1>2 DEF Early
  <2> QED
    BY <1>1, <1>2, <2>1, <2>2, <2>3, EarlyKeeps
<1>3. CASE ~dry /\ phase' = "discover" /\ Launch(Jobs)
  <2>1. queue' = Jobs /\ ~closed' /\ exited' = {} /\ job' = [w \in Workers |-> {}]
    BY <1>3 DEF Launch
  <2>2. TypeOK'
    <3>1. job' \in [Workers -> SUBSET Cells] /\ queue' \subseteq Cells /\ closed' \in BOOLEAN
      BY <1>3, <2>1, JobsAreCells DEF Launch
    <3> QED
      BY <1>1, <1>3, <2>1, <3>1 DEF TypeOK, result
  <2>3. /\ found' = {} /\ candidates' = {} /\ warnings' = {} /\ truth' = {} /\ blind' = {}
        /\ \A e \in errs' : e[2] = "scout"
    BY <1>1 DEF EarlyInv, result
  <2>4. EarlyInv'
    BY <1>1, <1>3 DEF EarlyInv, Early
  <2>5. PoolInv'
    BY <1>3, <2>1 DEF PoolInv
  <2>6. CellInv'
    <3>1. \A c \in Cells : Untouched(c)'
      BY <2>3, TypesAreNoScout DEF Untouched, Cells
    <3> QED
      BY <2>3, <3>1 DEF CellInv
  <2>7. WarnedInv' /\ LossInv'
    BY <2>3 DEF WarnedInv, LossInv
  <2>8. ListedInv'
    <3>1. Jobs' = queue'
      BY <1>1, <2>1 DEF Jobs
    <3> QED
      BY <1>3, <3>1 DEF ListedInv, Waiting, Scanned
  <2>9. ReprobeInv'
    BY <1>3 DEF ReprobeInv, Scanned
  <2>10. ScoutInv'
    BY <1>1, <1>3 DEF ScoutInv, result
  <2> QED
    BY <2>2, <2>4, <2>5, <2>6, <2>7, <2>8, <2>9, <2>10 DEF Inv
<1> QED
  BY <1>2, <1>3 DEF Plan

\* A step of the pool that moves cells about leaves who waits alone.
LEMMA MoveKeeps ==
  ASSUME TypeOK, Inv, PoolInv',
         UNCHANGED <<there, phase, want, dry, regions, probed, result>>,
         ended => ended', ~Early,
         \A c \in Cells : Waiting(c)' <=> Waiting(c)
  PROVE  Inv'
<1>1. EarlyInv'
  BY DEF Inv, EarlyInv, Early
<1>2. WarnedInv' /\ LossInv' /\ \A c \in candidates' : Untouched(c)'
  BY ResultKept
<1>3. CellInv'
  <2>1. CellInv /\ UNCHANGED <<phase, warnings, blind, candidates, found, errs>>
    BY DEF Inv, result
  <2> QED
    BY <1>2, <2>1 DEF CellInv, Untouched
<1>4. \A c : Listed(c)' <=> Listed(c)
  BY DEF Listed, Kept, Held, result
<1>5. ListedInv'
  <2>1. Jobs' = Jobs /\ Jobs \subseteq Cells
    BY JobsAreCells DEF Jobs
  <2>2. Scanned' = Scanned
    BY DEF Scanned
  <2>3. ListedInv
    BY DEF Inv
  <2> QED
    BY <1>4, <2>1, <2>2, <2>3 DEF ListedInv
<1>6. ReprobeInv'
  <2>1. Scanned' = Scanned
    BY DEF Scanned
  <2>2. ReprobeInv /\ UNCHANGED <<warnings, candidates, blind>> /\ candidates \subseteq Cells
    BY DEF Inv, result, TypeOK
  <2> QED
    BY <2>1, <2>2 DEF ReprobeInv, Warned
<1>7. ScoutInv'
  BY DEF Inv, ScoutInv, result
<1> QED
  BY <1>1, <1>2, <1>3, <1>5, <1>6, <1>7 DEF Inv

LEMMA HandoffKeeps ==
  ASSUME TypeOK, Inv, NEW w \in Workers, Handoff(w) PROVE TypeOK' /\ Inv'
<1>1. PICK c \in queue : job' = [job EXCEPT ![w] = {c}] /\ queue' = queue \ {c}
  <2>1. queue # {}
    BY DEF Handoff
  <2>2. (CHOOSE c \in queue : TRUE) \in queue
    BY <2>1
  <2> QED
    BY <2>2 DEF Handoff
<1>2. /\ ~closed /\ job[w] = {} /\ w \notin exited
      /\ UNCHANGED <<there, ended, phase, want, dry, regions, probed, closed, exited, result>>
  BY DEF Handoff
<1>3. c \in Cells /\ job \in [Workers -> SUBSET Cells]
  BY DEF TypeOK
<1>4. TypeOK'
  <2>1. job' \in [Workers -> SUBSET Cells] /\ queue' \subseteq Cells
    BY <1>1, <1>3 DEF TypeOK
  <2> QED
    BY <1>2, <2>1 DEF TypeOK, result
<1>5. ~Early
  BY <1>2 DEF Inv, EarlyInv
<1>6. job'[w] = {c} /\ \A v \in Workers : v # w => job'[v] = job[v]
  BY <1>1, <1>3
<1>7. PoolInv /\ c \notin queue' /\ queue' \subseteq queue /\ \A v \in Workers : c \notin job[v]
  BY <1>1 DEF Inv, PoolInv
<1>8. PoolInv'
  <2>1. /\ closed' => queue' = {} \/ ended'
        /\ exited' # {} => closed'
        /\ phase' = "done" => exited' = Workers
        /\ phase' = "reprobe" => queue' \subseteq candidates'
    BY <1>2, <1>7 DEF PoolInv, result
  <2>2. ASSUME NEW v \in Workers
        PROVE  /\ v \in exited' => job'[v] = {}
               /\ job'[v] = {} \/ \E d \in Cells : job'[v] = {d}
               /\ job'[v] \cap queue' = {}
               /\ phase' = "reprobe" => job'[v] \subseteq candidates'
    <3>1. CASE v = w
      BY <1>1, <1>2, <1>3, <1>6, <1>7, <3>1 DEF PoolInv, result
    <3>2. CASE v # w
      BY <1>2, <1>6, <1>7, <3>2 DEF PoolInv, result
    <3> QED
      BY <3>1, <3>2
  <2>3. ASSUME NEW u \in Workers, NEW v \in Workers, u # v PROVE job'[u] \cap job'[v] = {}
    BY <1>6, <1>7, <2>3 DEF PoolInv
  <2> QED
    BY <2>1, <2>2, <2>3 DEF PoolInv
<1>9. \A d \in Cells : Waiting(d)' <=> Waiting(d)
  <2> TAKE d \in Cells
  <2>1. CASE d = c
    BY <1>1, <1>6, <2>1 DEF Waiting, InHand
  <2>2. CASE d # c
    <3>1. d \in queue' <=> d \in queue
      BY <1>1, <2>2
    <3>2. \A v \in Workers : d \in job'[v] <=> d \in job[v]
      BY <1>2, <1>6, <2>2
    <3> QED
      BY <3>1, <3>2 DEF Waiting, InHand
  <2> QED
    BY <2>1, <2>2
<1> QED
  BY <1>2, <1>4, <1>5, <1>8, <1>9, MoveKeeps

LEMMA CloseKeeps == TypeOK /\ Inv /\ Close => TypeOK' /\ Inv'
<1> SUFFICES ASSUME TypeOK, Inv, Close PROVE TypeOK' /\ Inv'
  OBVIOUS
<1>1. /\ ~closed /\ (queue = {} \/ ended) /\ closed' = TRUE
      /\ UNCHANGED <<there, ended, phase, want, dry, regions, probed, queue, job, exited, result>>
  BY DEF Close
<1>2. TypeOK'
  BY <1>1 DEF TypeOK, result
<1>3. ~Early
  BY <1>1 DEF Inv, EarlyInv
<1>4. PoolInv'
  <2>1. PoolInv /\ candidates' = candidates
    BY <1>1 DEF Inv, result
  <2> QED
    BY <1>1, <2>1 DEF PoolInv
<1>5. \A d \in Cells : Waiting(d)' <=> Waiting(d)
  BY <1>1 DEF Waiting, InHand
<1> QED
  BY <1>1, <1>2, <1>3, <1>4, <1>5, MoveKeeps

LEMMA ExitKeeps ==
  ASSUME TypeOK, Inv, NEW w \in Workers, Exit(w) PROVE TypeOK' /\ Inv'
<1>1. /\ closed /\ job[w] = {} /\ w \notin exited /\ exited' = exited \cup {w}
      /\ UNCHANGED <<there, ended, phase, want, dry, regions, probed, queue, closed, job, result>>
  BY DEF Exit
<1>2. TypeOK'
  BY <1>1 DEF TypeOK, result
<1>3. ~Early
  BY <1>1 DEF Inv, EarlyInv
<1>4. PoolInv'
  <2>1. PoolInv /\ candidates' = candidates
    BY <1>1 DEF Inv, result
  <2>2. phase # "done"
    BY <1>1, <2>1 DEF PoolInv
  <2> QED
    BY <1>1, <2>1, <2>2 DEF PoolInv
<1>5. \A d \in Cells : Waiting(d)' <=> Waiting(d)
  BY <1>1 DEF Waiting, InHand
<1> QED
  BY <1>1, <1>2, <1>3, <1>4, <1>5, MoveKeeps

-----------------------------------------------------------------------------
(* What a listing returns. *)

LEMMA NativeIs ==
  ASSUME NEW c, NEW l \in Native(c)
  PROVE  /\ l.raws \subseteq Kept(c) /\ l.unfetched = {}
         /\ l.raws = Kept(c) \/ l.err
<1>1. CASE l = Listing(Kept(c), FALSE)
  BY <1>1 DEF Listing
<1>2. CASE l \in {Listing(s, TRUE) : s \in SUBSET Kept(c)}
  <2>1. PICK s \in SUBSET Kept(c) : l = Listing(s, TRUE)
    BY <1>2
  <2> QED
    BY <2>1 DEF Listing
<1> QED
  BY <1>1, <1>2 DEF Native

LEMMA ListAndGetIs ==
  ASSUME NEW c, NEW l \in ListAndGet(c)
  PROVE  l.raws \subseteq Kept(c) /\ l.unfetched \subseteq Kept(c)
<1>1. CASE l = Listing({}, TRUE)
  BY <1>1 DEF Listing
<1>2. CASE l \in {Listing(s, FALSE) : s \in SUBSET Kept(c)}
  <2>1. PICK s \in SUBSET Kept(c) : l = Listing(s, FALSE)
    BY <1>2
  <2> QED
    BY <2>1 DEF Listing
<1>3. CASE \E k \in Kept(c) : \E s \in SUBSET {i \in Kept(c) : i < k} :
             l = [raws |-> s, err |-> TRUE, unfetched |-> {i \in Kept(c) : i > k}]
  BY <1>3
<1> QED
  BY <1>1, <1>2, <1>3, Zenon DEF ListAndGet

LEMMA PrimaryIs ==
  ASSUME NEW c, NEW l \in Primary(c)
  PROVE  /\ l.raws \subseteq Kept(c) /\ l.unfetched \subseteq Kept(c)
         /\ Kind[c[2]] = "custom" => l.raws = Kept(c) \/ l.err
  BY NativeIs, ListAndGetIs DEF Primary

LEMMA FallbackIs ==
  ASSUME NEW c, NEW l, NEW f \in Fallback(c, l)
  PROVE  /\ f.raws \subseteq Kept(c)
         /\ IF l.raws = {} /\ Kind[c[2]] = "fallback" THEN f.raws = Kept(c) \/ f.err
            ELSE f.raws = {}
<1>1. CASE l.raws = {} /\ Kind[c[2]] = "fallback"
  BY <1>1, NativeIs DEF Fallback
<1>2. CASE ~(l.raws = {} /\ Kind[c[2]] = "fallback")
  BY <1>2 DEF Fallback, Listing
<1> QED
  BY <1>1, <1>2

LEMMA KindsAre == \A t \in Types : Kind[t] \in {"bare", "uncurated", "fallback", "custom"}
  BY DiscoveryAssumption DEF Kinds

\* What a listing without an error leaves out, it left out silently; then something else
\* of the cell is found, the type is not curated, or the cell is a candidate.
LEMMA LeftOut ==
  ASSUME NEW c \in Cells, NEW l \in Primary(c), NEW f \in Fallback(c, l), ~f.err,
         ~(l.err /\ f.raws = {}), NEW i \in Kept(c), i \notin l.raws \cup f.raws
  PROVE  /\ ~l.err /\ l.raws # Kept(c)
         /\ \/ l.raws # {} \/ Kind[c[2]] = "uncurated"
            \/ Kind[c[2]] = "bare" /\ l.raws \cup f.raws = {}
<1>1. Kind[c[2]] \in {"bare", "uncurated", "fallback", "custom"}
  BY KindsAre DEF Cells
<1>2. f.raws = {}
  BY FallbackIs
<1>3. ~l.err /\ l.raws # Kept(c)
  BY <1>2
<1>4. Kind[c[2]] # "custom"
  BY <1>3, PrimaryIs
<1>5. ~(l.raws = {} /\ Kind[c[2]] = "fallback")
  BY <1>2, FallbackIs
<1> QED
  BY <1>1, <1>2, <1>3, <1>4, <1>5

-----------------------------------------------------------------------------
(* A job. *)

\* The end of a job: the worker's cell waits no more, the others do.
LEMMA JobEnds ==
  ASSUME TypeOK, Inv, NEW w \in Workers, NEW c \in job[w], job' = [job EXCEPT ![w] = {}],
         UNCHANGED <<ended, phase, queue, closed, exited>>, candidates \subseteq candidates'
  PROVE  /\ c \in Cells /\ Waiting(c) /\ job' \in [Workers -> SUBSET Cells] /\ PoolInv'
         /\ phase = "reprobe" => c \in candidates
         /\ ~Early
         /\ \A d \in Cells : Waiting(d)' <=> Waiting(d) /\ d # c
<1>1. job \in [Workers -> SUBSET Cells] /\ PoolInv
  BY DEF TypeOK, Inv
<1>2. c \in Cells /\ job[w] = {c} /\ c \notin queue /\ w \notin exited
  BY <1>1 DEF PoolInv
<1>3. \A v \in Workers : v # w => c \notin job[v]
  BY <1>1 DEF PoolInv
<1>4. job'[w] = {} /\ \A v \in Workers : v # w => job'[v] = job[v]
  BY <1>1
<1>5. PoolInv'
  <2>1. ASSUME NEW v \in Workers
        PROVE  /\ v \in exited' => job'[v] = {}
               /\ job'[v] = {} \/ \E d \in Cells : job'[v] = {d}
               /\ job'[v] \cap queue' = {}
               /\ phase' = "reprobe" => job'[v] \subseteq candidates'
               /\ \A u \in Workers : u # v => job'[v] \cap job'[u] = {}
    BY <1>1, <1>4 DEF PoolInv
  <2> QED
    BY <1>1, <2>1 DEF PoolInv
<1>6. \A d \in Cells : Waiting(d)' <=> Waiting(d) /\ d # c
  <2> TAKE d \in Cells
  <2>1. CASE d = c
    BY <1>2, <1>3, <1>4, <2>1 DEF Waiting, InHand
  <2>2. CASE d # c
    <3>1. \A v \in Workers : d \in job'[v] <=> d \in job[v]
      BY <1>2, <1>4, <2>2
    <3> QED
      BY <2>2, <3>1 DEF Waiting, InHand
  <2> QED
    BY <2>1, <2>2
<1>7. phase = "reprobe" => c \in candidates
  BY <1>1 DEF PoolInv
<1>8. ~Early
  BY <1>2 DEF Inv, EarlyInv
<1>9. job' \in [Workers -> SUBSET Cells]
  BY <1>1
<1>10. Waiting(c)
  BY DEF Waiting, InHand
<1> QED
  BY <1>2, <1>5, <1>6, <1>7, <1>8, <1>9, <1>10

\* The effect on the result of a job that lists l, then f, and maps "mapped" of them.
JobEffect(c, l, f, mapped) ==
    /\ found' = found \cup ({c} \X mapped)
    /\ errs \subseteq errs'
    /\ errs' \subseteq errs \cup ({<<c[1], c[2], "list">>} \cup {<<c[1], c[2], "other">>})
    /\ <<c[1], c[2], "list">> \in errs' =>
         <<c[1], c[2], "list">> \in errs \/ (l.err /\ f.raws = {})
    /\ (l.err /\ f.raws = {}) => <<c[1], c[2], "list">> \in errs'
    /\ f.err \/ mapped # l.raws \cup f.raws => <<c[1], c[2], "other">> \in errs'
    /\ candidates' = candidates \cup
         {x \in {c} : Kind[c[2]] = "bare" /\ ~(l.err /\ f.raws = {}) /\ mapped = {}}
    /\ truth' = truth \cup ({c} \X Kept(c))
    /\ unfetched' = unfetched \cup ({c} \X l.unfetched)
    /\ silent' = silent \cup {x \in {c} : ~l.err /\ l.raws # Kept(c)}

LEMMA RunJobIs ==
  ASSUME NEW w \in Workers, RunJob(w)
  PROVE  \E c \in job[w] : \E l \in Primary(c) : \E f \in Fallback(c, l) :
         \E mapped \in SUBSET (l.raws \cup f.raws) : JobEffect(c, l, f, mapped)
<1> DEFINE Lists(c, l, f) == l.err /\ f.raws = {}
           Errors(c, l, f, mapped, enrichErr) ==
             {<<c[1], c[2], why>> : why \in {x \in {"list"} : Lists(c, l, f)} \cup
                {x \in {"other"} : f.err \/ mapped # l.raws \cup f.raws \/ enrichErr}}
           Effect(c, l, f, mapped, enrichErr) ==
             /\ found' = found \cup ({c} \X mapped)
             /\ errs' = errs \cup Errors(c, l, f, mapped, enrichErr)
             /\ candidates' = candidates \cup {x \in {c} : IsCandidate(c, Lists(c, l, f), mapped)}
             /\ truth' = truth \cup ({c} \X Kept(c))
             /\ unfetched' = unfetched \cup ({c} \X l.unfetched)
             /\ silent' = silent \cup {x \in {c} : ~l.err /\ l.raws # Kept(c)}
<1>1. \E c \in job[w] : \E l \in Primary(c) : \E f \in Fallback(c, l) :
      \E mapped \in SUBSET (l.raws \cup f.raws), enrichErr \in BOOLEAN :
        Effect(c, l, f, mapped, enrichErr)
  BY Zenon DEF RunJob
<1>2. ASSUME NEW c, NEW l, NEW f, NEW mapped, NEW enrichErr \in BOOLEAN,
             Effect(c, l, f, mapped, enrichErr)
      PROVE  JobEffect(c, l, f, mapped)
  <2>1. candidates' = candidates \cup
          {x \in {c} : Kind[c[2]] = "bare" /\ ~(l.err /\ f.raws = {}) /\ mapped = {}}
    BY <1>2 DEF IsCandidate
  <2>2. /\ errs \subseteq errs'
        /\ errs' \subseteq errs \cup ({<<c[1], c[2], "list">>} \cup {<<c[1], c[2], "other">>})
        /\ <<c[1], c[2], "list">> \in errs' => <<c[1], c[2], "list">> \in errs \/ Lists(c, l, f)
        /\ Lists(c, l, f) => <<c[1], c[2], "list">> \in errs'
        /\ f.err \/ mapped # l.raws \cup f.raws => <<c[1], c[2], "other">> \in errs'
    BY <1>2
  <2> QED
    BY <1>2, <2>1, <2>2 DEF JobEffect
<1> HIDE DEF Effect
<1> QED
  BY <1>1, <1>2

LEMMA RunJobKeeps ==
  ASSUME TypeOK, Inv, NEW w \in Workers, RunJob(w) PROVE TypeOK' /\ Inv'
<1>1. /\ phase = "discover" /\ job' = [job EXCEPT ![w] = {}]
      /\ UNCHANGED <<there, ended, phase, want, dry, regions, probed, queue, closed, exited,
                     warnings, blind>>
  BY DEF RunJob
<1>2. PICK c \in job[w] : \E l \in Primary(c) : \E f \in Fallback(c, l) :
        \E mapped \in SUBSET (l.raws \cup f.raws) : JobEffect(c, l, f, mapped)
  BY RunJobIs
<1>3. PICK l \in Primary(c) : \E f \in Fallback(c, l) :
         \E mapped \in SUBSET (l.raws \cup f.raws) : JobEffect(c, l, f, mapped)
  BY <1>2
<1>4. PICK f \in Fallback(c, l) :
         \E mapped \in SUBSET (l.raws \cup f.raws) : JobEffect(c, l, f, mapped)
  BY <1>3
<1>5. PICK mapped \in SUBSET (l.raws \cup f.raws) : JobEffect(c, l, f, mapped)
  BY <1>4
<1>6. candidates \subseteq candidates'
  BY <1>5 DEF JobEffect
<1>7. /\ c \in Cells /\ Waiting(c) /\ job' \in [Workers -> SUBSET Cells] /\ PoolInv'
      /\ \A d \in Cells : Waiting(d)' <=> Waiting(d) /\ d # c
  BY <1>1, <1>6, JobEnds
<1>8. Kept(c) \subseteq Ids /\ l.raws \subseteq Kept(c) /\ f.raws \subseteq Kept(c)
      /\ l.unfetched \subseteq Kept(c)
  BY PrimaryIs, FallbackIs DEF Kept, Held
<1>9. TypeOK'
  <2>1. /\ found' \subseteq Cells \X Ids /\ candidates' \subseteq Cells
        /\ truth' \subseteq Cells \X Ids /\ silent' \subseteq Cells
        /\ unfetched' \subseteq Cells \X Ids
    BY <1>5, <1>7, <1>8 DEF JobEffect, TypeOK
  <2>2. errs' \subseteq Regions \X (Types \cup {"scout"}) \X {"list", "other"}
    BY <1>5, <1>7 DEF JobEffect, TypeOK, Cells
  <2> QED
    BY <1>1, <1>7, <2>1, <2>2 DEF TypeOK
<1>10. EarlyInv' /\ ReprobeInv'
  BY <1>1 DEF Inv, EarlyInv, Early, ReprobeInv, Scanned
<1>11. CellInv /\ warnings = {}
  BY <1>1 DEF Inv, CellInv
<1>12. CellInv'
  <2>1. ASSUME NEW d \in Cells, d # c, Untouched(d) PROVE Untouched(d)'
    <3>1. <<d[1], d[2], "list">> \notin errs'
      <4>1. <<d[1], d[2], "list">> # <<c[1], c[2], "list">>
        BY <1>7, <2>1, CellsDiffer
      <4> QED
        BY <1>5, <2>1, <4>1 DEF JobEffect, Untouched
    <3> QED
      BY <1>5, <2>1, <3>1 DEF JobEffect, Untouched
  <2>2. c \in candidates' => Untouched(c)'
    <3>1. c \notin candidates /\ Untouched(c)
      BY <1>1, <1>7, <1>11 DEF CellInv
    <3> QED
      BY <1>5, <3>1 DEF JobEffect, Untouched
  <2>3. \A d \in candidates' : Untouched(d)'
    <3>1. candidates' \subseteq candidates \cup {c} /\ candidates \subseteq Cells
      BY <1>5 DEF JobEffect, TypeOK
    <3> QED
      BY <1>11, <2>1, <2>2, <3>1 DEF CellInv
  <2>4. \A d \in Cells : Waiting(d)' => d \notin candidates' /\ Untouched(d)'
    BY <1>1, <1>5, <1>7, <1>11, <2>1 DEF JobEffect, CellInv
  <2> QED
    BY <1>1, <1>11, <2>3, <2>4 DEF CellInv
<1>13. WarnedInv'
  BY <1>1, <1>11 DEF WarnedInv
<1>14. ListedInv'
  <2>1. Jobs' = Jobs /\ Jobs \subseteq Cells
    BY <1>1, JobsAreCells DEF Jobs
  <2>2. ASSUME NEW d, Listed(d) PROVE Listed(d)'
    BY <1>1, <1>5, <2>2 DEF JobEffect, Listed, Kept, Held
  <2>3. Listed(c)'
    BY <1>1, <1>5 DEF JobEffect, Listed, Kept, Held
  <2>4. ListedInv
    BY DEF Inv
  <2> QED
    BY <1>1, <1>7, <2>1, <2>2, <2>3, <2>4 DEF ListedInv, Scanned
<1>15. LossInv'
  <2>1. ASSUME NEW d, Excused(d) PROVE Excused(d)'
    BY <1>5, <1>6, <2>1 DEF JobEffect, Excused, Reported
  <2>2. ASSUME NEW i \in Kept(c), <<c, i>> \notin found' PROVE Excused(c)'
    <3>1. i \notin mapped
      BY <1>5, <2>2 DEF JobEffect
    <3>2. CASE (l.err /\ f.raws = {}) \/ f.err \/ mapped # l.raws \cup f.raws
      <4>1. <<c[1], c[2], "list">> \in errs' \/ <<c[1], c[2], "other">> \in errs'
        BY <1>5, <3>2 DEF JobEffect
      <4>2. Reported(c)'
        BY <4>1 DEF Reported
      <4> QED
        BY <4>2 DEF Excused
    <3>3. CASE ~(l.err /\ f.raws = {}) /\ ~f.err /\ mapped = l.raws \cup f.raws
      <4>1. /\ ~l.err /\ l.raws # Kept(c)
            /\ \/ l.raws # {} \/ Kind[c[2]] = "uncurated"
               \/ Kind[c[2]] = "bare" /\ mapped = {}
        BY <1>7, <3>1, <3>3, LeftOut
      <4>2. c \in silent'
        BY <1>5, <4>1 DEF JobEffect
      <4>3. l.raws # {} => \E j \in Ids : <<c, j>> \in found'
        BY <1>5, <1>8, <3>3 DEF JobEffect
      <4>4. Kind[c[2]] = "bare" /\ mapped = {} => c \in candidates'
        BY <1>5, <3>3 DEF JobEffect
      <4> QED
        BY <4>1, <4>2, <4>3, <4>4 DEF Excused
    <3> QED
      BY <3>2, <3>3
  <2>3. ASSUME NEW x \in truth' \ found' PROVE Excused(x[1])'
    <3>1. CASE x \in truth
      <4>1. x \in truth \ found
        BY <1>5, <2>3, <3>1 DEF JobEffect
      <4> QED
        BY <2>1, <4>1 DEF Inv, LossInv
    <3>2. CASE x \in {c} \X Kept(c)
      <4>1. x = <<c, x[2]>> /\ x[2] \in Kept(c)
        BY <3>2
      <4> QED
        BY <2>2, <2>3, <4>1
    <3> QED
      BY <1>5, <2>3, <3>1, <3>2 DEF JobEffect
  <2> QED
    BY <2>3 DEF LossInv
<1>16. ScoutInv'
  BY <1>1, <1>5 DEF JobEffect, Inv, ScoutInv
<1> QED
  BY <1>7, <1>9, <1>10, <1>12, <1>13, <1>14, <1>15, <1>16 DEF Inv

-----------------------------------------------------------------------------
(* The end of the walk, and the second listing. *)

\* Once all workers have left, nobody waits unless the context has ended.
LEMMA AllLeft ==
  ASSUME TypeOK, Inv, exited = Workers
  PROVE  ~Early => (ended \/ \A c \in Cells : ~Waiting(c))
<1>1. closed /\ (queue = {} \/ ended)
  BY WorkersExist DEF Inv, PoolInv
<1>2. \A w \in Workers : job[w] = {}
  BY DEF Inv, PoolInv
<1> QED
  BY <1>1, <1>2 DEF Waiting, InHand

LEMMA CollectedKeeps == TypeOK /\ Inv /\ Collected => TypeOK' /\ Inv'
<1> SUFFICES ASSUME TypeOK, Inv, Collected PROVE TypeOK' /\ Inv'
  OBVIOUS
<1>1. /\ phase = "discover" /\ exited = Workers /\ phase' \in {"done", "reprobe"}
      /\ UNCHANGED <<there, ended, want, dry, regions, probed, result>>
      /\ EarlyInv /\ PoolInv /\ CellInv /\ ScoutInv /\ ~dry
  BY DEF Collected, Inv, EarlyInv
<1>2. ended \/ \A c \in Cells : ~Waiting(c)
  BY <1>1, AllLeft DEF Early
<1>3. EarlyInv'
  BY <1>1 DEF EarlyInv, Early
<1>4. WarnedInv' /\ LossInv' /\ \A c \in candidates' : Untouched(c)'
  BY <1>1, ResultKept
<1>5. CellInv'
  BY <1>1, <1>4 DEF CellInv
<1>6. ListedInv'
  <2>1. Jobs' = Jobs /\ Jobs \subseteq Cells
    BY <1>1, JobsAreCells DEF Jobs
  <2>2. \A c : Listed(c)' <=> Listed(c)
    BY <1>1 DEF Listed, Kept, Held, result
  <2>3. ListedInv
    BY DEF Inv
  <2> QED
    BY <1>1, <1>2, <2>1, <2>2, <2>3 DEF ListedInv
<1>7. ScoutInv'
  BY <1>1 DEF ScoutInv, result
<1>8. CASE candidates = {} /\ phase' = "done" /\ UNCHANGED pool
  <2>1. TypeOK'
    BY <1>1, <1>8 DEF TypeOK, pool, result
  <2>2. PoolInv'
    BY <1>1, <1>8 DEF PoolInv, pool, result
  <2>3. ReprobeInv'
    BY <1>1, <1>8 DEF ReprobeInv, result
  <2> QED
    BY <1>3, <1>4, <1>5, <1>6, <1>7, <2>1, <2>2, <2>3 DEF Inv
<1>9. CASE candidates # {} /\ phase' = "reprobe" /\ Launch(candidates)
  <2>1. queue' = candidates /\ ~closed' /\ exited' = {} /\ job' = [w \in Workers |-> {}]
    BY <1>9 DEF Launch
  <2>2. TypeOK'
    <3>1. /\ job' \in [Workers -> SUBSET Cells] /\ queue' \subseteq Cells
          /\ closed' \in BOOLEAN /\ exited' \subseteq Workers
      BY <1>9, <2>1 DEF TypeOK, Launch
    <3> QED
      BY <1>1, <1>9, <3>1 DEF TypeOK, result
  <2>3. PoolInv'
    BY <1>1, <1>9, <2>1 DEF PoolInv, result
  <2>4. ReprobeInv'
    BY <1>1, <2>1 DEF ReprobeInv, Waiting, result
  <2> QED
    BY <1>3, <1>4, <1>5, <1>6, <1>7, <2>2, <2>3, <2>4 DEF Inv
<1> QED
  BY <1>8, <1>9 DEF Collected

LEMMA ReprobeKeeps ==
  ASSUME TypeOK, Inv, NEW w \in Workers, Reprobe(w) PROVE TypeOK' /\ Inv'
<1>1. /\ phase = "reprobe" /\ job' = [job EXCEPT ![w] = {}]
      /\ UNCHANGED <<there, ended, phase, want, dry, regions, probed, queue, closed, exited,
                     found, errs, candidates, truth, silent, unfetched>>
  BY DEF Reprobe
<1>2. PICK c \in job[w] :
        \/ Kept(c) # {} /\ warnings' = warnings \cup {<<Home(c), c[2]>>} /\ UNCHANGED blind
        \/ blind' = blind \cup {c} /\ UNCHANGED warnings
  BY DEF Reprobe
<1>3. /\ c \in Cells /\ job' \in [Workers -> SUBSET Cells] /\ PoolInv' /\ ~Early
      /\ \A d \in Cells : Waiting(d)' <=> Waiting(d) /\ d # c
      /\ c \in candidates
  BY <1>1, JobEnds
<1>4. TypeOK'
  <2>1. Home(c) \in Homes /\ c[2] \in Types
    BY <1>3 DEF Home, Homes, Cells
  <2>2. warnings' \subseteq Homes \X Types /\ blind' \subseteq Cells
    BY <1>2, <1>3, <2>1 DEF TypeOK
  <2> QED
    BY <1>1, <1>3, <2>2 DEF TypeOK
<1>5. EarlyInv' /\ ScoutInv'
  BY <1>1 DEF Inv, EarlyInv, Early, ScoutInv
<1>6. CellInv'
  BY <1>1 DEF Inv, CellInv, Untouched
<1>7. WarnedInv'
  <2>1. WarnedInv /\ \A d : Kept(d)' = Kept(d)
    BY <1>1 DEF Inv, Kept, Held
  <2> QED
    BY <1>1, <1>2, <1>3, <2>1 DEF WarnedInv
<1>8. ListedInv'
  <2>1. Jobs' = Jobs
    BY <1>1 DEF Jobs
  <2>2. \A d : Listed(d)' <=> Listed(d)
    BY <1>1 DEF Listed, Kept, Held
  <2> QED
    BY <1>1, <2>1, <2>2 DEF Inv, ListedInv, Scanned
<1>9. LossInv'
  BY <1>1 DEF Inv, LossInv, Excused, Reported
<1>10. ReprobeInv'
  <2>1. ReprobeInv /\ candidates \subseteq Cells
    BY DEF Inv, TypeOK
  <2>2. Warned(c)' \/ c \in blind'
    BY <1>2 DEF Warned
  <2>3. warnings \subseteq warnings' /\ blind \subseteq blind'
    BY <1>2
  <2>4. ASSUME ~ended, NEW d \in candidates
        PROVE  Waiting(d)' \/ Warned(d)' \/ d \in blind'
    BY <1>1, <1>3, <2>1, <2>2, <2>3, <2>4 DEF ReprobeInv, Warned
  <2> QED
    BY <1>1, <2>4 DEF ReprobeInv
<1> QED
  BY <1>3, <1>4, <1>5, <1>6, <1>7, <1>8, <1>9, <1>10 DEF Inv

LEMMA ReprobedKeeps == TypeOK /\ Inv /\ Reprobed => TypeOK' /\ Inv'
<1> SUFFICES ASSUME TypeOK, Inv, Reprobed PROVE TypeOK' /\ Inv'
  OBVIOUS
<1>1. /\ phase = "reprobe" /\ exited = Workers /\ phase' = "done"
      /\ UNCHANGED <<there, ended, want, dry, regions, probed, pool, result>>
      /\ EarlyInv /\ PoolInv /\ CellInv /\ ListedInv /\ ReprobeInv /\ ScoutInv /\ ~dry
  BY DEF Reprobed, Inv, EarlyInv
<1>2. TypeOK'
  BY <1>1 DEF TypeOK, pool, result
<1>3. EarlyInv' /\ PoolInv' /\ ScoutInv'
  BY <1>1 DEF EarlyInv, Early, PoolInv, ScoutInv, pool, result
<1>4. WarnedInv' /\ LossInv' /\ \A c \in candidates' : Untouched(c)'
  BY <1>1, ResultKept
<1>5. CellInv'
  BY <1>1, <1>4 DEF CellInv
<1>6. ListedInv'
  <2>1. Jobs' = Jobs
    BY <1>1 DEF Jobs
  <2>2. \A c : Listed(c)' <=> Listed(c)
    BY <1>1 DEF Listed, Kept, Held, result
  <2> QED
    BY <1>1, <2>1, <2>2 DEF ListedInv
<1>7. ReprobeInv'
  BY <1>1 DEF ReprobeInv, Waiting, InHand, Warned, pool, result
<1> QED
  BY <1>2, <1>3, <1>4, <1>5, <1>6, <1>7 DEF Inv

-----------------------------------------------------------------------------
(* The environment. *)

LEMMA CreateKeeps == TypeOK /\ Inv /\ Create => TypeOK' /\ Inv'
<1> SUFFICES ASSUME TypeOK, Inv, Create PROVE TypeOK' /\ Inv'
  OBVIOUS
<1>1. /\ there \subseteq there' /\ there' \subseteq there \cup Growth /\ Growth \subseteq Places
      /\ UNCHANGED <<ended, phase, want, dry, regions, probed, pool, result>>
  BY DiscoveryAssumption DEF Create
<1>2. TypeOK'
  <2>1. there' \subseteq Homes \X Types \X Ids
    BY <1>1 DEF TypeOK, Places
  <2> QED
    BY <1>1, <2>1 DEF TypeOK, pool, result
<1>3. WarnedInv' /\ LossInv' /\ \A c \in candidates' : Untouched(c)'
  BY <1>1, ResultKept
<1>4. EarlyInv' /\ PoolInv' /\ ScoutInv'
  BY <1>1 DEF Inv, EarlyInv, Early, PoolInv, ScoutInv, pool, result
<1>5. CellInv'
  BY <1>1, <1>3 DEF Inv, CellInv, Waiting, InHand, Untouched, pool, result
<1>6. ListedInv'
  <2>1. Jobs' = Jobs
    BY <1>1 DEF Jobs
  <2>2. ASSUME NEW c, Listed(c) PROVE Listed(c)'
    BY <1>1, <2>2 DEF Listed, Kept, Held, result
  <2>3. \A c : Waiting(c)' <=> Waiting(c)
    BY <1>1 DEF Waiting, InHand, pool
  <2> QED
    BY <1>1, <2>1, <2>2, <2>3 DEF Inv, ListedInv, Scanned
<1>7. ReprobeInv'
  BY <1>1 DEF Inv, ReprobeInv, Scanned, Waiting, InHand, Warned, pool, result
<1> QED
  BY <1>2, <1>3, <1>4, <1>5, <1>6, <1>7 DEF Inv

\* The context ends, or nothing happens.
LEMMA EndKeeps ==
  ASSUME TypeOK, Inv, ended' = ended \/ ended' = TRUE,
         UNCHANGED <<there, phase, want, dry, regions, probed, pool, result>>
  PROVE  TypeOK' /\ Inv'
<1>1. TypeOK'
  BY DEF TypeOK, pool, result
<1>2. WarnedInv' /\ LossInv' /\ \A c \in candidates' : Untouched(c)'
  BY ResultKept
<1>3. EarlyInv' /\ PoolInv' /\ ScoutInv'
  BY DEF Inv, EarlyInv, Early, PoolInv, ScoutInv, pool, result
<1>4. CellInv'
  BY <1>2 DEF Inv, CellInv, Waiting, InHand, Untouched, pool, result
<1>5. ListedInv'
  <2>1. Jobs' = Jobs
    BY DEF Jobs
  <2>2. \A c : (Listed(c)' <=> Listed(c)) /\ (Waiting(c)' <=> Waiting(c))
    BY DEF Listed, Kept, Held, Waiting, InHand, pool, result
  <2> QED
    BY <2>1, <2>2 DEF Inv, ListedInv, Scanned
<1>6. ReprobeInv'
  BY DEF Inv, ReprobeInv, Scanned, Waiting, InHand, Warned, pool, result
<1> QED
  BY <1>1, <1>2, <1>3, <1>4, <1>5, <1>6 DEF Inv

-----------------------------------------------------------------------------
(* The invariant, and what follows from it. *)

LEMMA NextKeeps == TypeOK /\ Inv /\ [Next]_vars => TypeOK' /\ Inv'
<1> SUFFICES ASSUME TypeOK, Inv, [Next]_vars PROVE TypeOK' /\ Inv'
  OBVIOUS
<1>1. CASE Main
  <2>1. CASE Close \/ Collected \/ Reprobed \/ Plan
    BY <2>1, CloseKeeps, CollectedKeeps, ReprobedKeeps, PlanKeeps
  <2>2. CASE Preflight \/ Fail \/ ResolveRegions \/ ScoutDone
    BY <2>2, PreflightKeeps, ResolveRegionsKeeps, ScoutDoneKeeps
  <2> QED
    BY <1>1, <2>1, <2>2 DEF Main
<1>2. CASE \E r \in Regions : ProbeRegion(r)
  BY <1>2, ProbeRegionKeeps
<1>3. CASE \E w \in Workers : Worker(w)
  <2>1. PICK w \in Workers : Worker(w)
    BY <1>3
  <2> QED
    BY <2>1, HandoffKeeps, RunJobKeeps, ReprobeKeeps, ExitKeeps DEF Worker
<1>4. CASE Create
  BY <1>4, CreateKeeps
<1>5. CASE End
  BY <1>5, EndKeeps DEF End
<1>6. CASE UNCHANGED vars
  BY <1>6, EndKeeps DEF vars
<1> QED
  BY <1>1, <1>2, <1>3, <1>4, <1>5, <1>6 DEF Next, Rest

LEMMA Inductive == Spec => [](TypeOK /\ Inv)
<1>1. Init => TypeOK /\ Inv
  BY InitType, InitInv
<1>2. TypeOK /\ Inv /\ [Next]_vars => (TypeOK /\ Inv)'
  BY NextKeeps
<1> QED
  BY <1>1, <1>2, PTL DEF Spec

LEMMA LossFromInv == TypeOK /\ Inv => NoSilentLoss
<1> SUFFICES ASSUME TypeOK, Inv, Scanned, ~ended
             PROVE  /\ queue = {} /\ \A w \in Workers : job[w] = {}
                    /\ \A c \in Jobs : Listed(c)
                    /\ \A x \in truth \ found :
                         \/ Reported(x[1]) \/ Warned(x[1])
                         \/ /\ x[1] \in silent
                            /\ \/ \E i \in Ids : <<x[1], i>> \in found
                               \/ Kind[x[1][2]] = "uncurated"
                               \/ x[1] \in blind
  BY DEF NoSilentLoss, Listed
<1>1. phase = "done" /\ ~dry /\ PoolInv /\ ListedInv /\ ReprobeInv /\ LossInv
  BY DEF Scanned, Inv
<1>2. exited = Workers /\ closed /\ queue = {}
  BY <1>1, WorkersExist DEF PoolInv
<1>3. \A w \in Workers : job[w] = {}
  BY <1>1, <1>2 DEF PoolInv
<1>4. \A c \in Jobs : Listed(c)
  BY <1>1 DEF ListedInv
<1>5. \A c \in candidates : Warned(c) \/ c \in blind
  BY <1>1, <1>2, <1>3 DEF ReprobeInv, Waiting, InHand
<1>6. \A x \in truth \ found : Excused(x[1])
  BY <1>1 DEF LossInv
<1> QED
  BY <1>2, <1>3, <1>4, <1>5, <1>6 DEF Excused

LEMMA WarningFromInv == TypeOK /\ Inv => WarningTruthful
<1> SUFFICES ASSUME TypeOK, Inv, NEW x \in warnings
             PROVE  \E c \in candidates :
                      /\ x = <<Home(c), c[2]>> /\ Kept(c) # {}
                      /\ \A i \in Ids : <<c, i>> \notin found
                      /\ <<c[1], c[2], "list">> \notin errs
  BY DEF WarningTruthful
<1>1. PICK c \in candidates : x = <<Home(c), c[2]>> /\ Kept(c) # {}
  BY DEF Inv, WarnedInv
<1>2. Untouched(c)
  BY DEF Inv, CellInv
<1> QED
  BY <1>1, <1>2 DEF Untouched

LEMMA SkippedFromInv == TypeOK /\ Inv => SkippedAccounted
<1> SUFFICES ASSUME TypeOK, Inv, phase = "done", want = "all",
                    NEW r \in InSeq(Enabled) \ InSeq(regions)
             PROVE  /\ ~probed[r].alive /\ regions # <<>>
                    /\ probed[r].err => <<r, "scout", "list">> \in errs
  BY DEF SkippedAccounted
<1>1. r \in Regions
  BY InSeqType, RegionLists
<1> QED
  BY <1>1 DEF Inv, ScoutInv

\* The variables keep their types, for any account, regions, types and workers.
THEOREM TypeCorrect == Spec => []TypeOK
  BY Inductive, PTL

\* No silent false-clean: when Discover returns and the context has not ended, every cell
\* was listed, and a resource that was there then and is not in the result has an error or a
\* warning of its cell, or is one of those integrity.go concedes (runJob, probeDiscoveryIntegrity).
THEOREM NothingLostSilently == Spec => []NoSilentLoss
  BY Inductive, LossFromInv, PTL

\* No false alarm: a warning names a cell that holds resources of the customer's, of
\* which discovery returned none and whose list did not fail (probeDiscoveryIntegrity).
THEOREM WarningsTruthful == Spec => []WarningTruthful
  BY Inductive, WarningFromInv, PTL

\* A region that "--region all" left out showed no life to the scout, and a probe that
\* failed is in the result (scoutRegions, Discover).
THEOREM SkippedAreAccounted == Spec => []SkippedAccounted
  BY Inductive, SkippedFromInv, PTL

-----------------------------------------------------------------------------
(* Progress: Discover is never stuck, and no step of it is in vain. *)

LEMMA UpToCount ==
    ASSUME NEW k \in Nat PROVE IsFiniteSet(1..k) /\ Cardinality(1..k) = k
<1>1. 1 \in Int /\ k \in Int
  OBVIOUS
<1>2. IsFiniteSet(1..k) /\ Cardinality(1..k) = IF 1 > k THEN 0 ELSE k - 1 + 1
  BY <1>1, FS_Interval, Zenon
<1> QED
  BY <1>2

LEMMA WorkersCount == IsFiniteSet(Workers) /\ Cardinality(Workers) = Concurrency
BY UpToCount, DiscoveryAssumption DEF Workers

LEMMA InSeqFinite == ASSUME NEW R, NEW s \in Seq(R) PROVE IsFiniteSet(InSeq(s))
<1>1. Len(s) \in Nat /\ DOMAIN s = 1..Len(s)
  OBVIOUS
<1>2. IsFiniteSet(1..Len(s))
  BY <1>1, UpToCount
<1>3. s \in [1..Len(s) -> InSeq(s)]
  BY <1>1 DEF InSeq
<1>4. \A x \in InSeq(s) : \E i \in 1..Len(s) : s[i] = x
  BY <1>1 DEF InSeq
<1>5. s \in Surjection(1..Len(s), InSeq(s))
  BY <1>3, <1>4 DEF Surjection
<1> QED
  BY <1>2, <1>5, FS_Surjection, Zenon

LEMMA RegionsFinite == IsFiniteSet(Regions)
<1>1. Enabled \in Seq(Regions) /\ Named \in Seq(Regions)
  BY DiscoveryAssumption
<1>2. IsFiniteSet(InSeq(Enabled)) /\ IsFiniteSet(InSeq(Named))
  BY <1>1, InSeqFinite
<1> QED
  BY <1>2, FS_Union, Zenon DEF Regions

LEMMA CellsFinite == IsFiniteSet(Cells) /\ Cardinality(Cells) \in Nat
<1>1. IsFiniteSet(Types)
  BY DiscoveryAssumption
<1>2. IsFiniteSet(Cells)
  BY <1>1, RegionsFinite, FS_Product, Zenon DEF Cells
<1> QED
  BY <1>2, FS_CardinalityType

\* The steps that are left of a pool: q is its queue, j says who holds what, x who has
\* left and b whether the channel is closed.
Holding(j) == {w \in Workers : j[w] # {}}
StillOpen(b) == IF b THEN 0 ELSE 1
StepsOf(q, j, x, b) ==
    2 * Cardinality(q) + Cardinality(Holding(j)) + Cardinality(Workers \ x) + StillOpen(b)
Most == 2 * Cardinality(Cells) + Concurrency + 1

LEMMA StepsType ==
    ASSUME NEW q \in SUBSET Cells, NEW j, NEW x, NEW b
    PROVE  /\ IsFiniteSet(q) /\ Cardinality(q) \in Nat /\ Cardinality(q) <= Cardinality(Cells)
           /\ IsFiniteSet(Holding(j)) /\ Cardinality(Holding(j)) \in Nat
           /\ IsFiniteSet(Workers \ x) /\ Cardinality(Workers \ x) \in Nat
           /\ StillOpen(b) \in {0, 1}
           /\ StepsOf(q, j, x, b) \in Nat
<1>1. IsFiniteSet(q) /\ Cardinality(q) \in Nat /\ Cardinality(q) <= Cardinality(Cells)
  BY CellsFinite, FS_Subset, FS_CardinalityType
<1>2. Holding(j) \in SUBSET Workers /\ Workers \ x \in SUBSET Workers
  BY DEF Holding
<1>3. /\ IsFiniteSet(Holding(j)) /\ Cardinality(Holding(j)) \in Nat
      /\ IsFiniteSet(Workers \ x) /\ Cardinality(Workers \ x) \in Nat
  BY <1>2, WorkersCount, FS_Subset, FS_CardinalityType
<1>4. StillOpen(b) \in {0, 1}
  BY DEF StillOpen
<1> QED
  BY <1>1, <1>3, <1>4 DEF StepsOf

\* A cell goes from the queue to a worker.
LEMMA HandoffLess ==
    ASSUME NEW q \in SUBSET Cells, NEW j \in [Workers -> SUBSET Cells], NEW x, NEW b,
           NEW w \in Workers, NEW c \in q, j[w] = {}
    PROVE  StepsOf(q \ {c}, [j EXCEPT ![w] = {c}], x, b) < StepsOf(q, j, x, b)
<1> DEFINE g == [j EXCEPT ![w] = {c}]
<1>1. Holding(g) = Holding(j) \cup {w} /\ w \notin Holding(j)
  BY DEF Holding
<1>2. /\ IsFiniteSet(q) /\ Cardinality(q) \in Nat /\ IsFiniteSet(Holding(j))
      /\ Cardinality(Holding(j)) \in Nat /\ Cardinality(Workers \ x) \in Nat /\ StillOpen(b) \in {0, 1}
  BY StepsType
<1>3. Cardinality(q \ {c}) = Cardinality(q) - 1
  BY <1>2, FS_RemoveElement
<1>4. Cardinality(Holding(g)) = Cardinality(Holding(j)) + 1
  BY <1>1, <1>2, FS_AddElement
<1> HIDE DEF g
<1>5. 2 * Cardinality(q \ {c}) + Cardinality(Holding(g)) + Cardinality(Workers \ x) + StillOpen(b)
        < 2 * Cardinality(q) + Cardinality(Holding(j)) + Cardinality(Workers \ x) + StillOpen(b)
  BY <1>2, <1>3, <1>4
<1> QED
  BY <1>5, Zenon DEF g, StepsOf

\* A worker is done with its cell.
LEMMA JobLess ==
    ASSUME NEW q \in SUBSET Cells, NEW j \in [Workers -> SUBSET Cells], NEW x, NEW b,
           NEW w \in Workers, j[w] # {}
    PROVE  StepsOf(q, [j EXCEPT ![w] = {}], x, b) < StepsOf(q, j, x, b)
<1> DEFINE g == [j EXCEPT ![w] = {}]
<1>1. Holding(g) = Holding(j) \ {w} /\ w \in Holding(j)
  BY DEF Holding
<1>2. /\ Cardinality(q) \in Nat /\ IsFiniteSet(Holding(j))
      /\ Cardinality(Holding(j)) \in Nat /\ Cardinality(Workers \ x) \in Nat /\ StillOpen(b) \in {0, 1}
  BY StepsType
<1> HIDE DEF g
<1>3. Cardinality(Holding(g)) = Cardinality(Holding(j)) - 1
  BY <1>1, <1>2, FS_RemoveElement
<1>4. 2 * Cardinality(q) + Cardinality(Holding(g)) + Cardinality(Workers \ x) + StillOpen(b)
        < 2 * Cardinality(q) + Cardinality(Holding(j)) + Cardinality(Workers \ x) + StillOpen(b)
  BY <1>2, <1>3
<1> QED
  BY <1>4, Zenon DEF g, StepsOf

LEMMA ExitLess ==
    ASSUME NEW q \in SUBSET Cells, NEW j, NEW x, NEW b, NEW w \in Workers, w \notin x
    PROVE  StepsOf(q, j, x \cup {w}, b) < StepsOf(q, j, x, b)
<1>1. Workers \ (x \cup {w}) = (Workers \ x) \ {w} /\ w \in Workers \ x
  OBVIOUS
<1>2. /\ Cardinality(q) \in Nat /\ Cardinality(Holding(j)) \in Nat
      /\ IsFiniteSet(Workers \ x) /\ Cardinality(Workers \ x) \in Nat /\ StillOpen(b) \in {0, 1}
  BY StepsType
<1>3. Cardinality(Workers \ (x \cup {w})) = Cardinality(Workers \ x) - 1
  BY <1>1, <1>2, FS_RemoveElement
<1>4. 2 * Cardinality(q) + Cardinality(Holding(j)) + Cardinality(Workers \ (x \cup {w})) + StillOpen(b)
        < 2 * Cardinality(q) + Cardinality(Holding(j)) + Cardinality(Workers \ x) + StillOpen(b)
  BY <1>2, <1>3
<1> QED
  BY <1>4, Zenon DEF StepsOf

LEMMA CloseLess ==
    ASSUME NEW q \in SUBSET Cells, NEW j, NEW x PROVE StepsOf(q, j, x, TRUE) < StepsOf(q, j, x, FALSE)
<1>1. /\ Cardinality(q) \in Nat /\ Cardinality(Holding(j)) \in Nat /\ Cardinality(Workers \ x) \in Nat
  BY StepsType
<1>2. StillOpen(TRUE) = 0 /\ StillOpen(FALSE) = 1
  BY DEF StillOpen
<1>3. 2 * Cardinality(q) + Cardinality(Holding(j)) + Cardinality(Workers \ x) + 0
        < 2 * Cardinality(q) + Cardinality(Holding(j)) + Cardinality(Workers \ x) + 1
  BY <1>1
<1> QED
  BY <1>2, <1>3, Zenon DEF StepsOf

\* What is launched is no more than all cells.
LEMMA LaunchMost ==
    ASSUME NEW q \in SUBSET Cells PROVE StepsOf(q, [w \in Workers |-> {}], {}, FALSE) <= Most
<1> DEFINE j == [w \in Workers |-> {}]
<1>1. Holding(j) = {} /\ Workers \ {} = Workers
  BY DEF Holding
<1>2. Cardinality(Holding(j)) = 0 /\ Cardinality(Workers \ {}) = Concurrency /\ Concurrency \in Nat
  BY <1>1, FS_EmptySet, WorkersCount, DiscoveryAssumption
<1>3. Cardinality(q) \in Nat /\ Cardinality(q) <= Cardinality(Cells) /\ Cardinality(Cells) \in Nat
  BY StepsType, CellsFinite
<1>4. StillOpen(FALSE) = 1
  BY DEF StillOpen
<1> HIDE DEF j
<1>5. 2 * Cardinality(q) + 0 + Concurrency + 1 <= 2 * Cardinality(Cells) + Concurrency + 1
  BY <1>2, <1>3
<1>6. StepsOf(q, j, {}, FALSE) <= Most
  BY <1>2, <1>4, <1>5, Zenon DEF StepsOf, Most
<1> QED
  BY <1>6, Zenon DEF j

\* What lies ahead of Discover outside its pool: two pools may still be launched.
PhaseLeft ==
    CASE phase = "preflight" -> 2 * Most + 7
      [] phase = "regions"   -> 2 * Most + 6
      [] phase = "scout"     -> 2 * Most + 5
      [] phase = "plan"      -> 2 * Most + 4
      [] phase = "discover"  -> Most + 2
      [] phase = "reprobe"   -> 1
      [] OTHER               -> 0
PoolLeft == StepsOf(queue, job, exited, closed)
Unprobed == {r \in Regions : ~probed[r].over}
ProbesLeft == Cardinality(Unprobed)

\* The steps that are left of the run.
Rank == PhaseLeft + PoolLeft + ProbesLeft

\* Somebody can take a step: Discover itself, a probe of the scout, the producer or a
\* worker.
Ready ==
    \/ phase \in {"preflight", "regions", "scout", "plan"} /\ ~Asking
    \/ phase \in {"discover", "reprobe"} /\ exited = Workers
    \/ ~closed /\ (queue = {} \/ ended)
    \/ \E w \in Workers \ exited :
         \/ job[w] = {} /\ (closed \/ queue # {})
         \/ phase \in {"discover", "reprobe"} /\ job[w] # {}

\* A step of the program: not of AWS, nor the end of the context.
Step == Main \/ (\E r \in Regions : ProbeRegion(r)) \/ \E w \in Workers : Worker(w)

LEMMA MostType == Most \in Nat
BY CellsFinite, DiscoveryAssumption DEF Most

LEMMA PhaseIs ==
    /\ phase = "preflight" => PhaseLeft = 2 * Most + 7
    /\ phase = "regions" => PhaseLeft = 2 * Most + 6
    /\ phase = "scout" => PhaseLeft = 2 * Most + 5
    /\ phase = "plan" => PhaseLeft = 2 * Most + 4
    /\ phase = "discover" => PhaseLeft = Most + 2
    /\ phase = "reprobe" => PhaseLeft = 1
    /\ phase \in {"done", "failed"} => PhaseLeft = 0
BY DEF PhaseLeft

LEMMA PhaseIsNext ==
    /\ phase' = "regions" => PhaseLeft' = 2 * Most + 6
    /\ phase' = "scout" => PhaseLeft' = 2 * Most + 5
    /\ phase' = "plan" => PhaseLeft' = 2 * Most + 4
    /\ phase' = "discover" => PhaseLeft' = Most + 2
    /\ phase' = "reprobe" => PhaseLeft' = 1
    /\ phase' \in {"done", "failed"} => PhaseLeft' = 0
BY DEF PhaseLeft, Most

LEMMA UnprobedFinite == IsFiniteSet(Unprobed) /\ ProbesLeft \in Nat
<1>1. Unprobed \in SUBSET Regions
  BY DEF Unprobed
<1>2. IsFiniteSet(Unprobed)
  BY <1>1, RegionsFinite, FS_Subset, Zenon
<1> QED
  BY <1>2, FS_CardinalityType DEF ProbesLeft

RanksOK == PhaseLeft \in Nat /\ PoolLeft \in Nat /\ ProbesLeft \in Nat

LEMMA RanksType == TypeOK => RanksOK /\ Rank \in Nat
<1> SUFFICES ASSUME TypeOK PROVE RanksOK /\ Rank \in Nat
  OBVIOUS
<1>1. phase \in {"preflight", "regions", "scout", "plan", "discover", "reprobe", "done", "failed"}
  BY DEF TypeOK
<1>2. PhaseLeft \in Nat
  BY <1>1, PhaseIs, MostType
<1>3. PoolLeft \in Nat
  BY StepsType DEF PoolLeft, TypeOK
<1>4. ProbesLeft \in Nat
  BY UnprobedFinite
<1> QED
  BY <1>2, <1>3, <1>4 DEF RanksOK, Rank

\* The ways in which the sum of the three falls: in one of them, or a pool is launched.
Falls(h, p, u, i, q, v) ==
    \/ i = h /\ q < p /\ v = u
    \/ i < h /\ q = p /\ v = u
    \/ i = h /\ q = p /\ v < u
    \/ i + Most < h /\ q <= Most /\ v = u

LEMMA SumFalls ==
    ASSUME NEW h \in Nat, NEW p \in Nat, NEW u \in Nat,
           NEW i \in Nat, NEW q \in Nat, NEW v \in Nat, Falls(h, p, u, i, q, v)
    PROVE  i + q + v < h + p + u
BY MostType DEF Falls

RankFalls == Falls(PhaseLeft, PoolLeft, ProbesLeft, PhaseLeft', PoolLeft', ProbesLeft')

LEMMA RankLess == ASSUME RanksOK, RanksOK', RankFalls PROVE Rank' < Rank
<1>1. /\ PhaseLeft \in Nat /\ PoolLeft \in Nat /\ ProbesLeft \in Nat
      /\ PhaseLeft' \in Nat /\ PoolLeft' \in Nat /\ ProbesLeft' \in Nat
  BY DEF RanksOK
<1>2. PhaseLeft' + PoolLeft' + ProbesLeft' < PhaseLeft + PoolLeft + ProbesLeft
  BY <1>1, SumFalls, Zenon DEF RankFalls
<1> QED
  BY <1>2, Zenon DEF Rank

LEMMA PartsKept ==
    /\ UNCHANGED phase => PhaseLeft' = PhaseLeft
    /\ UNCHANGED pool => PoolLeft' = PoolLeft
    /\ UNCHANGED probed => ProbesLeft' = ProbesLeft
<1>1. UNCHANGED phase => PhaseLeft' = PhaseLeft
  BY DEF PhaseLeft, Most
<1>2. UNCHANGED pool => PoolLeft' = PoolLeft
  BY DEF PoolLeft, pool, StepsOf, Holding, StillOpen
<1>3. UNCHANGED probed => ProbesLeft' = ProbesLeft
  BY DEF ProbesLeft, Unprobed
<1> QED
  BY <1>1, <1>2, <1>3

LEMMA PoolNext == PoolLeft' = StepsOf(queue', job', exited', closed')
BY DEF PoolLeft, StepsOf, Holding, StillOpen

\* Discover goes from one of its phases to the next.
LEMMA PhaseFalls ==
    ASSUME TypeOK, Inv, Preflight \/ Fail \/ ResolveRegions \/ ScoutDone \/ Plan \/ Collected \/ Reprobed
    PROVE  RankFalls
<1>1. UNCHANGED probed
  BY DEF Preflight, Fail, ResolveRegions, ScoutDone, Plan, Collected, Reprobed
<1>2. ProbesLeft' = ProbesLeft
  BY <1>1, PartsKept
<1>3. ASSUME UNCHANGED pool, PhaseLeft' < PhaseLeft PROVE RankFalls
  <2>1. PoolLeft' = PoolLeft
    BY <1>3, PartsKept
  <2> QED
    BY <1>2, <1>3, <2>1, Zenon DEF RankFalls, Falls
<1>4. ASSUME NEW S \in SUBSET Cells, Launch(S), PhaseLeft' + Most < PhaseLeft PROVE RankFalls
  <2>1. queue' = S /\ job' = [w \in Workers |-> {}] /\ exited' = {} /\ closed' = FALSE
    BY <1>4 DEF Launch
  <2>2. PoolLeft' = StepsOf(S, [w \in Workers |-> {}], {}, FALSE)
    BY <2>1, PoolNext
  <2>3. PoolLeft' <= Most
    BY <2>2, LaunchMost, Zenon
  <2> QED
    BY <1>2, <1>4, <2>3, Zenon DEF RankFalls, Falls
<1>5. Most \in Nat
  BY MostType
<1>6. CASE Preflight \/ Fail
  <2>1. /\ phase \in {"preflight", "regions"} /\ phase' \in {"regions", "failed"} /\ phase' # phase
        /\ phase = "regions" => phase' = "failed"
        /\ UNCHANGED pool
    BY <1>6 DEF Preflight, Fail
  <2>2. PhaseLeft' < PhaseLeft
    BY <1>5, <2>1, PhaseIs, PhaseIsNext
  <2> QED
    BY <1>3, <2>1, <2>2
<1>7. CASE ResolveRegions \/ ScoutDone
  <2>1. /\ phase \in {"regions", "scout"} /\ phase' \in {"scout", "plan"} /\ phase' # phase
        /\ UNCHANGED pool
    BY <1>7 DEF ResolveRegions, ScoutDone
  <2>2. PhaseLeft' < PhaseLeft
    BY <1>5, <2>1, PhaseIs, PhaseIsNext
  <2> QED
    BY <1>3, <2>1, <2>2
<1>8. CASE Plan
  <2>1. phase = "plan"
    BY <1>8 DEF Plan
  <2>2. CASE phase' = "done" /\ UNCHANGED pool
    <3>1. PhaseLeft' < PhaseLeft
      BY <1>5, <2>1, <2>2, PhaseIs, PhaseIsNext
    <3> QED
      BY <1>3, <2>2, <3>1
  <2>3. CASE phase' = "discover" /\ Launch(Jobs)
    <3>1. PhaseLeft' + Most < PhaseLeft
      BY <1>5, <2>1, <2>3, PhaseIs, PhaseIsNext
    <3>2. Jobs \in SUBSET Cells
      BY JobsAreCells
    <3> QED
      BY <1>4, <2>3, <3>1, <3>2
  <2> QED
    BY <1>8, <2>2, <2>3 DEF Plan
<1>9. CASE Collected
  <2>1. phase = "discover"
    BY <1>9 DEF Collected
  <2>2. CASE phase' = "done" /\ UNCHANGED pool
    <3>1. PhaseLeft' < PhaseLeft
      BY <1>5, <2>1, <2>2, PhaseIs, PhaseIsNext
    <3> QED
      BY <1>3, <2>2, <3>1
  <2>3. CASE phase' = "reprobe" /\ Launch(candidates)
    <3>1. PhaseLeft' + Most < PhaseLeft
      BY <1>5, <2>1, <2>3, PhaseIs, PhaseIsNext
    <3>2. candidates \in SUBSET Cells
      BY DEF TypeOK
    <3> QED
      BY <1>4, <2>3, <3>1, <3>2
  <2> QED
    BY <1>9, <2>2, <2>3 DEF Collected
<1>10. CASE Reprobed
  <2>1. phase = "reprobe" /\ phase' = "done" /\ UNCHANGED pool
    BY <1>10 DEF Reprobed
  <2>2. PhaseLeft' < PhaseLeft
    BY <2>1, PhaseIs, PhaseIsNext
  <2> QED
    BY <1>3, <2>1, <2>2
<1> QED
  BY <1>6, <1>7, <1>8, <1>9, <1>10

LEMMA ProbeFalls == ASSUME TypeOK, NEW r \in Regions, ProbeRegion(r) PROVE RankFalls
<1>1. UNCHANGED <<phase, pool>> /\ ~probed[r].over
  BY DEF ProbeRegion
<1>2. PICK a \in BOOLEAN, e \in BOOLEAN :
        probed' = [probed EXCEPT ![r] = [alive |-> a, err |-> e, over |-> TRUE]]
  BY Zenon DEF ProbeRegion
<1>3. probed'[r].over /\ \A x \in Regions : x # r => probed'[x] = probed[x]
  BY <1>2 DEF TypeOK
<1>4. Unprobed' = Unprobed \ {r} /\ r \in Unprobed
  BY <1>1, <1>3 DEF Unprobed
<1>5. Cardinality(Unprobed \ {r}) = Cardinality(Unprobed) - 1 /\ Cardinality(Unprobed) \in Nat
  BY <1>4, UnprobedFinite, FS_RemoveElement DEF ProbesLeft
<1>6. Cardinality(Unprobed \ {r}) < Cardinality(Unprobed)
  BY <1>5
<1>7. ProbesLeft' = Cardinality(Unprobed')
  BY DEF ProbesLeft, Unprobed
<1>8. ProbesLeft' < ProbesLeft
  BY <1>4, <1>6, <1>7, Zenon DEF ProbesLeft
<1>9. PhaseLeft' = PhaseLeft /\ PoolLeft' = PoolLeft
  BY <1>1, PartsKept
<1> QED
  BY <1>8, <1>9, Zenon DEF RankFalls, Falls

\* A step inside a pool.
LEMMA PoolFalls ==
    ASSUME TypeOK, Close \/ \E w \in Workers : Worker(w) PROVE RankFalls
<1>0. queue \in SUBSET Cells /\ job \in [Workers -> SUBSET Cells] /\ exited \subseteq Workers
      /\ closed \in BOOLEAN
  BY DEF TypeOK
<1>1. UNCHANGED <<phase, probed>>
  BY DEF Close, Worker, Handoff, RunJob, Reprobe, Exit
<1>2. ASSUME StepsOf(queue', job', exited', closed') < StepsOf(queue, job, exited, closed) PROVE RankFalls
  <2>1. PoolLeft' < PoolLeft
    BY <1>2, PoolNext, Zenon DEF PoolLeft
  <2>2. PhaseLeft' = PhaseLeft /\ ProbesLeft' = ProbesLeft
    BY <1>1, PartsKept
  <2> QED
    BY <2>1, <2>2, Zenon DEF RankFalls, Falls
<1>3. CASE Close
  <2>1. closed = FALSE /\ closed' = TRUE /\ UNCHANGED <<queue, job, exited>>
    BY <1>0, <1>3 DEF Close
  <2> QED
    BY <1>0, <1>2, <2>1, CloseLess
<1>4. ASSUME NEW w \in Workers, Handoff(w) PROVE RankFalls
  <2>1. queue # {} /\ job[w] = {} /\ UNCHANGED <<closed, exited>>
    BY <1>4 DEF Handoff
  <2>2. PICK c \in queue : job' = [job EXCEPT ![w] = {c}] /\ queue' = queue \ {c}
    BY <1>4 DEF Handoff
  <2>3. StepsOf(queue \ {c}, [job EXCEPT ![w] = {c}], exited, closed) < StepsOf(queue, job, exited, closed)
    BY <1>0, <2>1, HandoffLess
  <2> QED
    BY <1>2, <2>1, <2>2, <2>3
<1>5. ASSUME NEW w \in Workers, RunJob(w) \/ Reprobe(w) PROVE RankFalls
  <2>1. job[w] # {} /\ job' = [job EXCEPT ![w] = {}] /\ UNCHANGED <<queue, closed, exited>>
    BY <1>5 DEF RunJob, Reprobe
  <2>2. StepsOf(queue, [job EXCEPT ![w] = {}], exited, closed) < StepsOf(queue, job, exited, closed)
    BY <1>0, <2>1, JobLess
  <2> QED
    BY <1>2, <2>1, <2>2
<1>6. ASSUME NEW w \in Workers, Exit(w) PROVE RankFalls
  <2>1. w \notin exited /\ exited' = exited \cup {w} /\ UNCHANGED <<queue, job, closed>>
    BY <1>6 DEF Exit
  <2>2. StepsOf(queue, job, exited \cup {w}, closed) < StepsOf(queue, job, exited, closed)
    BY <1>0, <2>1, ExitLess
  <2> QED
    BY <1>2, <2>1, <2>2
<1> QED
  BY <1>3, <1>4, <1>5, <1>6 DEF Worker

LEMMA StepFalls == TypeOK /\ Inv /\ RanksOK /\ RanksOK' /\ Step => Rank' < Rank
<1> SUFFICES ASSUME TypeOK, Inv, RanksOK, RanksOK', Step PROVE RankFalls
  BY RankLess
<1> QED
  BY PhaseFalls, ProbeFalls, PoolFalls DEF Step, Main

LEMMA GoesOn == TypeOK /\ Inv /\ ~Over => Ready \/ Asking
<1> SUFFICES ASSUME TypeOK, Inv, ~Over, phase \in {"discover", "reprobe"}, exited # Workers PROVE Ready
  BY DEF TypeOK, Over, Ready
<1>1. PICK w \in Workers : w \notin exited
  BY DEF TypeOK
<1> QED
  BY <1>1 DEF Ready

\* Until Discover has returned somebody can go on, unless it has asked its user for the
\* regions, and every step of the program leaves less to do, whatever AWS answers and even
\* when the context ends while the producer holds jobs back: no job is handed out twice, no
\* worker waits for a channel nobody closes, and the second listing is not followed by a
\* third.  Under FairSpec this is why Discover returns (fanOutDiscovery,
\* probeDiscoveryIntegrity).
THEOREM DiscoverProgress == Spec => /\ [](~Over => (Ready \/ Asking) /\ Rank \in Nat)
                                    /\ [][Step => Rank' < Rank]_vars
<1>1. TypeOK /\ Inv => (~Over => (Ready \/ Asking) /\ Rank \in Nat)
  BY GoesOn, RanksType
<1>2. TypeOK /\ Inv /\ RanksOK /\ RanksOK' => [Step => Rank' < Rank]_vars
  BY StepFalls
<1>3. TypeOK => RanksOK
  BY RanksType
<1> QED
  BY <1>1, <1>2, <1>3, Inductive, PTL
=============================================================================
