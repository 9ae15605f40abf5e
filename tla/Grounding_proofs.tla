-------------------------- MODULE Grounding_proofs --------------------------
(***************************************************************************)
(* fanOut implements FanOutCall and leaves nothing behind, for any number  *)
(* of workers and indices.  Over it BuildGrounding types correctly,        *)
(* accounts for every lookup and aborts exactly when it should: what it    *)
(* does to the pool is a step of FanOut or leaves the pool alone.          *)
(***************************************************************************)
EXTENDS Grounding, FiniteSetTheorems, TLAPS

USE FanOutAssumption, GroundingAssumption DEF Workers, Nil

-----------------------------------------------------------------------------
(* The pool: types. *)

LEMMA InitPoolType == Init => TypeOK
<1> SUFFICES ASSUME Init PROVE TypeOK
  OBVIOUS
<1>1. busy \in BOOLEAN /\ ended \in BOOLEAN /\ cancelled \in BOOLEAN /\ closed \in BOOLEAN
  BY DEF Init
<1>2. n \in 0..MaxN /\ next \in 1..(MaxN + 1) /\ result \in 0..MaxN
  BY DEF Init
<1> QED
  BY <1>1, <1>2 DEF Init, TypeOK, WorkerStates

LEMMA NextPoolType == TypeOK /\ [Next]_vars => TypeOK'
<1> SUFFICES ASSUME TypeOK, [Next]_vars PROVE TypeOK'
  OBVIOUS
<1> USE DEF TypeOK, WorkerStates
<1>1. ASSUME NEW k \in 0..MaxN, Call(k) PROVE TypeOK'
  BY <1>1 DEF Call
<1>2. CASE Close
  BY <1>2 DEF Close
<1>3. CASE Return
  <2>1. errs # <<>> => errs[1] \in 0..MaxN
    OBVIOUS
  <2>2. result' \in 0..MaxN
    BY <1>3, <2>1 DEF Return
  <2>3. busy' \in BOOLEAN /\ cancelled' \in BOOLEAN
    BY <1>3 DEF Return
  <2> QED
    BY <1>3, <2>2, <2>3 DEF Return
<1>4. CASE End
  BY <1>4 DEF End
<1>5. ASSUME NEW w \in Workers, Worker(w) PROVE TypeOK'
  <2>1. CASE Handoff(w)
    <3>1. next <= n /\ next' = next + 1 /\ next \in 0..MaxN
      BY <2>1 DEF Handoff
    <3>2. next' \in 1..(MaxN + 1)
      BY <3>1
    <3>3. wk' \in [Workers -> WorkerStates]
      BY <2>1 DEF Handoff
    <3>4. job' \in [Workers -> 0..MaxN]
      BY <2>1, <3>1 DEF Handoff
    <3> QED
      BY <2>1, <3>2, <3>3, <3>4 DEF Handoff
  <2>2. CASE WorkOK(w)
    BY <2>2 DEF WorkOK
  <2>3. CASE WorkFails(w)
    BY <2>3 DEF WorkFails
  <2>4. CASE SendErr(w)
    BY <2>4 DEF SendErr
  <2>5. CASE Cancel(w) \/ Exit(w)
    BY <2>5 DEF Cancel, Exit
  <2> QED
    BY <1>5, <2>1, <2>2, <2>3, <2>4, <2>5 DEF Worker
<1>6. CASE UNCHANGED vars
  BY <1>6 DEF vars
<1> QED
  BY <1>1, <1>2, <1>3, <1>4, <1>5, <1>6 DEF Next

\* Every variable keeps its type.
THEOREM PoolTypeCorrect == Spec => []TypeOK
  BY InitPoolType, NextPoolType, PTL DEF Spec

-----------------------------------------------------------------------------
(* The pool: the inductive invariant. *)

\* Where the pool stands: who runs, and when it may stop.
PoolInv ==
    /\ \A w \in Workers : w \notin Pool(n) => wk[w] = "off"
    /\ busy => n # 0 /\ \A w \in Pool(n) : wk[w] # "off"
    /\ ~busy => closed /\ \A w \in Workers : wk[w] \in {"off", "exit"}
    /\ \A w \in Workers : wk[w] = "exit" => closed

\* Which indices are whose: each was handed out once, to one worker.
JobInv ==
    /\ next <= n + 1
    /\ done \cup failed \subseteq 1..(next - 1)
    /\ \A w \in Workers : wk[w] \in {"work", "send", "cancel"} => job[w] \in 1..(next - 1)
    /\ \A w \in Workers : wk[w] = "work" => job[w] \notin done \cup failed
    /\ \A w, x \in Workers : wk[w] = "work" /\ wk[x] = "work" /\ w # x => job[w] # job[x]

\* What an error leaves behind: a value in the channel, or a worker about to send it.
ErrInv ==
    /\ \A k \in 1..Len(errs) : errs[k] \in failed
    /\ \A w \in Workers : wk[w] = "send" => job[w] \in failed
    /\ \A w \in Workers : wk[w] \in {"cancel", "drain"} => errs # <<>>
    /\ failed # {} => errs # <<>> \/ \E w \in Workers : wk[w] = "send"

\* The producer stops early only for an error or the caller; until an error is sent
\* every index handed out is done, failed or in work.
StopInv ==
    /\ busy /\ cancelled => ended \/ errs # <<>>
    /\ busy /\ closed => next > n \/ cancelled
    /\ errs = <<>> => \A i \in 1..(next - 1) :
         i \in done \cup failed \/ \E w \in Workers : wk[w] = "work" /\ job[w] = i

FanInv == PoolInv /\ JobInv /\ ErrInv /\ StopInv

LEMMA InitFanInv == Init => FanInv
  BY DEF Init, FanInv, PoolInv, JobInv, ErrInv, StopInv, Pool

LEMMA NextPoolInv == TypeOK /\ FanInv /\ [Next]_vars => PoolInv'
<1> SUFFICES ASSUME TypeOK, FanInv, [Next]_vars PROVE PoolInv'
  OBVIOUS
<1> USE DEF FanInv, PoolInv, Pool, TypeOK
<1>1. ASSUME NEW k \in 0..MaxN, Call(k) PROVE PoolInv'
  <2>1. n' = k /\ (busy' <=> k # 0) /\ (closed' <=> k = 0)
    BY <1>1 DEF Call
  <2>2. \A w \in Workers : wk'[w] = IF w <= k THEN "recv" ELSE "off"
    BY <1>1 DEF Call
  <2>3. k \in Nat /\ Workers \subseteq Nat
    BY FanOutAssumption, GroundingAssumption DEF Workers
  <2>4. k # 0 => \A w \in Pool(k) : wk'[w] # "off"
    BY <2>2
  <2>5. k = 0 => \A w \in Workers : wk'[w] = "off"
    BY <2>2, <2>3 DEF Workers
  <2>6. \A w \in Workers : (w \notin Pool(k) => wk'[w] = "off") /\ wk'[w] # "exit"
    BY <2>2
  <2> HIDE DEF TypeOK, FanInv
  <2> QED
    BY <2>1, <2>4, <2>5, <2>6
<1>2. CASE Close \/ End
  BY <1>2 DEF Close, End
<1>3. CASE Return
  BY <1>3 DEF Return
<1>4. ASSUME NEW w \in Workers, Worker(w) PROVE PoolInv'
  BY <1>4 DEF Worker, Handoff, WorkOK, WorkFails, SendErr, Cancel, Exit
<1>5. CASE UNCHANGED vars
  BY <1>5 DEF vars
<1> QED
  BY <1>1, <1>2, <1>3, <1>4, <1>5 DEF Next

\* Either the index goes to worker w or nobody's state changes.
LEMMA HandoffEffect ==
  ASSUME TypeOK, NEW w \in Workers, Handoff(w), NEW x \in Workers
  PROVE  (wk'[x] = wk[x] /\ job'[x] = job[x]) \/ (x = w /\ wk'[x] = "work" /\ job'[x] = next)
<1>0. wk \in [Workers -> WorkerStates] /\ job \in [Workers -> 0..MaxN]
  BY DEF TypeOK
<1>1. CASE wk' = wk /\ job' = job
  BY <1>1
<1>2. CASE wk' = [wk EXCEPT ![w] = "work"] /\ job' = [job EXCEPT ![w] = next]
  BY <1>0, <1>2
<1> QED
  BY <1>1, <1>2 DEF Handoff

LEMMA NextJobInv == TypeOK /\ FanInv /\ [Next]_vars => JobInv'
<1> SUFFICES ASSUME TypeOK, FanInv, [Next]_vars PROVE JobInv'
  OBVIOUS
<1> USE DEF FanInv, JobInv, TypeOK
<1>1. ASSUME NEW k \in 0..MaxN, Call(k) PROVE JobInv'
  BY <1>1 DEF Call
<1>2. CASE Close \/ End \/ Return
  BY <1>2 DEF Close, End, Return
<1>4. ASSUME NEW w \in Workers, Worker(w) PROVE JobInv'
  <2>1. CASE Handoff(w)
    <3>1. next' = next + 1 /\ next <= n /\ UNCHANGED <<n, done, failed>>
      BY <2>1 DEF Handoff
    <3>2. ASSUME NEW x \in Workers
          PROVE  (wk'[x] = wk[x] /\ job'[x] = job[x])
                   \/ (x = w /\ wk'[x] = "work" /\ job'[x] = next)
      <4> HIDE DEF FanInv, JobInv, TypeOK
      <4> QED
        BY <2>1, HandoffEffect
    <3>3. next' <= n' + 1 /\ done' \cup failed' \subseteq 1..(next' - 1)
      BY <3>1
    <3>4. \A x \in Workers : wk'[x] \in {"work", "send", "cancel"} => job'[x] \in 1..(next' - 1)
      BY <3>1, <3>2
    <3>5. ASSUME NEW x \in Workers, wk'[x] = "work" PROVE job'[x] \notin done' \cup failed'
      <4>1. next \notin done \cup failed
        OBVIOUS
      <4>2. wk[x] = "work" => job[x] \notin done \cup failed
        OBVIOUS
      <4> HIDE DEF FanInv, JobInv, TypeOK
      <4> QED
        BY <4>1, <4>2, <3>1, <3>2, <3>5
    <3>6. \A x, y \in Workers :
            wk'[x] = "work" /\ wk'[y] = "work" /\ x # y => job'[x] # job'[y]
      <4> SUFFICES ASSUME NEW x \in Workers, NEW y \in Workers,
                          wk'[x] = "work", wk'[y] = "work", x # y
                   PROVE  job'[x] # job'[y]
        OBVIOUS
      <4>0. next \in Nat /\ \A v \in Workers : job[v] \in Nat
        OBVIOUS
      <4>1. \A v \in Workers : wk[v] = "work" => job[v] # next
        BY <4>0
      <4>2. wk[x] = "work" /\ wk[y] = "work" => job[x] # job[y]
        OBVIOUS
      <4> HIDE DEF FanInv, JobInv, TypeOK
      <4>3. CASE x = w
        BY <4>1, <4>2, <4>3, <3>2
      <4>4. CASE y = w
        BY <4>1, <4>2, <4>4, <3>2
      <4>5. CASE x # w /\ y # w
        BY <4>2, <4>5, <3>2
      <4> QED
        BY <4>3, <4>4, <4>5
    <3> QED
      BY <3>3, <3>4, <3>5, <3>6
  <2>2. CASE WorkOK(w)
    BY <2>2 DEF WorkOK
  <2>3. CASE WorkFails(w)
    BY <2>3 DEF WorkFails
  <2>4. CASE SendErr(w) \/ Cancel(w) \/ Exit(w)
    BY <2>4 DEF SendErr, Cancel, Exit
  <2> QED
    BY <1>4, <2>1, <2>2, <2>3, <2>4 DEF Worker
<1>5. CASE UNCHANGED vars
  BY <1>5 DEF vars
<1> QED
  BY <1>1, <1>2, <1>4, <1>5 DEF Next

LEMMA NextErrInv == TypeOK /\ FanInv /\ [Next]_vars => ErrInv'
<1> SUFFICES ASSUME TypeOK, FanInv, [Next]_vars PROVE ErrInv'
  OBVIOUS
<1> USE DEF FanInv, ErrInv, TypeOK
<1>1. ASSUME NEW k \in 0..MaxN, Call(k) PROVE ErrInv'
  BY <1>1 DEF Call
<1>2. CASE Close \/ End \/ Return
  BY <1>2 DEF Close, End, Return
<1>4. ASSUME NEW w \in Workers, Worker(w) PROVE ErrInv'
  <2>1. CASE Handoff(w) \/ Cancel(w) \/ Exit(w)
    BY <2>1 DEF Handoff, Cancel, Exit
  <2>2. CASE WorkOK(w)
    BY <2>2 DEF WorkOK
  <2>3. CASE WorkFails(w)
    BY <2>3 DEF WorkFails
  <2>4. CASE SendErr(w)
    <3>1. errs' = Append(errs, job[w]) /\ job[w] \in failed /\ UNCHANGED <<failed, job>>
      BY <2>4 DEF SendErr
    <3>2. errs' # <<>> /\ \A k \in 1..Len(errs') : errs'[k] \in failed'
      <4>1. errs \in Seq(0..MaxN) /\ job[w] \in 0..MaxN
        OBVIOUS
      <4>2. \A k \in 1..Len(errs) : errs[k] \in failed
        OBVIOUS
      <4> HIDE DEF FanInv, ErrInv, TypeOK
      <4> QED
        BY <4>1, <4>2, <3>1
    <3>3. \A x \in Workers : wk'[x] = wk[x] \/ wk'[x] = "cancel"
      BY <2>4 DEF SendErr
    <3> QED
      BY <3>1, <3>2, <3>3
  <2> QED
    BY <1>4, <2>1, <2>2, <2>3, <2>4 DEF Worker
<1>5. CASE UNCHANGED vars
  BY <1>5 DEF vars
<1> QED
  BY <1>1, <1>2, <1>4, <1>5 DEF Next

LEMMA NextStopInv == TypeOK /\ FanInv /\ [Next]_vars => StopInv'
<1> SUFFICES ASSUME TypeOK, FanInv, [Next]_vars PROVE StopInv'
  OBVIOUS
<1>0. StopInv
  BY DEF FanInv
<1>1. ASSUME NEW k \in 0..MaxN, Call(k) PROVE StopInv'
  <2>1. cancelled' = ended /\ ended' = ended /\ next' = 1 /\ (busy' /\ closed' => FALSE)
    BY <1>1 DEF Call
  <2> QED
    BY <2>1 DEF StopInv
<1>2. CASE Close
  BY <1>0, <1>2 DEF Close, StopInv
<1>3. CASE End
  BY <1>0, <1>3 DEF End, StopInv
<1>4. CASE Return
  BY <1>0, <1>4 DEF Return, StopInv
<1>5. ASSUME NEW w \in Workers, Worker(w) PROVE StopInv'
  <2>0. wk \in [Workers -> WorkerStates] /\ job \in [Workers -> 0..MaxN] /\ next \in Nat
    BY DEF TypeOK
  <2>1. CASE Handoff(w)
    <3>1. ~closed /\ next' = next + 1
          /\ UNCHANGED <<busy, n, ended, cancelled, closed, errs, done, failed>>
      BY <2>1 DEF Handoff
    <3>2. ASSUME errs' = <<>>, NEW i \in 1..(next' - 1)
          PROVE  i \in done' \cup failed' \/ \E x \in Workers : wk'[x] = "work" /\ job'[x] = i
      <4>1. wk[w] = "recv" /\ wk' = [wk EXCEPT ![w] = "work"] /\ job' = [job EXCEPT ![w] = next]
        BY <2>1, <3>1, <3>2 DEF Handoff, FanInv, ErrInv
      <4>2. CASE i = next
        BY <2>0, <4>1, <4>2
      <4>3. CASE i \in 1..(next - 1)
        BY <1>0, <2>0, <3>1, <3>2, <4>1, <4>3 DEF StopInv
      <4> QED
        BY <2>0, <3>1, <4>2, <4>3
    <3> QED
      BY <1>0, <3>1, <3>2 DEF StopInv
  <2>2. CASE WorkOK(w)
    BY <1>0, <2>0, <2>2 DEF WorkOK, StopInv
  <2>3. CASE WorkFails(w)
    BY <1>0, <2>0, <2>3 DEF WorkFails, StopInv
  <2>4. CASE SendErr(w)
    <3>0. errs \in Seq(0..MaxN) /\ job[w] \in 0..MaxN
      BY DEF TypeOK
    <3>1. errs' # <<>>
      BY <2>4, <3>0 DEF SendErr
    <3> QED
      BY <1>0, <2>4, <3>1 DEF SendErr, StopInv
  <2>5. CASE Cancel(w)
    <3>1. errs # <<>>
      BY <2>5 DEF Cancel, FanInv, ErrInv
    <3> QED
      BY <1>0, <2>5, <3>1 DEF Cancel, StopInv
  <2>6. CASE Exit(w)
    BY <1>0, <2>0, <2>6 DEF Exit, StopInv
  <2> QED
    BY <1>5, <2>1, <2>2, <2>3, <2>4, <2>5, <2>6 DEF Worker
<1>6. CASE UNCHANGED vars
  BY <1>0, <1>6 DEF vars, StopInv
<1> QED
  BY <1>1, <1>2, <1>3, <1>4, <1>5, <1>6 DEF Next

LEMMA FanInvAlways == Spec => []FanInv
<1>1. TypeOK /\ FanInv /\ [Next]_vars => FanInv'
  BY NextPoolInv, NextJobInv, NextErrInv, NextStopInv DEF FanInv
<1> QED
  BY <1>1, InitFanInv, PoolTypeCorrect, PTL DEF Spec

\* Nothing of a call is left when it has returned, although it waits for the workers
\* only: a worker leaves its loop because the producer has closed the channel.
THEOREM NothingLeaks == Spec => []NoLeak
<1>1. FanInv => NoLeak
  BY DEF FanInv, PoolInv, NoLeak
<1> QED
  BY <1>1, FanInvAlways, PTL

-----------------------------------------------------------------------------
(* The pool: the refinement. *)

LEMMA InitRefines == Init => Promise!Init
  BY DEF Init, Promise!Init, Promise!Nil

LEMMA ReturnRefines ==
  ASSUME TypeOK, FanInv, Return
  PROVE  Promise!Return
<1> USE DEF Return, TypeOK, FanInv
<1>1. \A w \in Workers : wk[w] \in {"off", "exit"}
  BY DEF PoolInv, Pool
<1>2. closed
  <2>1. n \in Nat /\ n # 0 /\ 1 \in Workers
    BY FanOutAssumption, GroundingAssumption DEF PoolInv, Workers
  <2>2. 1 \in Pool(n)
    BY <2>1 DEF Pool
  <2>3. wk[1] = "exit"
    BY <2>2
  <2>4. wk[1] = "exit" => closed
    BY <2>1 DEF PoolInv
  <2> QED
    BY <2>3, <2>4
<1>3. CASE errs = <<>>
  <2>1. failed = {}
    BY <1>1, <1>3 DEF ErrInv
  <2>2. ended \/ next > n
    BY <1>2, <1>3 DEF StopInv
  <2>3. next > n => done = 1..n
    <3>1. ASSUME next > n PROVE \A i \in 1..n : i \in done
      BY <1>1, <1>3, <2>1, <3>1 DEF StopInv
    <3>2. done \subseteq 1..n
      BY DEF JobInv
    <3> QED
      BY <3>1, <3>2
  <2> QED
    BY <1>3, <2>1, <2>2, <2>3 DEF Promise!Return, Promise!Nil
<1>4. CASE errs # <<>>
  <2>1. 1 \in 1..Len(errs)
    BY <1>4
  <2>2. errs[1] \in failed
    BY <2>1 DEF ErrInv
  <2> QED
    BY <1>4, <2>2 DEF Promise!Return
<1> QED
  BY <1>3, <1>4

LEMMA NextRefines ==
  TypeOK /\ FanInv /\ [Next]_vars => [Promise!Next]_(Promise!callVars)
<1> SUFFICES ASSUME TypeOK, FanInv, [Next]_vars
             PROVE  Promise!Next \/ UNCHANGED Promise!callVars
  OBVIOUS
<1> USE DEF Promise!callVars
<1>1. ASSUME NEW k \in 0..MaxN, Call(k) PROVE Promise!Next
  BY <1>1 DEF Call, Promise!Next, Promise!Call, Promise!Nil
<1>2. CASE Close
  BY <1>2 DEF Close
<1>3. CASE Return
  BY <1>3, ReturnRefines DEF Promise!Next
<1>4. CASE End
  BY <1>4 DEF End, Promise!Next, Promise!End
<1>5. ASSUME NEW w \in Workers, Worker(w)
      PROVE  Promise!Next \/ UNCHANGED Promise!callVars
  <2>1. CASE WorkOK(w) \/ WorkFails(w)
    <3>1. wk[w] = "work"
      BY <2>1 DEF WorkOK, WorkFails
    <3>2. busy
      BY <3>1 DEF FanInv, PoolInv, TypeOK
    <3>3. job[w] \in 1..(next - 1) /\ job[w] \notin done \cup failed /\ next <= n + 1
      BY <3>1 DEF FanInv, JobInv
    <3>4. next \in Nat /\ n \in Nat
      BY DEF TypeOK
    <3>5. job[w] \in 1..n \ (done \cup failed)
      BY <3>3, <3>4
    <3> QED
      BY <2>1, <3>2, <3>5 DEF WorkOK, WorkFails, Promise!Next, Promise!Do
  <2>2. CASE Handoff(w) \/ SendErr(w) \/ Cancel(w) \/ Exit(w)
    BY <2>2 DEF Handoff, SendErr, Cancel, Exit
  <2> QED
    BY <1>5, <2>1, <2>2 DEF Worker
<1>6. CASE UNCHANGED vars
  BY <1>6 DEF vars
<1> QED
  BY <1>1, <1>2, <1>3, <1>4, <1>5, <1>6 DEF Next

\* The pool of goroutines keeps the promise a caller relies on: nil never hides an
\* index that was not done, and an error is one that some work(i) returned.
THEOREM Refinement == Spec => ImplementsCall
<1>1. Init => Promise!Init
  BY InitRefines
<1>2. TypeOK /\ FanInv /\ [Next]_vars => [Promise!Next]_(Promise!callVars)
  BY NextRefines
<1> QED
  BY <1>1, <1>2, PoolTypeCorrect, FanInvAlways, PTL DEF Spec, ImplementsCall, Promise!Spec

-----------------------------------------------------------------------------
(* The lookups: the inductive invariant. *)

USE DEF Main, Callers, Families, Keys

InPool == phase \in {"primitive", "practices"}

\* The lookups of family f have all ended, and none of them with an auth answer.
Past(f) ==
    \/ phase \in {"finish", "bundle", "wipeout"}
    \/ f = "primitive" /\ phase \in {"practices", "composition"}
    \/ f = "practices" /\ phase = "composition"

\* No lookup of family f has ended.
Ahead(f) ==
    \/ phase = "start"
    \/ f = "practices" /\ phase = "primitive"
    \/ f = "composition" /\ phase \in {"primitive", "practices", "composition"}

\* Where the calling goroutine and the lookups stand.
CallerInv ==
    /\ InPool => n = count[phase]
    /\ ~InPool => ~busy
    /\ count["composition"] \in {0, 1}
    /\ phase = "composition" => count["composition"] = 1
    /\ \A c \in Callers : try[c] # "idle" => Looking(c)

\* What a call of fanOut that is over says of the work done.
ResultInv ==
    ~busy => /\ result = Nil <=> failed = {}
             /\ result # Nil => result \in failed
             /\ failed = {} /\ ~ended => done = 1..n

\* What is recorded of a key agrees with the answer to its lookup, made once.
RecordInv ==
    \A f \in Families, i \in Keys :
      /\ <<f, i>> \in misses <=> answer[f][i] = "failed"
      /\ slots[f][i] = "data" <=> answer[f][i] = "data"
      /\ slots[f][i] = "missing" <=> answer[f][i] \in {"absent", "failed"}
      /\ answer[f][i] # "none" => i <= count[f]

\* How far each family has come.
ProgressInv ==
    /\ \A f \in Families, i \in Keys :
         /\ Ahead(f) => answer[f][i] = "none"
         /\ Past(f) => /\ answer[f][i] # "auth"
                       /\ i <= count[f] /\ slots[f][i] = "unset" => ended
    /\ InPool => \A i \in Keys :
         /\ i \in failed <=> answer[phase][i] = "auth"
         /\ i \in done <=> answer[phase][i] \in {"data", "absent", "failed"}

\* fetched counts definitive answers: at most one per key, and zero only without one.
FetchedInv ==
    /\ fetched = 0 <=> \A f \in Families, i \in Keys : answer[f][i] \notin {"data", "absent"}
    /\ phase = "start" => fetched = 0
    /\ phase = "primitive" => fetched <= Cardinality(done)
    /\ phase = "practices" => fetched <= MaxN + Cardinality(done)
    /\ phase = "composition" => fetched <= 2 * MaxN

VerdictInv ==
    /\ phase = "auth" => \E k \in AllKeys : Said(k) = "auth"
    /\ phase = "wipeout" => fetched = 0
    /\ phase = "bundle" => fetched # 0 \/ misses = {}

Inv == CallerInv /\ ResultInv /\ RecordInv /\ ProgressInv /\ FetchedInv /\ VerdictInv

-----------------------------------------------------------------------------
(* What the lookups do to the pool. *)

LEMMA InitPool == BuildInit => Init
  BY DEF BuildInit

\* A step of the audit's lookups is a step of fanOut, or changes nothing of it.
LEMMA NextPool == BuildTypeOK /\ [BuildNext]_buildVars => [Next]_vars
<1> SUFFICES ASSUME BuildTypeOK, [BuildNext]_buildVars PROVE Next \/ UNCHANGED vars
  OBVIOUS
<1> USE DEF vars, buildVars
<1>1. \A f \in Families : count[f] \in 0..MaxN
  BY DEF BuildTypeOK
<1>2. CASE LookupPrimitives \/ LookupPractices
  <2>1. PICK k \in 0..MaxN : Call(k)
    BY <1>1, <1>2 DEF LookupPrimitives, LookupPractices
  <2> QED
    BY <2>1 DEF Next
<1>3. CASE LookupComposition \/ AbortFanOut \/ Finish
  BY <1>3 DEF LookupComposition, AbortFanOut, Finish
<1>4. CASE BuildReturn \/ BuildClose \/ BuildEnd
  BY <1>4 DEF BuildReturn, BuildClose, BuildEnd, Next
<1>5. ASSUME NEW c \in Callers, Lookup(c) PROVE Next \/ UNCHANGED vars
  <2>1. CASE Request(c) \/ Backoff(c) \/ Retry(c)
    BY <2>1 DEF Request, Backoff, Retry
  <2>2. CASE Definitive(c) \/ Transient(c) \/ Auth(c)
    <3>1. UNCHANGED vars \/ (c # Main /\ (WorkOK(c) \/ WorkFails(c)))
      <4>1. CASE Definitive(c) \/ Transient(c)
        <5>1. EndLookup(c)
          BY <4>1 DEF Definitive, Transient
        <5> QED
          BY <5>1 DEF EndLookup
      <4>2. CASE Auth(c)
        BY <4>2 DEF Auth
      <4> QED
        BY <2>2, <4>1, <4>2
    <3>2. ASSUME c # Main, WorkOK(c) \/ WorkFails(c) PROVE Next
      BY <3>2 DEF Next, Worker
    <3> QED
      BY <3>1, <3>2
  <2> QED
    BY <1>5, <2>1, <2>2 DEF Lookup
<1>6. ASSUME NEW w \in Workers, BuildHandoff(w) \/ BuildSendErr(w) \/ BuildCancel(w) \/ BuildExit(w)
      PROVE Next
  BY <1>6 DEF BuildHandoff, BuildSendErr, BuildCancel, BuildExit, Next, Worker
<1>7. CASE UNCHANGED buildVars
  BY <1>7 DEF buildVars
<1> QED
  BY <1>2, <1>3, <1>4, <1>5, <1>6, <1>7 DEF BuildNext, Caller, BuildWorker

\* A worker at work, and the caller at the composition lookup, are at a key of the
\* present family that has no answer yet.
LEMMA LookingAt ==
    ASSUME BuildTypeOK, FanInv, Inv, NEW c \in Callers, Looking(c)
    PROVE  /\ phase \in Families
           /\ Key(c) \in Keys /\ Key(c) <= count[phase]
           /\ answer[phase][Key(c)] = "none"
           /\ c # Main => InPool /\ busy /\ Key(c) \notin done \cup failed
           /\ c = Main => phase = "composition"
<1>1. CASE c = Main
  <2>1. phase = "composition" /\ count[phase] = 1 /\ 1 <= MaxN
    BY <1>1 DEF Looking, Inv, CallerInv, BuildTypeOK
  <2>2. answer[phase][1] = "none"
    BY <2>1 DEF Inv, ProgressInv, Ahead
  <2> QED
    BY <1>1, <2>1, <2>2 DEF Key
<1>2. CASE c # Main
  <2>1. wk[c] = "work" /\ c \in Workers
    BY <1>2 DEF Looking
  <2>2. busy
    BY <2>1 DEF FanInv, PoolInv
  <2>3. InPool /\ n = count[phase]
    BY <2>2 DEF Inv, CallerInv
  <2>4. job[c] \in 1..(next - 1) /\ next <= n + 1 /\ job[c] \notin done \cup failed
    BY <2>1 DEF FanInv, JobInv
  <2>5. next \in Nat /\ n \in 0..MaxN
    BY DEF BuildTypeOK, TypeOK
  <2>6. job[c] \in Keys /\ job[c] <= count[phase]
    BY <2>3, <2>4, <2>5
  <2>7. answer[phase][job[c]] = "none"
    BY <2>3, <2>4, <2>6 DEF Inv, ProgressInv, InPool, BuildTypeOK
  <2> QED
    BY <1>2, <2>2, <2>3, <2>4, <2>6, <2>7 DEF Key, InPool
<1> QED
  BY <1>1, <1>2

LEMMA NextFanInv == BuildTypeOK /\ FanInv /\ [BuildNext]_buildVars => FanInv' /\ TypeOK'
<1> SUFFICES ASSUME BuildTypeOK, FanInv, [BuildNext]_buildVars PROVE FanInv' /\ TypeOK'
  OBVIOUS
<1>1. TypeOK /\ [Next]_vars
  BY NextPool DEF BuildTypeOK
<1>2. TypeOK'
  BY <1>1, NextPoolType
<1>3. PoolInv' /\ JobInv' /\ ErrInv' /\ StopInv'
  BY <1>1, NextPoolInv, NextJobInv, NextErrInv, NextStopInv
<1> QED
  BY <1>2, <1>3 DEF FanInv

\* The indices done, and their number.
LEMMA DoneSize ==
    ASSUME NEW D \in SUBSET (1..MaxN)
    PROVE  IsFiniteSet(D) /\ Cardinality(D) \in 0..MaxN
<1>1. IsFiniteSet(1..MaxN) /\ Cardinality(1..MaxN) = MaxN
  BY 1 \in Int, MaxN \in Int, FS_Interval
<1>2. IsFiniteSet(D) /\ Cardinality(D) <= MaxN
  BY <1>1, FS_Subset
<1> QED
  BY <1>2, FS_CardinalityType

LEMMA UpToNext ==
    ASSUME NEW m \in 1..(MaxN + 1), NEW D \in SUBSET (1..(m - 1)) PROVE D \in SUBSET (1..MaxN)
<1>1. m - 1 <= MaxN
  OBVIOUS
<1> QED
  BY <1>1

LEMMA DoneRange == TypeOK /\ FanInv => done \subseteq 1..MaxN
  BY DEF TypeOK, FanInv, JobInv

LEMMA NoneLooking == FanInv /\ Inv /\ ~busy => \A w \in Workers : wk[w] # "work" /\ try[w] = "idle"
  BY DEF FanInv, PoolInv, Inv, CallerInv, Looking

LEMMA CountFixed == [BuildNext]_buildVars => count' = count
<1> SUFFICES ASSUME [BuildNext]_buildVars PROVE count' = count
  OBVIOUS
<1>1. CASE Caller \/ \E c \in Workers : Lookup(c)
  <2>1. ASSUME NEW c \in Callers, Lookup(c) PROVE count' = count
    <3>1. CASE Definitive(c) \/ Transient(c) \/ Auth(c)
      BY <3>1 DEF Definitive, Transient, Auth, EndLookup
    <3> QED
      BY <2>1, <3>1 DEF Lookup, Request, Backoff, Retry
  <2>2. CASE LookupPrimitives \/ LookupPractices \/ LookupComposition \/ AbortFanOut \/ Finish
    BY <2>2 DEF LookupPrimitives, LookupPractices, LookupComposition, AbortFanOut, Finish
  <2>3. CASE BuildReturn
    BY <2>3 DEF BuildReturn, Rest
  <2> QED
    BY <1>1, <2>1, <2>2, <2>3 DEF Caller
<1> QED
  BY <1>1 DEF BuildNext, BuildWorker, BuildClose, BuildEnd, BuildHandoff, BuildSendErr, BuildCancel, BuildExit, Rest, buildVars

-----------------------------------------------------------------------------
(* Where the calling goroutine and the lookups stand. *)

LEMMA NextCallerInv == BuildTypeOK /\ FanInv /\ Inv /\ [BuildNext]_buildVars => CallerInv'
<1> SUFFICES ASSUME BuildTypeOK, FanInv, Inv, [BuildNext]_buildVars PROVE CallerInv'
  OBVIOUS
<1>0. CallerInv /\ count' = count /\ try \in [Callers -> {"idle", "try1", "backoff", "try2"}]
  BY CountFixed DEF Inv, BuildTypeOK
<1> USE DEF CallerInv, InPool, Looking
<1>1. CASE LookupPrimitives \/ LookupPractices
  <2>1. ~busy /\ try[Main] = "idle"
    BY <1>0, <1>1 DEF LookupPrimitives, LookupPractices
  <2>2. \A c \in Callers : try'[c] = "idle"
    BY <1>1, <2>1, NoneLooking DEF LookupPrimitives, LookupPractices
  <2>3. phase' \in {"primitive", "practices"} /\ n' = count[phase']
    BY <1>1 DEF LookupPrimitives, LookupPractices, Call
  <2> QED
    BY <1>0, <2>2, <2>3
<1>2. CASE LookupComposition \/ AbortFanOut \/ Finish
  <2>1. ~busy /\ try[Main] = "idle"
    BY <1>0, <1>2 DEF LookupComposition, AbortFanOut, Finish
  <2>2. \A c \in Callers : try'[c] = "idle"
    BY <1>2, <2>1, NoneLooking DEF LookupComposition, AbortFanOut, Finish
  <2>3. ~busy' /\ phase' \notin {"primitive", "practices"}
        /\ (phase' = "composition" => count["composition"] # 0)
    BY <1>2, <2>1 DEF LookupComposition, AbortFanOut, Finish, vars
  <2> QED
    BY <1>0, <2>2, <2>3
<1>3. CASE BuildClose \/ BuildEnd \/ BuildReturn
  BY <1>0, <1>3 DEF BuildClose, BuildEnd, BuildReturn, Close, End, Return, Rest
<1>4. ASSUME NEW c \in Callers, Request(c) \/ Backoff(c) \/ Retry(c) PROVE CallerInv'
  BY <1>0, <1>4 DEF Request, Backoff, Retry, vars
<1>5. ASSUME NEW c \in Callers, Looking(c), EndLookup(c) \/ Auth(c) PROVE CallerInv'
  <2>1. \A d \in Callers : try'[d] = IF d = c THEN "idle" ELSE try[d]
    BY <1>0, <1>5 DEF EndLookup, Auth
  <2>2. CASE c = Main
    <3>1. phase = "composition" /\ phase' \in {"finish", "auth"} /\ UNCHANGED vars
      BY <1>5, <2>2 DEF EndLookup, Auth
    <3> QED
      BY <1>0, <2>1, <2>2, <3>1 DEF vars
  <2>3. CASE c # Main
    <3>1. WorkOK(c) \/ WorkFails(c)
      BY <1>5, <2>3 DEF EndLookup, Auth
    <3>2. phase' = phase /\ n' = n /\ busy' = busy /\ \A d \in Workers : d # c => wk'[d] = wk[d]
      BY <1>5, <2>3, <3>1 DEF EndLookup, Auth, WorkOK, WorkFails, BuildTypeOK, TypeOK
    <3> QED
      BY <1>0, <2>1, <2>3, <3>2
  <2> QED
    BY <2>2, <2>3
<1>6. ASSUME NEW w \in Workers, BuildHandoff(w) \/ BuildSendErr(w) \/ BuildCancel(w) \/ BuildExit(w)
      PROVE  CallerInv'
  <2>1. n' = n /\ busy' = busy /\ UNCHANGED <<phase, try>>
    BY <1>6 DEF BuildHandoff, BuildSendErr, BuildCancel, BuildExit, Handoff, SendErr, Cancel, Exit, Rest
  <2>2. \A x \in Workers : wk[x] = "work" => wk'[x] = "work"
    BY <1>6 DEF BuildHandoff, BuildSendErr, BuildCancel, BuildExit, Handoff, SendErr, Cancel, Exit,
                BuildTypeOK, TypeOK
  <2> QED
    BY <1>0, <2>1, <2>2
<1>7. CASE UNCHANGED buildVars
  BY <1>0, <1>7 DEF buildVars, vars
<1>8. ASSUME NEW c \in Callers, Lookup(c) PROVE CallerInv'
  BY <1>4, <1>5, <1>8 DEF Lookup, Definitive, Transient, Auth
<1> QED
  BY <1>1, <1>2, <1>3, <1>6, <1>7, <1>8 DEF BuildNext, Caller, BuildWorker

-----------------------------------------------------------------------------
(* What a call that is over says of the work done. *)

LEMMA NextResultInv == TypeOK /\ FanInv /\ ResultInv /\ [Next]_vars => ResultInv'
<1> SUFFICES ASSUME TypeOK, FanInv, ResultInv, [Next]_vars PROVE ResultInv'
  OBVIOUS
<1> USE DEF ResultInv
<1>1. ASSUME NEW k \in 0..MaxN, Call(k) PROVE ResultInv'
  <2>1. n' = k /\ (busy' <=> k # 0) /\ done' = {} /\ failed' = {} /\ result' = 0
    BY <1>1 DEF Call
  <2>2. k = 0 => 1..k = {}
    OBVIOUS
  <2> QED
    BY <2>1, <2>2
<1>2. CASE Return
  <2>1. busy /\ \A w \in Pool(n) : wk[w] = "exit"
    BY <1>2 DEF Return
  <2>2. \A w \in Workers : wk[w] \in {"exit", "off"}
    BY <2>1 DEF FanInv, PoolInv
  <2>3. closed
    <3>1. 1 \in Pool(n)
      BY <2>1 DEF Pool, FanInv, PoolInv, TypeOK
    <3> QED
      BY <2>1, <3>1 DEF Pool, FanInv, PoolInv
  <2>4. failed # {} <=> errs # <<>>
    <3>1. errs # <<>> => 1 \in 1..Len(errs)
      BY DEF TypeOK
    <3> QED
      BY <2>2, <3>1 DEF FanInv, ErrInv
  <2>5. errs # <<>> => errs[1] \in failed /\ errs[1] # 0
    <3>1. errs # <<>> => 1 \in 1..Len(errs)
      BY DEF TypeOK
    <3> QED
      BY <3>1 DEF FanInv, ErrInv, JobInv
  <2>6. failed = {} /\ ~ended => done = 1..n
    <3> SUFFICES ASSUME failed = {}, ~ended PROVE done = 1..n
      OBVIOUS
    <3>1. errs = <<>> /\ ~cancelled
      BY <2>1, <2>4 DEF FanInv, StopInv
    <3>2. next > n /\ next <= n + 1
      BY <2>1, <2>3, <3>1 DEF FanInv, StopInv, JobInv
    <3>3. next - 1 = n
      BY <3>2 DEF TypeOK
    <3>4. done \subseteq 1..n /\ \A i \in 1..n : i \in done
      BY <2>2, <3>1, <3>3 DEF FanInv, StopInv, JobInv
    <3> QED
      BY <3>4
  <2> QED
    BY <1>2, <2>4, <2>5, <2>6 DEF Return
<1>3. CASE Close \/ End
  BY <1>3 DEF Close, End
<1>4. ASSUME NEW w \in Workers, Worker(w) PROVE ResultInv'
  <2>1. wk[w] \notin {"off", "exit"} /\ busy' = busy
    BY <1>4 DEF Worker, Handoff, WorkOK, WorkFails, SendErr, Cancel, Exit
  <2> QED
    BY <2>1 DEF FanInv, PoolInv
<1>5. CASE UNCHANGED vars
  BY <1>5 DEF vars
<1> QED
  BY <1>1, <1>2, <1>3, <1>4, <1>5 DEF Next

-----------------------------------------------------------------------------
(* What is recorded of a lookup that ends. *)

\* Every step of a lookup that ends it answers its key.
Ends(c) == Definitive(c) \/ Transient(c) \/ Auth(c)

\* Every other step leaves the bundle as it is.
LEMMA BundleKept ==
    ASSUME [BuildNext]_buildVars PROVE UNCHANGED bundle \/ \E c \in Callers : Ends(c)
<1>1. ASSUME NEW c \in Callers, Lookup(c) PROVE UNCHANGED bundle \/ Ends(c)
  BY <1>1 DEF Lookup, Ends, Request, Backoff, Retry, bundle
<1>2. CASE LookupPrimitives \/ LookupPractices \/ LookupComposition \/ AbortFanOut \/ Finish
  BY <1>2 DEF LookupPrimitives, LookupPractices, LookupComposition, AbortFanOut, Finish, bundle
<1>3. CASE BuildReturn \/ BuildClose \/ BuildEnd
  BY <1>3 DEF BuildReturn, BuildClose, BuildEnd, Rest, bundle
<1>4. ASSUME NEW w \in Workers, BuildHandoff(w) \/ BuildSendErr(w) \/ BuildCancel(w) \/ BuildExit(w)
      PROVE  UNCHANGED bundle
  BY <1>4 DEF BuildHandoff, BuildSendErr, BuildCancel, BuildExit, Rest, bundle
<1>5. CASE UNCHANGED buildVars
  BY <1>5 DEF buildVars, bundle
<1> QED
  BY <1>1, <1>2, <1>3, <1>4, <1>5 DEF BuildNext, Caller, BuildWorker

LEMMA EndsEffect ==
    ASSUME BuildTypeOK, FanInv, Inv, NEW c \in Callers, Ends(c)
    PROVE  /\ Looking(c)
           /\ \E a \in {"data", "absent", "auth", "failed"} :
                /\ \A f \in Families, i \in Keys :
                     answer'[f][i] = IF f = phase /\ i = Key(c) THEN a ELSE answer[f][i]
                /\ \A f \in Families, i \in Keys :
                     slots'[f][i] = IF f = phase /\ i = Key(c) /\ a # "auth"
                                   THEN IF a = "data" THEN "data" ELSE "missing"
                                   ELSE slots[f][i]
                /\ misses' = IF a = "failed" THEN misses \cup {<<phase, Key(c)>>} ELSE misses
                /\ fetched' = IF a \in {"data", "absent"} THEN fetched + 1 ELSE fetched
                /\ c # Main => /\ UNCHANGED <<phase, busy, n, ended>>
                               /\ a = "auth" => done' = done /\ failed' = failed \cup {Key(c)}
                               /\ a # "auth" => failed' = failed /\ done' = done \cup {Key(c)}
                /\ c = Main => /\ UNCHANGED <<busy, n, ended, done, failed>>
                               /\ phase' = IF a = "auth" THEN "auth" ELSE "finish"
<1>1. Looking(c)
  BY DEF Ends, Definitive, Transient, Auth
<1>2. phase \in Families /\ Key(c) \in Keys
  BY <1>1, LookingAt
<1>3. answer \in [Families -> [Keys -> {"none", "data", "absent", "auth", "failed"}]]
      /\ slots \in [Families -> [Keys -> {"unset", "data", "missing"}]]
  BY DEF BuildTypeOK
<1>4. ASSUME EndLookup(c)
      PROVE  /\ c # Main => /\ UNCHANGED <<phase, busy, n, ended, failed>>
                            /\ done' = done \cup {Key(c)}
             /\ c = Main => UNCHANGED <<busy, n, ended, done, failed>> /\ phase' = "finish"
  BY <1>4 DEF EndLookup, WorkOK, vars, Key
<1>5. CASE Definitive(c)
  <2>1. PICK a \in {"data", "absent"} :
          /\ answer' = [answer EXCEPT ![phase][Key(c)] = a]
          /\ slots' = [slots EXCEPT ![phase][Key(c)] = IF a = "data" THEN "data" ELSE "missing"]
    BY <1>5 DEF Definitive
  <2>2. EndLookup(c) /\ fetched' = fetched + 1 /\ misses' = misses
    BY <1>5 DEF Definitive
  <2>3. \A f \in Families, i \in Keys :
          answer'[f][i] = IF f = phase /\ i = Key(c) THEN a ELSE answer[f][i]
    BY <1>2, <1>3, <2>1
  <2>4. \A f \in Families, i \in Keys :
          slots'[f][i] = IF f = phase /\ i = Key(c)
                        THEN IF a = "data" THEN "data" ELSE "missing" ELSE slots[f][i]
    BY <1>2, <1>3, <2>1
  <2> QED
    BY <1>1, <1>4, <2>2, <2>3, <2>4
<1>6. CASE Transient(c)
  <2>1. /\ answer' = [answer EXCEPT ![phase][Key(c)] = "failed"]
        /\ slots' = [slots EXCEPT ![phase][Key(c)] = "missing"]
        /\ misses' = misses \cup {<<phase, Key(c)>>}
        /\ fetched' = fetched /\ EndLookup(c)
    BY <1>6 DEF Transient
  <2>2. \A f \in Families, i \in Keys :
          /\ answer'[f][i] = IF f = phase /\ i = Key(c) THEN "failed" ELSE answer[f][i]
          /\ slots'[f][i] = IF f = phase /\ i = Key(c) THEN "missing" ELSE slots[f][i]
    BY <1>2, <1>3, <2>1
  <2> QED
    BY <1>1, <1>4, <2>1, <2>2
<1>7. CASE Auth(c)
  <2>1. /\ answer' = [answer EXCEPT ![phase][Key(c)] = "auth"]
        /\ slots' = slots /\ misses' = misses /\ fetched' = fetched
    BY <1>7 DEF Auth
  <2>2. \A f \in Families, i \in Keys :
          answer'[f][i] = IF f = phase /\ i = Key(c) THEN "auth" ELSE answer[f][i]
    BY <1>2, <1>3, <2>1
  <2>3. /\ c # Main => /\ UNCHANGED <<phase, busy, n, ended, done>>
                       /\ failed' = failed \cup {Key(c)}
        /\ c = Main => UNCHANGED <<busy, n, ended, done, failed>> /\ phase' = "auth"
    BY <1>7 DEF Auth, WorkFails, vars, Key
  <2> QED
    BY <1>1, <2>1, <2>2, <2>3
<1> QED
  BY <1>5, <1>6, <1>7 DEF Ends

LEMMA NextRecordInv == BuildTypeOK /\ FanInv /\ Inv /\ [BuildNext]_buildVars => RecordInv'
<1> SUFFICES ASSUME BuildTypeOK, FanInv, Inv, [BuildNext]_buildVars PROVE RecordInv'
  OBVIOUS
<1>0. RecordInv /\ count' = count
  BY CountFixed DEF Inv
<1>1. CASE UNCHANGED bundle
  BY <1>0, <1>1 DEF RecordInv, bundle
<1>2. ASSUME NEW c \in Callers, Ends(c) PROVE RecordInv'
  <2>1. Looking(c)
    BY <1>2, EndsEffect
  <2>2. answer[phase][Key(c)] = "none" /\ Key(c) <= count[phase]
    BY <2>1, LookingAt
  <2> QED
    BY <1>0, <1>2, <2>2, EndsEffect DEF RecordInv
<1> QED
  BY <1>1, <1>2, BundleKept

-----------------------------------------------------------------------------
(* How far each family has come. *)

\* A fan-out over its family that returned nil answered every key, or the context ended.
LEMMA FamilyOver ==
    ASSUME BuildTypeOK, Inv, InPool, ~busy, result = Nil, NEW i \in Keys
    PROVE  /\ answer[phase][i] # "auth"
           /\ i <= count[phase] /\ slots[phase][i] = "unset" => ended
<1>1. failed = {} /\ (~ended => done = 1..count[phase])
  BY DEF Inv, CallerInv, ResultInv
<1>2. answer[phase][i] # "auth"
  BY <1>1 DEF Inv, ProgressInv
<1>3. ASSUME i <= count[phase], ~ended PROVE slots[phase][i] # "unset"
  <2>1. phase \in Families /\ count[phase] \in Nat
    BY DEF InPool, BuildTypeOK
  <2>2. i \in done
    BY <1>1, <1>3, <2>1
  <2>3. answer[phase][i] \in {"data", "absent", "failed"}
    BY <2>2 DEF Inv, ProgressInv
  <2> QED
    BY <2>1, <2>3 DEF Inv, RecordInv
<1> QED
  BY <1>2, <1>3

LEMMA NextProgressInv == BuildTypeOK /\ FanInv /\ Inv /\ [BuildNext]_buildVars => ProgressInv'
<1> SUFFICES ASSUME BuildTypeOK, FanInv, Inv, [BuildNext]_buildVars PROVE ProgressInv'
  OBVIOUS
<1>0. ProgressInv /\ RecordInv /\ CallerInv /\ ResultInv /\ count' = count
  BY CountFixed DEF Inv
<1>1. CASE LookupPrimitives
  <2>1. phase = "start" /\ phase' = "primitive" /\ UNCHANGED bundle /\ done' = {} /\ failed' = {}
    BY <1>1 DEF LookupPrimitives, Call
  <2> QED
    BY <1>0, <2>1 DEF ProgressInv, Ahead, Past, InPool, bundle
<1>2. CASE LookupPractices
  <2>1. /\ phase = "primitive" /\ phase' = "practices" /\ ~busy /\ result = Nil
        /\ UNCHANGED <<bundle, ended>> /\ done' = {} /\ failed' = {}
    BY <1>2 DEF LookupPractices, Call
  <2>3. \A i \in Keys :
          /\ answer["primitive"][i] # "auth"
          /\ i <= count["primitive"] /\ slots["primitive"][i] = "unset" => ended
    BY <2>1, FamilyOver DEF InPool
  <2> QED
    BY <1>0, <2>1, <2>3 DEF ProgressInv, Ahead, Past, InPool, bundle
<1>3. CASE LookupComposition
  <2>1. /\ phase = "practices" /\ ~busy /\ result = Nil /\ UNCHANGED <<bundle, ended>>
        /\ phase' = IF count["composition"] = 0 THEN "finish" ELSE "composition"
    BY <1>3 DEF LookupComposition, vars
  <2>3. \A i \in Keys :
          /\ answer["practices"][i] # "auth"
          /\ i <= count["practices"] /\ slots["practices"][i] = "unset" => ended
    BY <2>1, FamilyOver DEF InPool
  <2>4. \A i \in Keys : answer["composition"][i] = "none"
    BY <1>0, <2>1 DEF ProgressInv, Ahead
  <2>5. count["composition"] = 0 => \A i \in Keys : ~ (i <= count["composition"])
    OBVIOUS
  <2> QED
    BY <1>0, <2>1, <2>3, <2>4, <2>5 DEF ProgressInv, Ahead, Past, InPool, bundle
<1>4. CASE AbortFanOut \/ Finish
  BY <1>0, <1>4 DEF AbortFanOut, Finish, ProgressInv, Ahead, Past, InPool, bundle, vars
<1>5. CASE UNCHANGED <<bundle, phase, done, failed>> /\ (ended => ended')
  BY <1>0, <1>5 DEF ProgressInv, Ahead, Past, InPool, bundle
<1>6. ASSUME NEW c \in Callers, Ends(c) PROVE ProgressInv'
  <2>1. Looking(c)
    BY <1>6, EndsEffect
  <2>2. CASE c = Main
    <3>1. phase = "composition" /\ count[phase] = 1 /\ Key(c) = 1
      BY <1>0, <2>1, <2>2 DEF Looking, Key, CallerInv
    <3>2. \A i \in Keys : i <= 1 => i = 1
      OBVIOUS
    <3> QED
      BY <1>0, <1>6, <2>2, <3>1, <3>2, EndsEffect DEF ProgressInv, Ahead, Past, InPool
  <2>3. CASE c # Main
    <3>1. /\ InPool /\ Key(c) \notin done \cup failed /\ Key(c) \in Keys
          /\ answer[phase][Key(c)] = "none"
      BY <2>1, <2>3, LookingAt
    <3> QED
      BY <1>0, <1>6, <2>3, <3>1, EndsEffect DEF ProgressInv, Ahead, Past, InPool
  <2> QED
    BY <2>2, <2>3
<1>7. ASSUME NEW w \in Workers, BuildHandoff(w) \/ BuildSendErr(w) \/ BuildCancel(w) \/ BuildExit(w)
      PROVE  UNCHANGED <<bundle, phase, done, failed, ended>>
  BY <1>7 DEF BuildHandoff, BuildSendErr, BuildCancel, BuildExit, Handoff, SendErr, Cancel, Exit, Rest, bundle
<1>8. CASE BuildReturn \/ BuildClose \/ BuildEnd
  <2>1. UNCHANGED <<bundle, phase, done, failed>> /\ (ended => ended')
    BY <1>8 DEF BuildReturn, BuildClose, BuildEnd, Return, Close, End, Rest, bundle
  <2> QED
    BY <1>5, <2>1
<1>9. ASSUME NEW c \in Callers, Lookup(c) PROVE ProgressInv'
  BY <1>5, <1>6, <1>9 DEF Lookup, Ends, Request, Backoff, Retry, bundle, vars
<1>10. CASE UNCHANGED buildVars
  BY <1>5, <1>10 DEF buildVars, bundle, vars
<1> QED
  BY <1>1, <1>2, <1>3, <1>4, <1>5, <1>7, <1>8, <1>9, <1>10 DEF BuildNext, Caller, BuildWorker

-----------------------------------------------------------------------------
(* The lookups answered, and the verdict. *)

LEMMA NextFetchedInv == BuildTypeOK /\ FanInv /\ Inv /\ [BuildNext]_buildVars => FetchedInv'
<1> SUFFICES ASSUME BuildTypeOK, FanInv, Inv, [BuildNext]_buildVars PROVE FetchedInv'
  OBVIOUS
<1>0. FetchedInv /\ fetched \in Nat /\ Cardinality(done) \in 0..MaxN /\ IsFiniteSet(done)
  BY DoneRange, DoneSize DEF Inv, BuildTypeOK
<1>1. Cardinality({}) = 0
  BY FS_EmptySet
<1>2. CASE LookupPrimitives \/ LookupPractices
  <2>1. UNCHANGED bundle /\ done' = {} /\ phase' \in {"primitive", "practices"}
        /\ (phase' = "primitive" => phase = "start") /\ (phase' = "practices" => phase = "primitive")
    BY <1>2 DEF LookupPrimitives, LookupPractices, Call
  <2> QED
    BY <1>0, <1>1, <2>1 DEF FetchedInv, bundle
<1>3. CASE LookupComposition \/ AbortFanOut \/ Finish
  <2>1. UNCHANGED bundle /\ phase' \notin {"start", "primitive", "practices"}
        /\ (phase' = "composition" => phase = "practices")
    BY <1>3 DEF LookupComposition, AbortFanOut, Finish
  <2> QED
    BY <1>0, <2>1 DEF FetchedInv, bundle
<1>4. ASSUME UNCHANGED <<bundle, phase, done>> PROVE FetchedInv'
  BY <1>0, <1>4 DEF FetchedInv, bundle
<1>5. ASSUME NEW c \in Callers, Ends(c) PROVE FetchedInv'
  <2>1. Looking(c)
    BY <1>5, EndsEffect
  <2>2. /\ phase \in Families /\ Key(c) \in Keys /\ answer[phase][Key(c)] = "none"
        /\ c # Main => InPool /\ Key(c) \notin done
        /\ c = Main => phase = "composition"
    BY <2>1, LookingAt
  <2>3. (fetched = 0 <=> \A f \in Families, i \in Keys : answer[f][i] \notin {"data", "absent"})'
    BY <1>0, <1>5, <2>2, EndsEffect DEF FetchedInv
  <2>4. CASE c = Main
    <3>1. phase' \in {"finish", "auth"}
      BY <1>5, <2>4, EndsEffect
    <3> QED
      BY <2>3, <3>1 DEF FetchedInv
  <2>5. CASE c # Main
    <3>1. Cardinality(done \cup {Key(c)}) = Cardinality(done) + 1
      BY <1>0, <2>2, <2>5, FS_AddElement
    <3>2. /\ phase' = phase
          /\ \/ fetched' = fetched /\ (done' = done \/ done' = done \cup {Key(c)})
             \/ fetched' = fetched + 1 /\ done' = done \cup {Key(c)}
      BY <1>5, <2>5, EndsEffect
    <3>3. /\ Cardinality(done') \in {Cardinality(done), Cardinality(done) + 1}
          /\ \/ fetched' = fetched
             \/ fetched' = fetched + 1 /\ Cardinality(done') = Cardinality(done) + 1
      BY <3>1, <3>2
    <3> QED
      BY <1>0, <2>2, <2>3, <2>5, <3>2, <3>3 DEF FetchedInv, InPool
  <2> QED
    BY <2>4, <2>5
<1>6. ASSUME NEW w \in Workers, BuildHandoff(w) \/ BuildSendErr(w) \/ BuildCancel(w) \/ BuildExit(w)
      PROVE  UNCHANGED <<bundle, phase, done>>
  BY <1>6 DEF BuildHandoff, BuildSendErr, BuildCancel, BuildExit, Handoff, SendErr, Cancel, Exit, Rest, bundle
<1>7. CASE BuildReturn \/ BuildClose \/ BuildEnd
  <2>1. UNCHANGED <<bundle, phase, done>>
    BY <1>7 DEF BuildReturn, BuildClose, BuildEnd, Return, Close, End, Rest, bundle
  <2> QED
    BY <1>4, <2>1
<1>8. ASSUME NEW c \in Callers, Lookup(c) PROVE FetchedInv'
  BY <1>4, <1>5, <1>8 DEF Lookup, Ends, Request, Backoff, Retry, bundle, vars
<1>9. CASE UNCHANGED buildVars
  BY <1>4, <1>9 DEF buildVars, bundle, vars
<1> QED
  BY <1>2, <1>3, <1>4, <1>6, <1>7, <1>8, <1>9 DEF BuildNext, Caller, BuildWorker

LEMMA NextVerdictInv == BuildTypeOK /\ FanInv /\ Inv /\ [BuildNext]_buildVars => VerdictInv'
<1> SUFFICES ASSUME BuildTypeOK, FanInv, Inv, [BuildNext]_buildVars PROVE VerdictInv'
  OBVIOUS
<1>0. VerdictInv /\ count' = count
  BY CountFixed DEF Inv
<1>1. CASE UNCHANGED bundle /\ (phase' \in {"auth", "wipeout", "bundle"} => phase' = phase)
  BY <1>0, <1>1 DEF VerdictInv, bundle, AllKeys, Said
<1>2. CASE LookupPrimitives \/ LookupPractices \/ LookupComposition
  BY <1>1, <1>2 DEF LookupPrimitives, LookupPractices, LookupComposition
<1>3. CASE AbortFanOut
  <2>1. InPool /\ ~busy /\ result # Nil /\ phase' = "auth" /\ UNCHANGED bundle
    BY <1>3 DEF AbortFanOut, InPool
  <2>2. result \in failed /\ result \in Keys
    BY <2>1 DEF Inv, ResultInv, BuildTypeOK, TypeOK
  <2>3. phase \in Families /\ answer[phase][result] = "auth" /\ result <= count[phase]
    BY <2>1, <2>2 DEF InPool, Inv, ProgressInv, RecordInv
  <2>4. <<phase, result>> \in AllKeys /\ Said(<<phase, result>>) = "auth"
    BY <2>2, <2>3 DEF AllKeys, Said
  <2> QED
    BY <1>0, <2>1, <2>4 DEF VerdictInv, AllKeys, Said, bundle
<1>4. CASE Finish
  BY <1>4 DEF Finish, VerdictInv, bundle
<1>5. ASSUME NEW c \in Callers, Ends(c) PROVE VerdictInv'
  <2>1. Looking(c)
    BY <1>5, EndsEffect
  <2>2. /\ phase \in Families /\ Key(c) \in Keys /\ Key(c) <= count[phase]
        /\ c # Main => InPool
        /\ c = Main => phase = "composition"
    BY <2>1, LookingAt
  <2>3. CASE c = Main /\ phase' = "auth"
    <3>1. answer'[phase][Key(c)] = "auth"
      BY <1>5, <2>2, <2>3, EndsEffect
    <3>2. \E k \in Families \X Keys : k[2] <= count'[k[1]] /\ answer'[k[1]][k[2]] = "auth"
      <4>1. <<phase, Key(c)>> \in Families \X Keys
        BY <2>2
      <4> QED
        BY <1>0, <2>2, <3>1, <4>1
    <3> QED
      BY <2>3, <3>2 DEF VerdictInv, AllKeys, Said
  <2>4. CASE ~ (c = Main /\ phase' = "auth")
    <3>1. phase' \notin {"auth", "wipeout", "bundle"}
      BY <1>5, <2>2, <2>4, EndsEffect DEF InPool
    <3> QED
      BY <3>1 DEF VerdictInv
  <2> QED
    BY <2>3, <2>4
<1>6. ASSUME NEW w \in Workers, BuildHandoff(w) \/ BuildSendErr(w) \/ BuildCancel(w) \/ BuildExit(w)
      PROVE  VerdictInv'
  <2>1. UNCHANGED <<bundle, phase>>
    BY <1>6 DEF BuildHandoff, BuildSendErr, BuildCancel, BuildExit, Rest
  <2> QED
    BY <1>1, <2>1
<1>7. CASE BuildReturn \/ BuildClose \/ BuildEnd
  BY <1>1, <1>7 DEF BuildReturn, BuildClose, BuildEnd, Rest
<1>8. ASSUME NEW c \in Callers, Lookup(c) PROVE VerdictInv'
  BY <1>1, <1>5, <1>8 DEF Lookup, Ends, Request, Backoff, Retry
<1>9. CASE UNCHANGED buildVars
  BY <1>1, <1>9 DEF buildVars
<1> QED
  BY <1>2, <1>3, <1>4, <1>6, <1>7, <1>8, <1>9 DEF BuildNext, Caller, BuildWorker

-----------------------------------------------------------------------------
(* The type invariant. *)

LEMMA NextTypeOK == BuildTypeOK /\ FanInv /\ Inv /\ [BuildNext]_buildVars => BuildTypeOK'
<1> SUFFICES ASSUME BuildTypeOK, FanInv, Inv, [BuildNext]_buildVars PROVE BuildTypeOK'
  OBVIOUS
<1>0. TypeOK' /\ FanInv' /\ FetchedInv' /\ count' = count
  BY NextFanInv, NextFetchedInv, CountFixed
<1>1. Cardinality(done') \in 0..MaxN
  <2>1. done' \subseteq 1..(next' - 1)
    BY <1>0 DEF FanInv, JobInv
  <2>2. next' \in 1..(MaxN + 1)
    BY <1>0 DEF TypeOK
  <2> QED
    BY <2>1, <2>2, UpToNext, DoneSize
<1>2. fetched' \in 0..(2 * MaxN + 1)
  <2>1. CASE UNCHANGED bundle
    BY <2>1 DEF bundle, BuildTypeOK
  <2>2. ASSUME NEW c \in Callers, Ends(c) PROVE fetched' \in 0..(2 * MaxN + 1)
    <3>1. fetched \in Nat /\ fetched <= 2 * MaxN + 1 /\ fetched' \in {fetched, fetched + 1}
      BY <2>2, EndsEffect DEF BuildTypeOK
    <3>2. CASE c = Main
      <4>1. Looking(c) /\ phase = "composition"
        BY <2>2, <3>2, EndsEffect, LookingAt
      <4>2. fetched <= 2 * MaxN
        BY <4>1 DEF Inv, FetchedInv
      <4> QED
        BY <3>1, <4>2
    <3>3. CASE c # Main
      <4>1. Looking(c)
        BY <2>2, EndsEffect
      <4>2. phase' \in {"primitive", "practices"}
        BY <2>2, <3>3, <4>1, LookingAt, EndsEffect DEF InPool
      <4>3. fetched' <= MaxN + Cardinality(done')
        BY <1>0, <1>1, <3>1, <4>2 DEF FetchedInv
      <4> QED
        BY <1>1, <3>1, <4>3
    <3> QED
      BY <3>2, <3>3
  <2> QED
    BY <2>1, <2>2, BundleKept
<1>3. /\ slots' \in [Families -> [Keys -> {"unset", "data", "missing"}]]
      /\ answer' \in [Families -> [Keys -> {"none", "data", "absent", "auth", "failed"}]]
      /\ misses' \subseteq Families \X Keys
  <2>1. CASE UNCHANGED bundle
    BY <2>1 DEF bundle, BuildTypeOK
  <2>2. ASSUME NEW c \in Callers, Ends(c)
        PROVE  /\ slots' \in [Families -> [Keys -> {"unset", "data", "missing"}]]
               /\ answer' \in [Families -> [Keys -> {"none", "data", "absent", "auth", "failed"}]]
               /\ misses' \subseteq Families \X Keys
    <3>1. phase \in Families /\ Key(c) \in Keys
      BY <2>2, EndsEffect, LookingAt
    <3>2. CASE Definitive(c)
      <4>1. PICK a \in {"data", "absent"} :
              /\ answer' = [answer EXCEPT ![phase][Key(c)] = a]
              /\ slots' = [slots EXCEPT ![phase][Key(c)] = IF a = "data" THEN "data" ELSE "missing"]
        BY <3>2 DEF Definitive
      <4>2. answer' \in [Families -> [Keys -> {"none", "data", "absent", "auth", "failed"}]]
        BY <3>1, <4>1 DEF BuildTypeOK
      <4>3. slots' \in [Families -> [Keys -> {"unset", "data", "missing"}]]
        BY <3>1, <4>1 DEF BuildTypeOK
      <4> QED
        BY <3>2, <4>2, <4>3 DEF Definitive, BuildTypeOK
    <3>3. CASE Transient(c)
      <4>1. answer' \in [Families -> [Keys -> {"none", "data", "absent", "auth", "failed"}]]
        BY <3>1, <3>3 DEF Transient, BuildTypeOK
      <4>2. slots' \in [Families -> [Keys -> {"unset", "data", "missing"}]]
        BY <3>1, <3>3 DEF Transient, BuildTypeOK
      <4> QED
        BY <3>1, <3>3, <4>1, <4>2 DEF Transient, BuildTypeOK
    <3>4. CASE Auth(c)
      BY <3>1, <3>4 DEF Auth, BuildTypeOK
    <3> QED
      BY <2>2, <3>2, <3>3, <3>4 DEF Ends
  <2> QED
    BY <2>1, <2>2, BundleKept
<1>4. /\ phase' \in {"start", "primitive", "practices", "composition", "finish",
                    "bundle", "auth", "wipeout"}
      /\ try' \in [Callers -> {"idle", "try1", "backoff", "try2"}]
  <2> USE DEF BuildTypeOK
  <2>1. CASE LookupPrimitives \/ LookupPractices \/ LookupComposition \/ AbortFanOut \/ Finish
    BY <2>1 DEF LookupPrimitives, LookupPractices, LookupComposition, AbortFanOut, Finish
  <2>2. ASSUME NEW c \in Callers, Lookup(c)
        PROVE  /\ phase' \in {phase, "auth", "finish"}
               /\ try' \in [Callers -> {"idle", "try1", "backoff", "try2"}]
    <3>1. CASE Request(c) \/ Backoff(c) \/ Retry(c)
      <4>1. phase' = phase
        BY <3>1 DEF Request, Backoff, Retry
      <4>2. \E x \in {"idle", "try1", "backoff", "try2"} : try' = [try EXCEPT ![c] = x]
        BY <3>1 DEF Request, Backoff, Retry
      <4> QED
        BY <4>1, <4>2
    <3>2. CASE EndLookup(c) \/ Auth(c)
      <4>1. phase' \in {phase, "auth", "finish"} /\ try' = [try EXCEPT ![c] = "idle"]
        BY <3>2 DEF EndLookup, Auth
      <4> QED
        BY <4>1
    <3> QED
      BY <2>2, <3>1, <3>2 DEF Lookup, Definitive, Transient
  <2>3. CASE BuildReturn \/ BuildClose \/ BuildEnd
    BY <2>3 DEF BuildReturn, BuildClose, BuildEnd, Rest
  <2>4. ASSUME NEW w \in Workers, BuildHandoff(w) \/ BuildSendErr(w) \/ BuildCancel(w) \/ BuildExit(w)
        PROVE  UNCHANGED <<phase, try>>
    BY <2>4 DEF BuildHandoff, BuildSendErr, BuildCancel, BuildExit, Rest
  <2>5. CASE UNCHANGED buildVars
    BY <2>5 DEF buildVars
  <2> QED
    BY <2>1, <2>2, <2>3, <2>4, <2>5 DEF BuildNext, Caller, BuildWorker
<1> QED
  BY <1>0, <1>2, <1>3, <1>4 DEF BuildTypeOK

-----------------------------------------------------------------------------
(* The theorems. *)

LEMMA InitInv == BuildInit => BuildTypeOK /\ FanInv /\ Inv
<1> SUFFICES ASSUME BuildInit PROVE BuildTypeOK /\ FanInv /\ Inv
  OBVIOUS
<1>1. PICK p \in 0..MaxN, w \in 0..MaxN :
        count = [f \in Families |-> IF f = "primitive" THEN p
                                    ELSE IF f = "practices" THEN w
                                    ELSE IF p = 0 THEN 0 ELSE 1]
  <2>1. PICK p \in 0..MaxN, w \in 0..MaxN :
          count = [f \in Families |-> CASE f = "primitive" -> p
                                        [] f = "practices" -> w
                                        [] f = "composition" -> IF p = 0 THEN 0 ELSE 1]
    BY Zenon DEF BuildInit
  <2>2. \A f \in Families :
          (CASE f = "primitive" -> p
             [] f = "practices" -> w
             [] f = "composition" -> IF p = 0 THEN 0 ELSE 1)
          = IF f = "primitive" THEN p ELSE IF f = "practices" THEN w ELSE IF p = 0 THEN 0 ELSE 1
    OBVIOUS
  <2> QED
    BY <2>1, <2>2
<1>2. count \in [Families -> 0..MaxN] /\ count["composition"] \in {0, 1}
  BY <1>1
<1>3. Init /\ TypeOK
  BY InitPool, InitPoolType
<1>4. FanInv
  BY <1>3, InitFanInv
<1>5. BuildTypeOK
  BY <1>2, <1>3 DEF BuildInit, BuildTypeOK
<1>6. CallerInv /\ ResultInv
  BY <1>2, <1>3 DEF BuildInit, CallerInv, ResultInv, InPool, Init
<1>7. RecordInv /\ ProgressInv /\ FetchedInv /\ VerdictInv
  BY <1>3 DEF BuildInit, RecordInv, ProgressInv, FetchedInv, VerdictInv, Ahead, Past, InPool
<1> QED
  BY <1>4, <1>5, <1>6, <1>7 DEF Inv

LEMMA NextInv ==
    BuildTypeOK /\ FanInv /\ Inv /\ [BuildNext]_buildVars => BuildTypeOK' /\ FanInv' /\ Inv'
<1> SUFFICES ASSUME BuildTypeOK, FanInv, Inv, [BuildNext]_buildVars PROVE BuildTypeOK' /\ FanInv' /\ Inv'
  OBVIOUS
<1>1. TypeOK /\ ResultInv /\ [Next]_vars
  BY NextPool DEF BuildTypeOK, Inv
<1>2. ResultInv'
  BY <1>1, NextResultInv
<1> QED
  BY <1>2, NextTypeOK, NextFanInv, NextCallerInv, NextRecordInv, NextProgressInv,
     NextFetchedInv, NextVerdictInv DEF Inv

LEMMA InvAlways == BuildSpec => [](BuildTypeOK /\ FanInv /\ Inv)
  BY InitInv, NextInv, PTL DEF BuildSpec

\* Every variable keeps its type: no lookup is counted twice, whoever answers it.
THEOREM TypeCorrect == BuildSpec => []BuildTypeOK
  BY InvAlways, PTL

\* A key is missed iff its last answer was a failure, its payload is in its own slot,
\* and no slot stays unfilled while the audit's context lives.
THEOREM MissesTold == BuildSpec => []MissesExact
<1>1. BuildTypeOK /\ Inv => MissesExact
  <2> SUFFICES ASSUME BuildTypeOK, Inv, phase = "bundle", NEW k \in AllKeys
               PROVE  /\ k \in misses <=> Said(k) = "failed"
                      /\ Slot(k) = "data" <=> Said(k) = "data"
                      /\ Slot(k) = "unset" => ended
    BY DEF MissesExact
  <2>1. PICK f \in Families, i \in Keys : k = <<f, i>> /\ i <= count[f]
    BY DEF AllKeys
  <2> QED
    BY <2>1 DEF Inv, RecordInv, ProgressInv, Past, Said, Slot
<1> QED
  BY <1>1, InvAlways, PTL

\* BuildGrounding aborts for an auth answer or a total wipeout, and for nothing else.
THEOREM AbortsJustified == BuildSpec => []AbortsExactly
<1>1. BuildTypeOK /\ Inv => AbortsExactly
  <2> SUFFICES ASSUME BuildTypeOK, Inv PROVE AbortsExactly
    OBVIOUS
  <2>1. phase = "auth" => \E k \in AllKeys : Said(k) = "auth"
    BY DEF Inv, VerdictInv
  <2>2. ASSUME phase \in {"wipeout", "bundle"}, NEW k \in AllKeys PROVE Said(k) # "auth"
    BY <2>2 DEF Inv, ProgressInv, Past, AllKeys, Said
  <2>3. ASSUME phase = "wipeout", NEW k \in AllKeys PROVE Said(k) \notin {"data", "absent"}
    BY <2>3 DEF Inv, VerdictInv, FetchedInv, AllKeys, Said
  <2>4. ASSUME phase = "bundle", NEW k \in AllKeys, Said(k) = "failed"
        PROVE  \E j \in AllKeys : Said(j) \in {"data", "absent"}
    <3>1. k \in misses
      BY <2>4 DEF Inv, RecordInv, AllKeys, Said
    <3>2. PICK f \in Families, i \in Keys : answer[f][i] \in {"data", "absent"}
      BY <2>4, <3>1 DEF Inv, VerdictInv, FetchedInv
    <3>3. <<f, i>> \in AllKeys /\ Said(<<f, i>>) \in {"data", "absent"}
      BY <3>2 DEF Inv, RecordInv, AllKeys, Said
    <3> QED
      BY <3>3
  <2> QED
    BY <2>1, <2>2, <2>3, <2>4 DEF AbortsExactly
<1> QED
  BY <1>1, InvAlways, PTL

\* What is proved of one fan-out holds of those of an audit: its pool of workers is one
\* of FanOut, at every step.
THEOREM PoolIsFanOut == BuildSpec => Spec
<1>1. BuildInit => Init
  BY InitPool
<1>2. BuildTypeOK /\ [BuildNext]_buildVars => [Next]_vars
  BY NextPool
<1> QED
  BY <1>1, <1>2, InvAlways, PTL DEF BuildSpec, Spec

\* So every lookup of an audit keeps the promise a caller of fanOut relies on, and leaves
\* no goroutine behind.
THEOREM LookupsKeepPromise == BuildSpec => ImplementsCall /\ []NoLeak
  BY PoolIsFanOut, Refinement, NothingLeaks, PTL

-----------------------------------------------------------------------------
(* Progress of the pool: it is never stuck, and no step of it is in vain. *)

HIDE GroundingAssumption
HIDE FanOutAssumption
HIDE DEF Workers, Nil, Main, Callers, Families, Keys

LEMMA UpToCount ==
    ASSUME NEW k \in Nat PROVE IsFiniteSet(1..k) /\ Cardinality(1..k) = k
<1>1. 1 \in Int /\ k \in Int
  OBVIOUS
<1>2. IsFiniteSet(1..k) /\ Cardinality(1..k) = IF 1 > k THEN 0 ELSE k - 1 + 1
  BY <1>1, FS_Interval, Zenon
<1> QED
  BY <1>2

LEMMA WorkersCount == IsFiniteSet(Workers) /\ Cardinality(Workers) = Concurrency
BY UpToCount, FanOutAssumption DEF Workers

\* How many workers are in one of the states T, when f says where each is.
In(f, T) == Cardinality({w \in Workers : f[w] \in T})
One(s, T) == IF s \in T THEN 1 ELSE 0

LEMMA InType == ASSUME NEW f, NEW T PROVE In(f, T) \in Nat /\ In(f, T) <= Concurrency
<1>1. {w \in Workers : f[w] \in T} \in SUBSET Workers
  OBVIOUS
<1>2. IsFiniteSet(Workers) /\ Cardinality(Workers) = Concurrency
  BY WorkersCount
<1>3. /\ IsFiniteSet({w \in Workers : f[w] \in T})
      /\ Cardinality({w \in Workers : f[w] \in T}) <= Cardinality(Workers)
  BY <1>1, <1>2, FS_Subset, Zenon
<1> QED
  BY <1>2, <1>3, FS_CardinalityType, Zenon DEF In

\* Two sets that differ in c at most.
LEMMA CountMoves ==
    ASSUME NEW S, IsFiniteSet(S), NEW A \in SUBSET S, NEW B \in SUBSET S, NEW c \in S,
           \A x \in S : x # c => (x \in A <=> x \in B)
    PROVE  Cardinality(A) \in Nat /\ Cardinality(B) = Cardinality(A) + One(c, B) - One(c, A)
<1>1. IsFiniteSet(A) /\ Cardinality(A) \in Nat
  BY FS_Subset, FS_CardinalityType
<1>2. CASE c \in B
  <2>1. B = A \cup {c}
    BY <1>2
  <2>2. Cardinality(B) = IF c \in A THEN Cardinality(A) ELSE Cardinality(A) + 1
    BY <1>1, <2>1, FS_AddElement, Zenon
  <2> QED
    BY <1>1, <1>2, <2>2 DEF One
<1>3. CASE c \notin B
  <2>1. B = A \ {c}
    BY <1>3
  <2>2. Cardinality(B) = IF c \in A THEN Cardinality(A) - 1 ELSE Cardinality(A)
    BY <1>1, <2>1, FS_RemoveElement, Zenon
  <2> QED
    BY <1>1, <1>3, <2>2 DEF One
<1> QED
  BY <1>2, <1>3

\* A worker that goes from one state to another is counted where it comes to.
LEMMA InMoves ==
    ASSUME NEW f \in [Workers -> WorkerStates], NEW w \in Workers, NEW s \in WorkerStates, NEW T,
           NEW g, g = [f EXCEPT ![w] = s]
    PROVE  In(g, T) = In(f, T) + One(s, T) - One(f[w], T)
<1> DEFINE A == {x \in Workers : f[x] \in T}
           B == {x \in Workers : g[x] \in T}
<1>1. A \in SUBSET Workers /\ B \in SUBSET Workers /\ IsFiniteSet(Workers)
  BY WorkersCount
<1>2. g[w] = s /\ \A x \in Workers : x # w => g[x] = f[x]
  OBVIOUS
<1>3. \A x \in Workers : x # w => (x \in A <=> x \in B)
  BY <1>2
<1>4. One(w, B) = One(s, T) /\ One(w, A) = One(f[w], T)
  BY <1>2 DEF One
<1>5. In(f, T) = Cardinality(A) /\ In(g, T) = Cardinality(B)
  BY DEF In
<1> HIDE DEF A, B
<1> QED
  BY <1>1, <1>3, <1>4, <1>5, CountMoves

\* The steps a goroutine in state s can still take before it needs another index.
StepsLeft(s) == CASE s = "work" -> 4 [] s = "send" -> 3 [] s = "cancel" -> 2
                  [] s \in {"recv", "drain"} -> 1 [] OTHER -> 0
Running == {"recv", "work", "send", "cancel", "drain"}
PoolLeft(f) == In(f, Running) + In(f, {"work", "send", "cancel"}) + In(f, {"work", "send"}) + In(f, {"work"})

\* The steps that are left of a call: an index still to be handed out is worth those of
\* the worker that takes it.
PoolRank == 4 * (n + 1 - next) + PoolLeft(wk) + (IF closed THEN 0 ELSE 1) + (IF busy THEN 1 ELSE 0)

\* Some goroutine of the call can take a step: Close, Return, or a worker's.
Ready ==
    \/ ~closed /\ (next > n \/ cancelled)
    \/ busy /\ \A w \in Pool(n) : wk[w] = "exit"
    \/ \E w \in Workers :
         \/ wk[w] \in {"work", "cancel"}
         \/ wk[w] = "send" /\ Len(errs) < ErrsCap
         \/ wk[w] \in {"recv", "drain"} /\ (closed \/ next <= n)

PoolStep == Close \/ Return \/ \E w \in Workers : Worker(w)

LEMMA PoolLeftMoves ==
    ASSUME NEW f \in [Workers -> WorkerStates], NEW w \in Workers, NEW s \in WorkerStates
    PROVE  PoolLeft([f EXCEPT ![w] = s]) = PoolLeft(f) + StepsLeft(s) - StepsLeft(f[w])
<1> DEFINE g == [f EXCEPT ![w] = s]
           T4 == Running
           T3 == {"work", "send", "cancel"}
           T2 == {"work", "send"}
           T1 == {"work"}
<1>1. \A T : In(g, T) = In(f, T) + One(s, T) - One(f[w], T)
  BY InMoves, Zenon
<1>2. \A T : In(f, T) \in Nat /\ One(s, T) \in Nat /\ One(f[w], T) \in Nat
  BY InType DEF One
<1>3. \A x \in WorkerStates : StepsLeft(x) = One(x, T4) + One(x, T3) + One(x, T2) + One(x, T1)
  BY DEF WorkerStates, StepsLeft, Running, One
<1>4. f[w] \in WorkerStates
  OBVIOUS
<1>5. /\ StepsLeft(s) = One(s, T4) + One(s, T3) + One(s, T2) + One(s, T1)
      /\ StepsLeft(f[w]) = One(f[w], T4) + One(f[w], T3) + One(f[w], T2) + One(f[w], T1)
  BY <1>3, <1>4
<1>6. /\ PoolLeft(f) = In(f, T4) + In(f, T3) + In(f, T2) + In(f, T1)
      /\ PoolLeft(g) = In(g, T4) + In(g, T3) + In(g, T2) + In(g, T1)
  BY Zenon DEF PoolLeft
<1>7. /\ In(g, T4) = In(f, T4) + One(s, T4) - One(f[w], T4)
      /\ In(g, T3) = In(f, T3) + One(s, T3) - One(f[w], T3)
      /\ In(g, T2) = In(f, T2) + One(s, T2) - One(f[w], T2)
      /\ In(g, T1) = In(f, T1) + One(s, T1) - One(f[w], T1)
  BY <1>1
<1> HIDE DEF g, T4, T3, T2, T1
<1>8. PoolLeft(g) = PoolLeft(f) + StepsLeft(s) - StepsLeft(f[w])
  BY <1>2, <1>5, <1>6, <1>7
<1> QED
  BY <1>8 DEF g

LEMMA StepsAre ==
    /\ StepsLeft("work") = 4 /\ StepsLeft("send") = 3 /\ StepsLeft("cancel") = 2
    /\ StepsLeft("recv") = 1 /\ StepsLeft("drain") = 1 /\ StepsLeft("exit") = 0
BY DEF StepsLeft

LEMMA PoolRankType == TypeOK /\ FanInv => PoolRank \in Nat /\ PoolLeft(wk) \in Nat
<1> SUFFICES ASSUME TypeOK, FanInv PROVE PoolRank \in Nat /\ PoolLeft(wk) \in Nat
  OBVIOUS
<1>1. PoolLeft(wk) \in Nat
  BY InType DEF PoolLeft
<1>2. n \in Nat /\ next \in Nat /\ next <= n + 1
  BY FanOutAssumption DEF TypeOK, FanInv, JobInv
<1> QED
  BY <1>1, <1>2 DEF PoolRank

\* Every step of a goroutine or of the caller leaves less to do.
LEMMA PoolRankFalls == TypeOK /\ FanInv /\ PoolStep => PoolRank' < PoolRank
<1> SUFFICES ASSUME TypeOK, FanInv, PoolStep PROVE PoolRank' < PoolRank
  OBVIOUS
<1>1. PoolLeft(wk) \in Nat
  BY PoolRankType
<1>2. n \in Nat /\ next \in Nat /\ next <= n + 1 /\ wk \in [Workers -> WorkerStates]
  BY FanOutAssumption DEF TypeOK, FanInv, JobInv
<1>3. ASSUME NEW w \in Workers, NEW s \in WorkerStates, wk' = [wk EXCEPT ![w] = s],
             UNCHANGED <<n, busy, closed>>, next' \in Nat,
             4 * (next - next') + StepsLeft(s) < StepsLeft(wk[w])
      PROVE  PoolRank' < PoolRank
  <2>1. PoolLeft(wk') = PoolLeft(wk) + StepsLeft(s) - StepsLeft(wk[w])
    BY <1>2, <1>3, PoolLeftMoves
  <2>2. \A x : StepsLeft(x) \in 0..4
    BY DEF StepsLeft
  <2>3. StepsLeft(s) \in 0..4 /\ StepsLeft(wk[w]) \in 0..4
    BY <2>2
  <2>4. PoolRank' = 4 * (n + 1 - next') + PoolLeft(wk') + (IF closed THEN 0 ELSE 1) + (IF busy THEN 1 ELSE 0)
    BY <1>3, Zenon DEF PoolRank, PoolLeft, In
  <2> QED
    BY <1>1, <1>2, <1>3, <2>1, <2>3, <2>4 DEF PoolRank
<1>4. CASE Close
  <2>1. PoolLeft(wk') = PoolLeft(wk)
    BY <1>4 DEF Close
  <2>2. PoolRank' = 4 * (n + 1 - next) + PoolLeft(wk') + 0 + (IF busy THEN 1 ELSE 0)
    BY <1>4 DEF Close, PoolRank, PoolLeft, In
  <2> QED
    BY <1>1, <1>2, <1>4, <2>1, <2>2 DEF Close, PoolRank
<1>5. CASE Return
  <2>1. PoolLeft(wk') = PoolLeft(wk)
    BY <1>5 DEF Return
  <2>2. PoolRank' = 4 * (n + 1 - next) + PoolLeft(wk') + (IF closed THEN 0 ELSE 1) + 0
    BY <1>5 DEF Return, PoolRank, PoolLeft, In
  <2> QED
    BY <1>1, <1>2, <1>5, <2>1, <2>2 DEF Return, PoolRank
<1>6. ASSUME NEW w \in Workers, Worker(w) PROVE PoolRank' < PoolRank
  <2>0. /\ {"recv", "work", "send", "cancel", "drain", "exit"} \subseteq WorkerStates
        /\ next \in Nat /\ next + 1 \in Nat
    BY <1>2 DEF WorkerStates
  <2>1. CASE Handoff(w) /\ wk[w] = "recv"
    <3>1. wk' = [wk EXCEPT ![w] = "work"] /\ next' = next + 1 /\ UNCHANGED <<n, busy, closed>>
      BY <2>1 DEF Handoff
    <3>2. 4 * (next - next') + StepsLeft("work") < StepsLeft("recv")
      BY <2>0, <3>1, StepsAre
    <3> QED
      BY <1>3, <2>0, <2>1, <3>1, <3>2
  <2>2. CASE Handoff(w) /\ wk[w] = "drain"
    <3>1. wk' = wk /\ next' = next + 1 /\ UNCHANGED <<n, busy, closed>>
      BY <2>2 DEF Handoff
    <3>2. wk' = [wk EXCEPT ![w] = "drain"]
      BY <1>2, <2>2, <3>1
    <3>3. 4 * (next - next') + StepsLeft("drain") < StepsLeft("drain")
      BY <2>0, <3>1, StepsAre
    <3> QED
      BY <1>3, <2>0, <2>2, <3>1, <3>2, <3>3
  <2>3. CASE WorkOK(w)
    <3>1. /\ wk[w] = "work" /\ wk' = [wk EXCEPT ![w] = "recv"]
          /\ UNCHANGED <<n, busy, closed>> /\ next' = next
      BY <2>3, Zenon DEF WorkOK
    <3>2. 4 * (next - next') + StepsLeft("recv") < StepsLeft("work")
      BY <2>0, <3>1, StepsAre
    <3> QED
      BY <1>3, <2>0, <3>1, <3>2
  <2>4. CASE WorkFails(w)
    <3>1. /\ wk[w] = "work" /\ wk' = [wk EXCEPT ![w] = "send"]
          /\ UNCHANGED <<n, busy, closed>> /\ next' = next
      BY <2>4, Zenon DEF WorkFails
    <3>2. 4 * (next - next') + StepsLeft("send") < StepsLeft("work")
      BY <2>0, <3>1, StepsAre
    <3> QED
      BY <1>3, <2>0, <3>1, <3>2
  <2>5. CASE SendErr(w)
    <3>1. /\ wk[w] = "send" /\ wk' = [wk EXCEPT ![w] = "cancel"]
          /\ UNCHANGED <<n, busy, closed>> /\ next' = next
      BY <2>5, Zenon DEF SendErr
    <3>2. 4 * (next - next') + StepsLeft("cancel") < StepsLeft("send")
      BY <2>0, <3>1, StepsAre
    <3> QED
      BY <1>3, <2>0, <3>1, <3>2
  <2>6. CASE Cancel(w)
    <3>1. /\ wk[w] = "cancel" /\ wk' = [wk EXCEPT ![w] = "drain"]
          /\ UNCHANGED <<n, busy, closed>> /\ next' = next
      BY <2>6, Zenon DEF Cancel
    <3>2. 4 * (next - next') + StepsLeft("drain") < StepsLeft("cancel")
      BY <2>0, <3>1, StepsAre
    <3> QED
      BY <1>3, <2>0, <3>1, <3>2
  <2>7. CASE Exit(w)
    <3>1. /\ wk[w] \in {"recv", "drain"} /\ wk' = [wk EXCEPT ![w] = "exit"]
          /\ UNCHANGED <<n, busy, closed>> /\ next' = next
      BY <2>7, Zenon DEF Exit
    <3>2. 4 * (next - next') + StepsLeft("exit") < StepsLeft(wk[w])
      BY <2>0, <3>1, StepsAre
    <3> QED
      BY <1>3, <2>0, <3>1, <3>2
  <2>8. Handoff(w) => wk[w] \in {"recv", "drain"}
    BY DEF Handoff
  <2> QED
    BY <1>6, <2>1, <2>2, <2>3, <2>4, <2>5, <2>6, <2>7, <2>8 DEF Worker
<1> QED
  BY <1>4, <1>5, <1>6 DEF PoolStep

LEMMA CancelIsState == "cancel" \in WorkerStates
BY DEF WorkerStates

\* The error channel has room for every worker that may still fail.
RoomInv == Len(errs) + In(wk, {"recv", "work", "send"}) <= ErrsCap

LEMMA InitRoom == Init => RoomInv
<1> SUFFICES ASSUME Init PROVE RoomInv
  OBVIOUS
<1>1. {w \in Workers : wk[w] \in {"recv", "work", "send"}} = {}
  BY DEF Init
<1>2. In(wk, {"recv", "work", "send"}) = 0
  BY <1>1, FS_EmptySet DEF In
<1>3. Len(errs) = 0 /\ ErrsCap = 0
  BY FanOutAssumption DEF Init, ErrsCap
<1> QED
  BY <1>2, <1>3 DEF RoomInv

LEMMA NextRoom == TypeOK /\ RoomInv /\ [Next]_vars => RoomInv'
<1> SUFFICES ASSUME TypeOK, RoomInv, [Next]_vars PROVE RoomInv'
  OBVIOUS
<1> DEFINE T == {"recv", "work", "send"}
<1>1. wk \in [Workers -> WorkerStates] /\ Len(errs) \in Nat /\ n \in Nat /\ ErrsCap \in Nat
  BY FanOutAssumption DEF TypeOK, ErrsCap
<1>2. Len(errs) + In(wk, T) <= ErrsCap /\ In(wk, T) \in Nat
  BY InType DEF RoomInv
<1>3. RoomInv' <=> Len(errs') + In(wk', T) <= ErrsCap'
  BY DEF RoomInv, In
<1>4. UNCHANGED n => ErrsCap' = ErrsCap
  BY DEF ErrsCap
<1>5. ASSUME NEW w \in Workers, NEW s \in WorkerStates, wk' = [wk EXCEPT ![w] = s],
             UNCHANGED <<n, errs>>, s \in T => wk[w] \in T
      PROVE  RoomInv'
  <2> HIDE DEF T
  <2>1. In(wk', T) = In(wk, T) + One(s, T) - One(wk[w], T)
    BY <1>1, <1>5, InMoves
  <2>2. Len(errs') = Len(errs)
    BY <1>5
  <2> QED
    BY <1>1, <1>2, <1>3, <1>4, <1>5, <2>1, <2>2 DEF One
<1>6. ASSUME UNCHANGED <<n, errs, wk>> PROVE RoomInv'
  BY <1>2, <1>3, <1>4, <1>6
<1>7. ASSUME NEW k \in 0..MaxN, Call(k) PROVE RoomInv'
  <2>1. n' = k /\ errs' = <<>> /\ wk' = [w \in Workers |-> IF w \in Pool(k) THEN "recv" ELSE "off"]
    BY <1>7 DEF Call
  <2>2. {w \in Workers : wk'[w] \in T} = Pool(k)
    BY <2>1 DEF Pool
  <2>3. In(wk', T) = Cardinality(Pool(k))
    BY <2>2, Zenon DEF In
  <2>4. k \in Nat /\ Concurrency \in Nat
    BY FanOutAssumption
  <2>5. Cardinality(Pool(k)) = ErrsCap'
    <3>1. ErrsCap' = IF Concurrency > k THEN k ELSE Concurrency
      BY <2>1 DEF ErrsCap
    <3>2. Pool(k) = 1..ErrsCap'
      BY <2>4, <3>1 DEF Pool, Workers
    <3> QED
      BY <2>4, <3>1, <3>2, UpToCount
  <2>6. Len(errs') = 0
    BY <2>1
  <2>7. In(wk', T) \in Nat
    BY InType
  <2> QED
    BY <1>3, <2>3, <2>5, <2>6, <2>7
<1>8. CASE Close \/ Return \/ End
  BY <1>6, <1>8, Zenon DEF Close, Return, End
<1>9. ASSUME NEW w \in Workers, Worker(w) PROVE RoomInv'
  <2>0. {"recv", "work", "send", "cancel", "drain", "exit"} \subseteq WorkerStates
    BY DEF WorkerStates
  <2>1. CASE Handoff(w)
    <3>1. \/ wk[w] = "recv" /\ wk' = [wk EXCEPT ![w] = "work"]
          \/ wk' = wk
      BY <2>1, Zenon DEF Handoff
    <3>2. UNCHANGED <<n, errs>>
      BY <2>1, Zenon DEF Handoff
    <3> QED
      BY <1>5, <1>6, <2>0, <3>1, <3>2
  <2>2. CASE WorkOK(w)
    BY <1>5, <2>0, <2>2 DEF WorkOK
  <2>3. CASE WorkFails(w)
    BY <1>5, <2>0, <2>3 DEF WorkFails
  <2>4. CASE SendErr(w)
    <3>1. wk[w] = "send" /\ wk' = [wk EXCEPT ![w] = "cancel"] /\ UNCHANGED n /\ errs' = Append(errs, job[w])
      BY <2>4, Zenon DEF SendErr
    <3>2. In(wk', T) = In(wk, T) - 1
      <4> HIDE DEF T
      <4>1. In(wk', T) = In(wk, T) + One("cancel", T) - One(wk[w], T)
        <5>1. wk' = [wk EXCEPT ![w] = "cancel"]
          BY <3>1
        <5> QED
          BY <1>1, <5>1, CancelIsState, InMoves
      <4>2. "cancel" \notin T /\ wk[w] \in T
        BY <3>1 DEF T
      <4> QED
        BY <1>2, <4>1, <4>2 DEF One
    <3>3. Len(errs') = Len(errs) + 1
      BY <3>1 DEF TypeOK
    <3> QED
      BY <1>1, <1>2, <1>3, <1>4, <3>1, <3>2, <3>3
  <2>5. CASE Cancel(w)
    BY <1>5, <2>0, <2>5 DEF Cancel
  <2>6. CASE Exit(w)
    BY <1>5, <2>0, <2>6 DEF Exit
  <2> QED
    BY <1>9, <2>1, <2>2, <2>3, <2>4, <2>5, <2>6 DEF Worker
<1>10. CASE UNCHANGED vars
  BY <1>6, <1>10 DEF vars
<1> QED
  BY <1>7, <1>8, <1>9, <1>10 DEF Next

LEMMA RoomAlways == Spec => []RoomInv
BY InitRoom, NextRoom, PoolTypeCorrect, PTL DEF Spec

LEMMA SendHasRoom ==
    ASSUME TypeOK, RoomInv, NEW w \in Workers, wk[w] = "send" PROVE Len(errs) < ErrsCap
<1> DEFINE S == {x \in Workers : wk[x] \in {"recv", "work", "send"}}
<1>1. S \in SUBSET Workers /\ w \in S
  OBVIOUS
<1>2. IsFiniteSet(S) /\ S # {}
  BY <1>1, WorkersCount, FS_Subset
<1>3. Cardinality(S) \in Nat /\ Cardinality(S) # 0
  BY <1>2, FS_EmptySet, FS_CardinalityType
<1>4. Len(errs) \in Nat /\ ErrsCap \in Nat
  BY FanOutAssumption DEF TypeOK, ErrsCap
<1>5. Len(errs) + Cardinality(S) <= ErrsCap
  BY Zenon DEF RoomInv, In
<1> HIDE DEF S
<1> QED
  BY <1>3, <1>4, <1>5

LEMMA BusyIsReady == TypeOK /\ FanInv /\ RoomInv /\ busy => Ready
<1> SUFFICES ASSUME TypeOK, FanInv, RoomInv, busy, ~Ready PROVE FALSE
  OBVIOUS
<1>1. n \in Nat /\ next \in Nat
  BY FanOutAssumption DEF TypeOK
<1>2. PICK w \in Pool(n) : wk[w] # "exit"
  BY DEF Ready
<1>3. w \in Workers /\ wk[w] \in WorkerStates /\ wk[w] # "off"
  BY <1>2 DEF TypeOK, FanInv, PoolInv, Pool
<1>4. wk[w] \notin {"work", "cancel"}
  BY <1>3 DEF Ready
<1>5. wk[w] # "send"
  BY <1>3, SendHasRoom DEF Ready
<1>6. wk[w] \in {"recv", "drain"}
  BY <1>2, <1>3, <1>4, <1>5 DEF WorkerStates
<1>7. ~closed /\ ~(next <= n)
  BY <1>3, <1>6 DEF Ready, TypeOK
<1> QED
  BY <1>1, <1>7 DEF Ready

\* A worker that failed never waits for room in the error channel: fanOut makes it as
\* large as the pool, and every worker sends once.
THEOREM SendNeverBlocks == Spec => [](\A w \in Workers : wk[w] = "send" => Len(errs) < ErrsCap)
<1>1. TypeOK /\ RoomInv => \A w \in Workers : wk[w] = "send" => Len(errs) < ErrsCap
  BY SendHasRoom
<1> QED
  BY <1>1, RoomAlways, PoolTypeCorrect, PTL

\* While the call is in progress some goroutine of it can go on, and each step that one
\* takes leaves less to do: under the fairness of FairSpec this is why the call returns.
THEOREM PoolProgress == Spec => /\ [](busy => Ready /\ PoolRank \in Nat)
                                /\ [][PoolStep => PoolRank' < PoolRank]_vars
<1>1. TypeOK /\ FanInv /\ RoomInv => (busy => Ready /\ PoolRank \in Nat)
  BY BusyIsReady, PoolRankType
<1>2. TypeOK /\ FanInv => [PoolStep => PoolRank' < PoolRank]_vars
  BY PoolRankFalls
<1> QED
  BY <1>1, <1>2, RoomAlways, FanInvAlways, PoolTypeCorrect, PTL

-----------------------------------------------------------------------------
(* Progress of the lookups: the same over the whole of BuildGrounding. *)

\* The attempts a lookup still has, and those of caller c.
TriesLeft(s) == CASE s = "idle" -> 3 [] s = "try1" -> 2 [] s = "backoff" -> 1 [] OTHER -> 0
Left(c) == IF Looking(c) THEN TriesLeft(try[c]) ELSE 0

\* Their sum, when f says what each caller has left (at most three).
AtLeast(f, k) == {c \in Callers : f[c] >= k}
Sum3(f) == Cardinality(AtLeast(f, 1)) + Cardinality(AtLeast(f, 2)) + Cardinality(AtLeast(f, 3))
Lefts == [c \in Callers |-> Left(c)]
LookLeft == Sum3(Lefts)

\* A fan-out over k keys to come, and what lies ahead of the calling goroutine.
CallLeft(k) == 4 * (5 * k + 2) + 1
PhaseLeft ==
    CASE phase = "start"       -> CallLeft(count["primitive"]) + CallLeft(count["practices"]) + 6
      [] phase = "primitive"   -> CallLeft(count["practices"]) + 6
      [] phase = "practices"   -> 6
      [] phase = "composition" -> 2
      [] phase = "finish"      -> 1
      [] OTHER                 -> 0

\* A step of the pool is worth the attempts of the lookup that it may start.
BuildRank == 4 * PoolRank + LookLeft + PhaseLeft

LookupReady(c) ==
    \/ Looking(c) /\ try[c] \in {"idle", "try1", "try2"}
    \/ try[c] = "backoff" /\ (~ended \/ Looking(c))

\* Somebody can take a step: the calling goroutine, the producer or a worker.
BuildReady ==
    \/ phase \in {"start", "finish"}
    \/ phase \in {"primitive", "practices"} /\ ~busy
    \/ ~closed /\ (next > n \/ cancelled)
    \/ busy /\ \A w \in Pool(n) : wk[w] = "exit"
    \/ \E w \in Workers :
         \/ wk[w] = "cancel"
         \/ wk[w] = "send" /\ Len(errs) < ErrsCap
         \/ wk[w] \in {"recv", "drain"} /\ (closed \/ next <= n)
    \/ \E c \in Callers : LookupReady(c)

BuildStep == Caller \/ BuildClose \/ \E w \in Workers : BuildWorker(w)

LEMMA CallersFinite == IsFiniteSet(Callers)
<1>1. IsFiniteSet(Workers)
  BY WorkersCount
<1>2. Callers = Workers \cup {Main}
  BY DEF Callers
<1> QED
  BY <1>1, <1>2, FS_AddElement, Zenon

LEMMA Sum3Type == ASSUME NEW f PROVE Sum3(f) \in Nat
<1>1. \A k : AtLeast(f, k) \in SUBSET Callers
  BY DEF AtLeast
<1>2. \A k : Cardinality(AtLeast(f, k)) \in Nat
  BY <1>1, CallersFinite, FS_Subset, FS_CardinalityType
<1> QED
  BY <1>2 DEF Sum3

Lower(v, k) == IF v >= k THEN 1 ELSE 0

LEMMA Sum3Moves ==
    ASSUME NEW f, NEW g, NEW c \in Callers, f[c] \in 0..3, g[c] \in 0..3,
           \A d \in Callers : d # c => g[d] = f[d]
    PROVE  Sum3(g) = Sum3(f) + g[c] - f[c]
<1>1. ASSUME NEW k \in {1, 2, 3}
      PROVE  /\ Cardinality(AtLeast(f, k)) \in Nat
             /\ Cardinality(AtLeast(g, k)) = Cardinality(AtLeast(f, k)) + Lower(g[c], k) - Lower(f[c], k)
  <2>1. AtLeast(f, k) \in SUBSET Callers /\ AtLeast(g, k) \in SUBSET Callers
    BY DEF AtLeast
  <2>2. \A x \in Callers : x # c => (x \in AtLeast(f, k) <=> x \in AtLeast(g, k))
    BY DEF AtLeast
  <2>3. One(c, AtLeast(g, k)) = Lower(g[c], k) /\ One(c, AtLeast(f, k)) = Lower(f[c], k)
    BY DEF AtLeast, One, Lower
  <2> QED
    BY <2>1, <2>2, <2>3, CallersFinite, CountMoves
<1>2. \A v \in 0..3 : v = Lower(v, 1) + Lower(v, 2) + Lower(v, 3)
  BY DEF Lower
<1>3. /\ g[c] = Lower(g[c], 1) + Lower(g[c], 2) + Lower(g[c], 3)
      /\ f[c] = Lower(f[c], 1) + Lower(f[c], 2) + Lower(f[c], 3)
  BY <1>2
<1>4. \A v, k : Lower(v, k) \in Nat
  BY DEF Lower
<1>5. /\ Cardinality(AtLeast(g, 1)) = Cardinality(AtLeast(f, 1)) + Lower(g[c], 1) - Lower(f[c], 1)
      /\ Cardinality(AtLeast(g, 2)) = Cardinality(AtLeast(f, 2)) + Lower(g[c], 2) - Lower(f[c], 2)
      /\ Cardinality(AtLeast(g, 3)) = Cardinality(AtLeast(f, 3)) + Lower(g[c], 3) - Lower(f[c], 3)
      /\ Cardinality(AtLeast(f, 1)) \in Nat /\ Cardinality(AtLeast(f, 2)) \in Nat
      /\ Cardinality(AtLeast(f, 3)) \in Nat
  BY <1>1
<1>6. /\ Lower(g[c], 1) \in Nat /\ Lower(g[c], 2) \in Nat /\ Lower(g[c], 3) \in Nat
      /\ Lower(f[c], 1) \in Nat /\ Lower(f[c], 2) \in Nat /\ Lower(f[c], 3) \in Nat
  BY <1>4
<1>7. /\ Sum3(g) = Cardinality(AtLeast(g, 1)) + Cardinality(AtLeast(g, 2)) + Cardinality(AtLeast(g, 3))
      /\ Sum3(f) = Cardinality(AtLeast(f, 1)) + Cardinality(AtLeast(f, 2)) + Cardinality(AtLeast(f, 3))
  BY Zenon DEF Sum3
<1> QED
  BY <1>3, <1>5, <1>6, <1>7

LEMMA Sum3Same ==
    ASSUME NEW f, NEW g, \A d \in Callers : g[d] = f[d] PROVE Sum3(g) = Sum3(f)
<1>1. \A k : AtLeast(g, k) = AtLeast(f, k)
  BY DEF AtLeast
<1> QED
  BY <1>1 DEF Sum3

LEMMA Sum3None == ASSUME NEW f, \A d \in Callers : f[d] = 0 PROVE Sum3(f) = 0
<1>1. AtLeast(f, 1) = {} /\ AtLeast(f, 2) = {} /\ AtLeast(f, 3) = {}
  BY DEF AtLeast
<1> QED
  BY <1>1, FS_EmptySet DEF Sum3

LEMMA LeftType == \A c \in Callers : Left(c) \in 0..3 /\ Left(c)' \in 0..3
<1>1. \A s : TriesLeft(s) \in 0..3
  BY DEF TriesLeft
<1> QED
  BY <1>1 DEF Left

\* What a step of caller c alone does to the attempts left.
LEMMA LookMoves ==
    ASSUME NEW c \in Callers, \A d \in Callers : d # c => Left(d)' = Left(d)
    PROVE  /\ LookLeft' <= LookLeft + 3
           /\ Left(c)' <= Left(c) => LookLeft' <= LookLeft
           /\ Left(c)' < Left(c) => LookLeft' < LookLeft
<1> DEFINE f == Lefts
           g == Lefts'
<1>1. \A d \in Callers : f[d] = Left(d) /\ g[d] = Left(d)'
  BY DEF Lefts
<1>2. f[c] \in 0..3 /\ g[c] \in 0..3 /\ \A d \in Callers : d # c => g[d] = f[d]
  BY <1>1, LeftType
<1>3. LookLeft = Sum3(f) /\ LookLeft' = Sum3(g)
  BY DEF LookLeft, Sum3, AtLeast
<1>4. f[c] = Left(c) /\ g[c] = Left(c)'
  BY <1>1
<1> HIDE DEF f, g
<1>5. Sum3(f) \in Nat /\ Sum3(g) = Sum3(f) + g[c] - f[c]
  BY <1>2, Sum3Moves, Sum3Type
<1>6. /\ Sum3(g) <= Sum3(f) + 3
      /\ g[c] <= f[c] => Sum3(g) <= Sum3(f)
      /\ g[c] < f[c] => Sum3(g) < Sum3(f)
  BY <1>2, <1>5
<1> QED
  BY <1>3, <1>4, <1>6, Zenon

LEMMA LookSame ==
    ASSUME \A d \in Callers : Left(d)' = Left(d) PROVE LookLeft' = LookLeft
<1> DEFINE f == Lefts
           g == Lefts'
<1>1. \A d \in Callers : f[d] = Left(d) /\ g[d] = Left(d)'
  BY DEF Lefts
<1>2. \A d \in Callers : g[d] = f[d]
  BY <1>1
<1>3. LookLeft = Sum3(f) /\ LookLeft' = Sum3(g)
  BY DEF LookLeft, Sum3, AtLeast
<1> HIDE DEF f, g
<1> QED
  BY <1>2, <1>3, Sum3Same, Sum3Type

LEMMA LookNone ==
    ASSUME \A d \in Callers : ~Looking(d)' PROVE LookLeft' = 0
<1> DEFINE f == Lefts
           g == Lefts'
<1>1. \A d \in Callers : g[d] = 0
  BY DEF Lefts, Left
<1>3. LookLeft = Sum3(f) /\ LookLeft' = Sum3(g)
  BY DEF LookLeft, Sum3, AtLeast
<1> HIDE DEF f, g
<1> QED
  BY <1>1, <1>3, Sum3None, Sum3Type

LEMMA Counts == BuildTypeOK => count["primitive"] \in 0..MaxN /\ count["practices"] \in 0..MaxN
BY DEF BuildTypeOK, Families

LEMMA PhaseIs ==
    /\ phase = "start" => PhaseLeft = CallLeft(count["primitive"]) + CallLeft(count["practices"]) + 6
    /\ phase = "primitive" => PhaseLeft = CallLeft(count["practices"]) + 6
    /\ phase = "practices" => PhaseLeft = 6
    /\ phase = "composition" => PhaseLeft = 2
    /\ phase = "finish" => PhaseLeft = 1
    /\ phase \in {"bundle", "auth", "wipeout"} => PhaseLeft = 0
BY DEF PhaseLeft

LEMMA PhaseIsNext ==
    ASSUME count' = count
    PROVE
    /\ phase' = "primitive" => PhaseLeft' = CallLeft(count["practices"]) + 6
    /\ phase' = "practices" => PhaseLeft' = 6
    /\ phase' = "composition" => PhaseLeft' = 2
    /\ phase' = "finish" => PhaseLeft' = 1
    /\ phase' \in {"bundle", "auth", "wipeout"} => PhaseLeft' = 0
BY DEF PhaseLeft, CallLeft

LEMMA CallLeftType == ASSUME NEW k \in 0..MaxN PROVE CallLeft(k) \in Nat /\ CallLeft(k) = 4 * (5 * k + 2) + 1
BY FanOutAssumption DEF CallLeft

LEMMA PhaseType == BuildTypeOK => PhaseLeft \in Nat
<1> SUFFICES ASSUME BuildTypeOK PROVE PhaseLeft \in Nat
  OBVIOUS
<1>1. CallLeft(count["primitive"]) \in Nat /\ CallLeft(count["practices"]) \in Nat
  BY Counts, CallLeftType
<1>2. phase \in {"start", "primitive", "practices", "composition", "finish", "bundle", "auth", "wipeout"}
  BY DEF BuildTypeOK
<1> QED
  BY <1>1, <1>2, PhaseIs

\* The three parts of BuildRank are numbers.
RanksOK == PoolRank \in Nat /\ LookLeft \in Nat /\ PhaseLeft \in Nat

LEMMA RanksType == BuildTypeOK /\ FanInv => RanksOK /\ BuildRank \in Nat
<1> SUFFICES ASSUME BuildTypeOK, FanInv PROVE RanksOK /\ BuildRank \in Nat
  OBVIOUS
<1>1. PoolRank \in Nat
  BY PoolRankType DEF BuildTypeOK
<1>2. LookLeft \in Nat
  BY Sum3Type DEF LookLeft
<1>3. PhaseLeft \in Nat
  BY PhaseType
<1> QED
  BY <1>1, <1>2, <1>3 DEF BuildRank, RanksOK

\* The ways in which the sum falls: the pool moves, or the calling goroutine and the
\* lookups do, or the calling goroutine starts a fan-out over k keys.
Falls(p, l, h, q, m, i) ==
    \/ q < p /\ m <= l + 3 /\ i = h
    \/ q = p /\ m <= l /\ i <= h /\ (m < l \/ i < h)
    \/ q = p /\ m <= l + 3 /\ i + 3 < h
    \/ \E k \in Nat : q <= 5 * k + 2 /\ m = 0 /\ h = i + (4 * (5 * k + 2) + 1)

LEMMA SumFalls ==
    ASSUME NEW p \in Nat, NEW l \in Nat, NEW h \in Nat,
           NEW q \in Nat, NEW m \in Nat, NEW i \in Nat, Falls(p, l, h, q, m, i)
    PROVE  4 * q + m + i < 4 * p + l + h
BY DEF Falls

LEMMA RankFalls ==
    ASSUME RanksOK, RanksOK', Falls(PoolRank, LookLeft, PhaseLeft, PoolRank', LookLeft', PhaseLeft')
    PROVE  BuildRank' < BuildRank
<1>1. /\ PoolRank \in Nat /\ LookLeft \in Nat /\ PhaseLeft \in Nat
      /\ PoolRank' \in Nat /\ LookLeft' \in Nat /\ PhaseLeft' \in Nat
  BY DEF RanksOK
<1>2. 4 * PoolRank' + LookLeft' + PhaseLeft' < 4 * PoolRank + LookLeft + PhaseLeft
  BY <1>1, SumFalls, Zenon
<1> QED
  BY <1>2, Zenon DEF BuildRank

LEMMA PoolRankKept == ASSUME UNCHANGED vars PROVE PoolRank' = PoolRank
<1>1. n' = n /\ next' = next /\ closed' = closed /\ busy' = busy /\ wk' = wk
  BY DEF vars
<1> QED
  BY <1>1 DEF PoolRank, PoolLeft, In

LEMMA PhaseLeftKept == ASSUME UNCHANGED <<phase, count>> PROVE PhaseLeft' = PhaseLeft
BY DEF PhaseLeft, CallLeft

\* What a call of fanOut over k keys puts ahead.
LEMMA CallRank ==
    ASSUME NEW k \in 0..MaxN, Call(k) PROVE PoolRank' <= 5 * k + 2
<1>1. k \in Nat
  BY FanOutAssumption
<1>2. /\ n' = k /\ next' = 1 /\ busy' = (k # 0) /\ closed' = (k = 0)
      /\ wk' = [w \in Workers |-> IF w \in Pool(k) THEN "recv" ELSE "off"]
  BY DEF Call
<1>3. \A w \in Workers : wk'[w] \in Running <=> w \in Pool(k)
  BY <1>2 DEF Running
<1>4. {w \in Workers : wk'[w] \in Running} = Pool(k)
  BY <1>3 DEF Pool
<1>5. /\ {w \in Workers : wk'[w] \in {"work", "send", "cancel"}} = {}
      /\ {w \in Workers : wk'[w] \in {"work", "send"}} = {}
      /\ {w \in Workers : wk'[w] \in {"work"}} = {}
  BY <1>2
<1>6. In(wk', Running) = Cardinality(Pool(k))
  BY <1>4, Zenon DEF In
<1>7. /\ In(wk', {"work", "send", "cancel"}) = 0
      /\ In(wk', {"work", "send"}) = 0 /\ In(wk', {"work"}) = 0
  BY <1>5, FS_EmptySet DEF In
<1>8. Cardinality(Pool(k)) \in Nat /\ Cardinality(Pool(k)) <= k
  <2>1. Pool(k) \in SUBSET (1..k)
    BY FanOutAssumption DEF Pool, Workers
  <2>2. IsFiniteSet(1..k) /\ Cardinality(1..k) = k
    BY <1>1, UpToCount
  <2>3. IsFiniteSet(Pool(k)) /\ Cardinality(Pool(k)) <= Cardinality(1..k)
    BY <2>1, <2>2, FS_Subset, Zenon
  <2> QED
    BY <2>2, <2>3, FS_CardinalityType
<1>9. PoolLeft(wk') \in Nat /\ PoolLeft(wk') <= k
  BY <1>1, <1>6, <1>7, <1>8 DEF PoolLeft
<1>10. PoolRank' = 4 * (n' + 1 - next') + PoolLeft(wk') + (IF closed' THEN 0 ELSE 1) + (IF busy' THEN 1 ELSE 0)
  BY Zenon DEF PoolRank, PoolLeft, In
<1>11. n' = k /\ next' = 1
  BY <1>2
<1> QED
  BY <1>1, <1>9, <1>10, <1>11

\* The calling goroutine's steps between lookups.
LEMMA CallerFalls ==
    ASSUME BuildTypeOK, RanksOK, RanksOK',
           LookupPrimitives \/ LookupPractices \/ LookupComposition \/ AbortFanOut \/ Finish
    PROVE  Falls(PoolRank, LookLeft, PhaseLeft, PoolRank', LookLeft', PhaseLeft')
<1>1. /\ count["primitive"] \in 0..MaxN /\ count["practices"] \in 0..MaxN
      /\ CallLeft(count["primitive"]) \in Nat /\ CallLeft(count["practices"]) \in Nat
  BY Counts, CallLeftType
<1>2. count' = count
  BY DEF LookupPrimitives, LookupPractices, LookupComposition, AbortFanOut, Finish
<1>3. ASSUME NEW k \in 0..MaxN, Call(k), phase' # "composition", PhaseLeft = PhaseLeft' + CallLeft(k)
      PROVE  Falls(PoolRank, LookLeft, PhaseLeft, PoolRank', LookLeft', PhaseLeft')
  <2>1. \A w \in Workers : wk'[w] # "work"
    BY <1>3 DEF Call
  <2>2. \A d \in Callers : ~Looking(d)'
    BY <1>3, <2>1 DEF Looking, Callers
  <2>3. LookLeft' = 0
    BY <2>2, LookNone
  <2>4. PoolRank' <= 5 * k + 2
    BY <1>3, CallRank
  <2>5. PhaseLeft = PhaseLeft' + (4 * (5 * k + 2) + 1) /\ k \in Nat
    BY <1>3, FanOutAssumption DEF CallLeft
  <2> QED
    BY <2>3, <2>4, <2>5, Zenon DEF Falls
<1>4. ASSUME UNCHANGED <<vars, try>>
      PROVE  /\ PoolRank' = PoolRank /\ LookLeft' <= LookLeft + 3
             /\ phase' # "composition" => LookLeft' <= LookLeft
  <2>1. PoolRank' = PoolRank
    BY <1>4, PoolRankKept
  <2>2. \A d \in Callers : d # Main => Left(d)' = Left(d)
    <3>1. try' = try /\ wk' = wk
      BY <1>4 DEF vars
    <3> QED
      BY <3>1 DEF Left, Looking
  <2>3. Main \in Callers /\ Left(Main)' \in 0..3 /\ Left(Main) \in 0..3
    BY LeftType DEF Callers
  <2>4. phase' # "composition" => Left(Main)' = 0
    BY DEF Left, Looking
  <2>5. phase' # "composition" => Left(Main)' <= Left(Main)
    BY <2>3, <2>4
  <2> QED
    BY <2>1, <2>2, <2>3, <2>5, LookMoves, Zenon
<1>5. CASE LookupPrimitives
  <2>1. phase = "start" /\ phase' = "primitive" /\ Call(count["primitive"])
    BY <1>5 DEF LookupPrimitives
  <2>2. /\ PhaseLeft = CallLeft(count["primitive"]) + CallLeft(count["practices"]) + 6
        /\ PhaseLeft' = CallLeft(count["practices"]) + 6
    BY <1>2, <2>1, PhaseIs, PhaseIsNext
  <2>3. CallLeft(count["primitive"]) + CallLeft(count["practices"]) + 6
          = CallLeft(count["practices"]) + 6 + CallLeft(count["primitive"])
    BY <1>1
  <2>4. PhaseLeft = PhaseLeft' + CallLeft(count["primitive"])
    BY <2>2, <2>3, Zenon
  <2>5. phase' # "composition"
    BY <2>1
  <2> QED
    BY <1>1, <1>3, <2>1, <2>4, <2>5, Zenon
<1>6. CASE LookupPractices
  <2>1. phase = "primitive" /\ phase' = "practices" /\ Call(count["practices"])
    BY <1>6 DEF LookupPractices
  <2>2. PhaseLeft = CallLeft(count["practices"]) + 6 /\ PhaseLeft' = 6
    BY <1>2, <2>1, PhaseIs, PhaseIsNext
  <2>3. CallLeft(count["practices"]) + 6 = 6 + CallLeft(count["practices"])
    BY <1>1
  <2>4. PhaseLeft = PhaseLeft' + CallLeft(count["practices"])
    BY <2>2, <2>3, Zenon
  <2>5. phase' # "composition"
    BY <2>1
  <2> QED
    BY <1>1, <1>3, <2>1, <2>4, <2>5, Zenon
<1>7. CASE LookupComposition
  <2>1. phase = "practices" /\ phase' \in {"finish", "composition"} /\ UNCHANGED <<vars, try>>
    BY <1>7 DEF LookupComposition
  <2>2. PhaseLeft = 6 /\ (PhaseLeft' = 1 \/ PhaseLeft' = 2)
    BY <1>2, <2>1, PhaseIs, PhaseIsNext
  <2>3. PhaseLeft' + 3 < PhaseLeft
    BY <2>2
  <2> QED
    BY <1>4, <2>1, <2>3, Zenon DEF Falls
<1>8. CASE AbortFanOut \/ Finish
  <2>1. /\ phase \in {"primitive", "practices", "finish"} /\ UNCHANGED <<vars, try>>
        /\ phase' \in {"auth", "wipeout", "bundle"}
    BY <1>8 DEF AbortFanOut, Finish
  <2>2. PhaseLeft' = 0
    BY <1>2, <2>1, PhaseIsNext
  <2>3. PhaseLeft > 0 /\ PhaseLeft >= 0
    BY <1>1, <2>1, PhaseIs
  <2>4. PhaseLeft' < PhaseLeft /\ PhaseLeft' <= PhaseLeft
    BY <2>2, <2>3
  <2>5. phase' # "composition"
    BY <2>1
  <2> QED
    BY <1>4, <2>1, <2>4, <2>5, Zenon DEF Falls
<1> QED
  BY <1>5, <1>6, <1>7, <1>8

\* A step of the pool outside the lookups.
LEMMA PoolFalls ==
    ASSUME BuildTypeOK, FanInv,
           BuildReturn \/ BuildClose
             \/ \E w \in Workers : BuildHandoff(w) \/ BuildSendErr(w) \/ BuildCancel(w) \/ BuildExit(w)
    PROVE  Falls(PoolRank, LookLeft, PhaseLeft, PoolRank', LookLeft', PhaseLeft')
<1>2. PoolStep /\ UNCHANGED <<phase, count, try>>
  BY DEF BuildReturn, BuildClose, BuildHandoff, BuildSendErr, BuildCancel, BuildExit, Rest, PoolStep, Worker
<1>3. PoolRank' < PoolRank
  BY <1>2, PoolRankFalls DEF BuildTypeOK
<1>4. PhaseLeft' = PhaseLeft
  BY <1>2, PhaseLeftKept
<1>5. ASSUME NEW w \in Workers, \A d \in Workers : d # w => wk'[d] = wk[d]
      PROVE  Falls(PoolRank, LookLeft, PhaseLeft, PoolRank', LookLeft', PhaseLeft')
  <2>1. w \in Callers /\ \A d \in Callers : d # w => Left(d)' = Left(d)
    BY <1>2, <1>5 DEF Left, Looking, Callers
  <2>2. LookLeft' <= LookLeft + 3
    BY <2>1, LookMoves
  <2> QED
    BY <1>3, <1>4, <2>2, Zenon DEF Falls
<1>6. CASE Close \/ Return
  <2>1. wk' = wk
    BY <1>6 DEF Close, Return
  <2>2. 1 \in Workers
    BY FanOutAssumption DEF Workers
  <2> QED
    BY <1>5, <2>1, <2>2
<1>7. ASSUME NEW w \in Workers, Handoff(w) \/ SendErr(w) \/ Cancel(w) \/ Exit(w)
      PROVE  Falls(PoolRank, LookLeft, PhaseLeft, PoolRank', LookLeft', PhaseLeft')
  <2>1. wk \in [Workers -> WorkerStates]
    BY DEF BuildTypeOK, TypeOK
  <2>2. \A d \in Workers : d # w => wk'[d] = wk[d]
    BY <1>7, <2>1 DEF Handoff, SendErr, Cancel, Exit
  <2> QED
    BY <1>5, <2>2
<1>8. Close \/ Return \/ \E w \in Workers : Handoff(w) \/ SendErr(w) \/ Cancel(w) \/ Exit(w)
  BY DEF BuildReturn, BuildClose, BuildHandoff, BuildSendErr, BuildCancel, BuildExit
<1> QED
  BY <1>6, <1>7, <1>8

LEMMA TriesAre ==
    TriesLeft("idle") = 3 /\ TriesLeft("try1") = 2 /\ TriesLeft("backoff") = 1 /\ TriesLeft("try2") = 0
BY DEF TriesLeft

\* Whoever is in a lookup attempts it fewer times than before.
LEMMA AttemptFalls ==
    ASSUME BuildTypeOK, Inv, RanksOK, RanksOK', NEW c \in Callers, Request(c) \/ Backoff(c) \/ Retry(c)
    PROVE  Falls(PoolRank, LookLeft, PhaseLeft, PoolRank', LookLeft', PhaseLeft')
<1>1. UNCHANGED <<vars, phase, count>>
  BY DEF Request, Backoff, Retry
<1>2. wk' = wk
  BY <1>1 DEF vars
<1>3. \A d \in Callers : Looking(d)' <=> Looking(d)
  BY <1>1, <1>2 DEF Looking
<1>4. try \in [Callers -> {"idle", "try1", "backoff", "try2"}]
  BY DEF BuildTypeOK
<1>5. \A d \in Callers : d # c => try'[d] = try[d]
  BY <1>4 DEF Request, Backoff, Retry
<1>6. \/ try[c] = "idle" /\ try'[c] \in {"try1", "backoff"}
      \/ try[c] = "try1" /\ try'[c] = "backoff"
      \/ try[c] = "backoff" /\ try'[c] = "try2"
  BY <1>4 DEF Request, Backoff, Retry
<1>7. Looking(c)
  <2>1. \A d \in Callers : try[d] # "idle" => Looking(d)
    BY Zenon DEF Inv, CallerInv
  <2>2. Request(c) => Looking(c)
    BY DEF Request
  <2>3. Request(c) \/ try[c] # "idle"
    BY DEF Backoff, Retry
  <2> QED
    BY <2>1, <2>2, <2>3
<1>8. TriesLeft(try'[c]) < TriesLeft(try[c])
  BY <1>6, TriesAre
<1>9. Left(c)' < Left(c)
  BY <1>3, <1>7, <1>8 DEF Left
<1>10. \A d \in Callers : d # c => Left(d)' = Left(d)
  BY <1>3, <1>5 DEF Left
<1>11. LookLeft' < LookLeft
  BY <1>9, <1>10, LookMoves
<1>12. PoolRank' = PoolRank /\ PhaseLeft' = PhaseLeft
  BY <1>1, PoolRankKept, PhaseLeftKept
<1>13. LookLeft' <= LookLeft /\ PhaseLeft' <= PhaseLeft
  BY <1>11, <1>12 DEF RanksOK
<1> QED
  BY <1>11, <1>12, <1>13, Zenon DEF Falls

\* A lookup that ends is a step of its worker, or the last but one of the calling goroutine.
LEMMA EndFalls ==
    ASSUME BuildTypeOK, FanInv, Inv, RanksOK, RanksOK', NEW c \in Callers, Ends(c)
    PROVE  Falls(PoolRank, LookLeft, PhaseLeft, PoolRank', LookLeft', PhaseLeft')
<1>1. Looking(c) /\ (EndLookup(c) \/ Auth(c)) /\ count' = count
  BY DEF Ends, Definitive, Transient, Auth, EndLookup
<1>2. try \in [Callers -> {"idle", "try1", "backoff", "try2"}] /\ wk \in [Workers -> WorkerStates]
  BY DEF BuildTypeOK, TypeOK
<1>3. try' = [try EXCEPT ![c] = "idle"]
  BY <1>1 DEF EndLookup, Auth
<1>4. \A d \in Callers : d # c => try'[d] = try[d]
  BY <1>2, <1>3
<1>5. CASE c # Main
  <2>1. (WorkOK(c) \/ WorkFails(c)) /\ phase' = phase
    BY <1>1, <1>5 DEF EndLookup, Auth
  <2>2. c \in Workers
    BY <1>5 DEF Callers
  <2>3. PoolRank' < PoolRank
    BY <2>1, <2>2, PoolRankFalls DEF PoolStep, Worker, BuildTypeOK
  <2>4. \A d \in Workers : d # c => wk'[d] = wk[d]
    BY <1>2, <2>1 DEF WorkOK, WorkFails
  <2>5. \A d \in Callers : d # c => Left(d)' = Left(d)
    BY <1>4, <2>1, <2>4 DEF Left, Looking, Callers
  <2>6. LookLeft' <= LookLeft + 3
    BY <2>5, LookMoves
  <2>7. PhaseLeft' = PhaseLeft
    BY <1>1, <2>1, PhaseLeftKept
  <2> QED
    BY <2>3, <2>6, <2>7, Zenon DEF Falls
<1>6. CASE c = Main
  <2>1. phase = "composition" /\ phase' \in {"finish", "auth"} /\ UNCHANGED vars
    BY <1>1, <1>6 DEF EndLookup, Auth, Looking
  <2>2. wk' = wk
    BY <2>1 DEF vars
  <2>3. \A d \in Callers : d # c => Left(d)' = Left(d)
    BY <1>4, <1>6, <2>2 DEF Left, Looking
  <2>4. Left(c)' = 0 /\ Left(c) \in 0..3
    BY <1>6, <2>1, LeftType DEF Left, Looking
  <2>5. Left(c)' <= Left(c)
    BY <2>4
  <2>6. LookLeft' <= LookLeft
    BY <2>3, <2>5, LookMoves
  <2>7. PhaseLeft = 2 /\ (PhaseLeft' = 1 \/ PhaseLeft' = 0)
    BY <1>1, <2>1, PhaseIs, PhaseIsNext
  <2>8. PhaseLeft' < PhaseLeft /\ PhaseLeft' <= PhaseLeft
    BY <2>7
  <2>9. PoolRank' = PoolRank
    BY <2>1, PoolRankKept
  <2> QED
    BY <2>6, <2>8, <2>9, Zenon DEF Falls
<1> QED
  BY <1>5, <1>6

LEMMA BuildRankFalls ==
    BuildTypeOK /\ FanInv /\ Inv /\ RanksOK /\ RanksOK' /\ BuildStep => BuildRank' < BuildRank
<1> SUFFICES ASSUME BuildTypeOK, FanInv, Inv, RanksOK, RanksOK', BuildStep
             PROVE  Falls(PoolRank, LookLeft, PhaseLeft, PoolRank', LookLeft', PhaseLeft')
  BY RankFalls
<1>1. ASSUME NEW c \in Callers, Lookup(c)
      PROVE  Falls(PoolRank, LookLeft, PhaseLeft, PoolRank', LookLeft', PhaseLeft')
  <2>1. CASE Request(c) \/ Backoff(c) \/ Retry(c)
    BY <2>1, AttemptFalls
  <2>2. CASE Ends(c)
    BY <2>2, EndFalls
  <2> QED
    BY <1>1, <2>1, <2>2 DEF Lookup, Ends
<1>2. CASE LookupPrimitives \/ LookupPractices \/ LookupComposition \/ AbortFanOut \/ Finish
  BY <1>2, CallerFalls
<1>3. CASE BuildReturn \/ BuildClose
             \/ \E w \in Workers : BuildHandoff(w) \/ BuildSendErr(w) \/ BuildCancel(w) \/ BuildExit(w)
  BY <1>3, PoolFalls
<1>4. Main \in Callers /\ Workers \subseteq Callers
  BY DEF Callers
<1> QED
  BY <1>1, <1>2, <1>3, <1>4 DEF BuildStep, Caller, BuildWorker

LEMMA GoesOn == BuildTypeOK /\ FanInv /\ Inv /\ RoomInv /\ ~Over => BuildReady
<1> SUFFICES ASSUME BuildTypeOK, FanInv, Inv, RoomInv, ~Over PROVE BuildReady
  OBVIOUS
<1>1. Main \in Callers /\ Workers \subseteq Callers
  BY DEF Callers
<1>2. try \in [Callers -> {"idle", "try1", "backoff", "try2"}]
      /\ phase \in {"start", "primitive", "practices", "composition", "finish", "bundle", "auth", "wipeout"}
  BY DEF BuildTypeOK
<1>4. ASSUME NEW c \in Callers, Looking(c) PROVE LookupReady(c)
  BY <1>2, <1>4 DEF LookupReady
<1>5. CASE phase \in {"start", "finish"}
  BY <1>5 DEF BuildReady
<1>6. CASE phase = "composition"
  BY <1>1, <1>4, <1>6 DEF BuildReady, Looking
<1>7. CASE phase \in {"primitive", "practices"} /\ ~busy
  BY <1>7 DEF BuildReady
<1>8. CASE busy
  <2>1. Ready
    BY <1>8, BusyIsReady DEF BuildTypeOK
  <2>2. ASSUME NEW w \in Workers, wk[w] = "work" PROVE LookupReady(w)
    <3>1. w \in Callers /\ w # Main
      BY <1>1, FanOutAssumption DEF Workers, Main
    <3> QED
      BY <1>4, <2>2, <3>1 DEF Looking
  <2> QED
    BY <1>1, <2>1, <2>2 DEF Ready, BuildReady
<1> QED
  BY <1>2, <1>5, <1>6, <1>7, <1>8 DEF Over

\* Until BuildGrounding has returned somebody can go on, and every step but the end of
\* the context leaves less to do: no lookup is repeated without end and no goroutine waits
\* for one that waits for it.  Under BuildFairSpec this is why BuildGrounding returns.
THEOREM BuildProgress == BuildSpec => /\ [](~Over => BuildReady /\ BuildRank \in Nat)
                                      /\ [][BuildStep => BuildRank' < BuildRank]_buildVars
<1>1. BuildTypeOK /\ FanInv /\ Inv /\ RoomInv => (~Over => BuildReady /\ BuildRank \in Nat)
  BY GoesOn, RanksType
<1>2. BuildTypeOK /\ FanInv /\ Inv /\ RanksOK /\ RanksOK' => [BuildStep => BuildRank' < BuildRank]_buildVars
  BY BuildRankFalls
<1>3. BuildTypeOK /\ FanInv => RanksOK
  BY RanksType
<1> QED
  BY <1>1, <1>2, <1>3, RoomAlways, PoolIsFanOut, InvAlways, PTL
=============================================================================
