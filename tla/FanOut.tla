------------------------------- MODULE FanOut -------------------------------
(***************************************************************************)
(* fanOut of internal/audit/grounding.go: a producer goroutine hands the   *)
(* indices 1..n over an unbuffered channel to a pool of workers; the first *)
(* error is kept in a buffered channel and cancels the derived context.    *)
(* The caller waits for the workers only, then reads the errors.           *)
(* Indices count from 1 here, from 0 in the code.                          *)
(***************************************************************************)
EXTENDS Naturals, Sequences

CONSTANTS Concurrency, \* the caller's bound on workers
          MaxN         \* bound of the number of indices of a call

ASSUME FanOutAssumption == Concurrency \in Nat \ {0} /\ MaxN \in Nat

Workers == 1..Concurrency

VARIABLES
    busy,      \* the call is in progress
    n,         \* its argument
    ended,     \* the caller's context has ended
    cancelled, \* the derived context is cancelled
    next,      \* the producer's loop variable
    closed,    \* the producer has returned and closed jobs
    wk,        \* wk[w]: what worker w is doing
    job,       \* job[w]: the index it works on, or worked on last
    errs,      \* the error channel: indices of the failed work, in order
    done,      \* indices whose work returned nil
    failed,    \* indices whose work returned an error
    result     \* what the last call returned: Nil or the index of an error

vars == <<busy, n, ended, cancelled, next, closed, wk, job, errs, done, failed, result>>

Nil == 0

\* "off" before it is started, "recv" at the range over jobs, "work" in work(i),
\* "send" at errs <- err, "cancel" at cancel(), "drain" at the draining range.
WorkerStates == {"off", "recv", "work", "send", "cancel", "drain", "exit"}

\* concurrency is clamped to n.
Pool(k) == {w \in Workers : w <= k}

TypeOK ==
    /\ busy \in BOOLEAN /\ n \in 0..MaxN
    /\ ended \in BOOLEAN /\ cancelled \in BOOLEAN
    /\ next \in 1..(MaxN + 1) /\ closed \in BOOLEAN
    /\ wk \in [Workers -> WorkerStates]
    /\ job \in [Workers -> 0..MaxN]
    /\ errs \in Seq(0..MaxN)
    /\ done \subseteq 0..MaxN /\ failed \subseteq 0..MaxN
    /\ result \in 0..MaxN

Init ==
    /\ busy = FALSE /\ n = 0
    /\ ended = FALSE /\ cancelled = FALSE
    /\ next = 1 /\ closed = TRUE
    /\ wk = [w \in Workers |-> "off"]
    /\ job = [w \in Workers |-> 0]
    /\ errs = <<>>
    /\ done = {} /\ failed = {} /\ result = Nil

\* The call: with no index it returns nil at once, otherwise it starts the
\* goroutines.  A context derived from one that has ended is born cancelled.
Call(k) ==
    /\ ~busy
    /\ n' = k
    /\ busy' = (k # 0)
    /\ cancelled' = ended
    /\ next' = 1 /\ closed' = (k = 0)
    /\ wk' = [w \in Workers |-> IF w \in Pool(k) THEN "recv" ELSE "off"]
    /\ job' = [w \in Workers |-> 0]
    /\ errs' = <<>>
    /\ done' = {} /\ failed' = {} /\ result' = Nil
    /\ UNCHANGED ended

-----------------------------------------------------------------------------
(* The producer. *)

\* jobs <- i meets a receive: a worker's, or that of one draining after an error.
Handoff(w) ==
    /\ ~closed /\ next <= n /\ wk[w] \in {"recv", "drain"}
    /\ next' = next + 1
    /\ \/ /\ wk[w] = "recv"
          /\ wk' = [wk EXCEPT ![w] = "work"]
          /\ job' = [job EXCEPT ![w] = next]
       \/ wk[w] = "drain" /\ UNCHANGED <<wk, job>>
    /\ UNCHANGED <<busy, n, ended, cancelled, closed, errs, done, failed, result>>

\* The loop is over, or the select takes ctx.Done(); close(jobs) is deferred.
Close ==
    /\ ~closed
    /\ next > n \/ cancelled
    /\ closed' = TRUE
    /\ UNCHANGED <<busy, n, ended, cancelled, next, wk, job, errs, done, failed, result>>

-----------------------------------------------------------------------------
(* A worker. *)

WorkOK(w) ==
    /\ wk[w] = "work"
    /\ wk' = [wk EXCEPT ![w] = "recv"]
    /\ done' = done \cup {job[w]}
    /\ UNCHANGED <<busy, n, ended, cancelled, next, closed, job, errs, failed, result>>

\* Mutant: the error is dropped and the worker goes on.
WorkFails_Dropped(w) ==
    /\ wk[w] = "work"
    /\ wk' = [wk EXCEPT ![w] = "recv"]
    /\ failed' = failed \cup {job[w]}
    /\ UNCHANGED <<busy, n, ended, cancelled, next, closed, job, errs, done, result>>

WorkFails(w) ==
    /\ wk[w] = "work"
    /\ wk' = [wk EXCEPT ![w] = "send"]
    /\ failed' = failed \cup {job[w]}
    /\ UNCHANGED <<busy, n, ended, cancelled, next, closed, job, errs, done, result>>

\* Mutant: a channel for one error only.
ErrsCap_One == 1

\* errs has one place per worker started.
ErrsCap == IF Concurrency > n THEN n ELSE Concurrency

SendErr(w) ==
    /\ wk[w] = "send" /\ Len(errs) < ErrsCap
    /\ errs' = Append(errs, job[w])
    /\ wk' = [wk EXCEPT ![w] = "cancel"]
    /\ UNCHANGED <<busy, n, ended, cancelled, next, closed, job, done, failed, result>>

\* Mutant: the failed worker neither cancels nor drains.
Cancel_Exits(w) ==
    /\ wk[w] = "cancel"
    /\ wk' = [wk EXCEPT ![w] = "exit"]
    /\ UNCHANGED <<busy, n, ended, cancelled, next, closed, job, errs, done, failed, result>>

Cancel(w) ==
    /\ wk[w] = "cancel"
    /\ cancelled' = TRUE
    /\ wk' = [wk EXCEPT ![w] = "drain"]
    /\ UNCHANGED <<busy, n, ended, next, closed, job, errs, done, failed, result>>

\* The range over the closed channel ends.
Exit(w) ==
    /\ wk[w] \in {"recv", "drain"} /\ closed
    /\ wk' = [wk EXCEPT ![w] = "exit"]
    /\ UNCHANGED <<busy, n, ended, cancelled, next, closed, job, errs, done, failed, result>>

-----------------------------------------------------------------------------
(* The caller. *)

\* wg.Wait() is over; the deferred cancel() runs on return.
Return ==
    /\ busy /\ \A w \in Pool(n) : wk[w] = "exit"
    /\ busy' = FALSE
    /\ result' = IF errs = <<>> THEN Nil ELSE errs[1]
    /\ cancelled' = TRUE
    /\ UNCHANGED <<n, ended, next, closed, wk, job, errs, done, failed>>

\* The caller's context ends (Ctrl-C, --timeout).
End ==
    /\ ended' = TRUE /\ cancelled' = TRUE
    /\ UNCHANGED <<busy, n, next, closed, wk, job, errs, done, failed, result>>

Worker(w) ==
    \/ Handoff(w) \/ WorkOK(w) \/ WorkFails(w) \/ SendErr(w) \/ Cancel(w) \/ Exit(w)

Next ==
    \/ \E k \in 0..MaxN : Call(k)
    \/ Close \/ Return \/ End
    \/ \E w \in Workers : Worker(w)

Spec == Init /\ [][Next]_vars

\* Goroutines are scheduled and work(i) returns (its requests time out).
FairSpec ==
    /\ Spec
    /\ WF_vars(Close) /\ WF_vars(Return)
    /\ \A w \in Workers : WF_vars(Worker(w))

-----------------------------------------------------------------------------
(* Properties. *)

\* The goroutines and channels of fanOut implement FanOutCall: an error is returned
\* iff some work failed, nil never hides an index that was not done.
Promise == INSTANCE FanOutCall

ImplementsCall == Promise!Spec

\* Nothing outlives the call: once it has returned, the producer has closed jobs and
\* every worker has left its loop (wg.Wait covers the workers only).
NoLeak == ~busy => closed /\ \A w \in Workers : wk[w] \in {"off", "exit"}

\* Whatever fails and whenever the context ends, the call returns: no worker is stuck
\* sending its error and the producer is not stuck sending a job.
CallReturns == busy ~> ~busy
=============================================================================
