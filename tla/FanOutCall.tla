----------------------------- MODULE FanOutCall -----------------------------
(***************************************************************************)
(* What a caller of fanOut (internal/audit/grounding.go) may rely on,      *)
(* without its goroutines and channels: work(i) ends well or badly for     *)
(* some indices, and the call returns                                      *)
(*   - an error only if some work(i) failed, and one that did fail;        *)
(*   - nil only if none failed and every index was done, or the caller's   *)
(*     own context had ended.                                              *)
(***************************************************************************)
EXTENDS Naturals

CONSTANT MaxN \* bound of the number of indices

VARIABLES busy,   \* a call is in progress
          n,      \* its number of indices
          ended,  \* the caller's context has ended
          done,   \* indices whose work returned nil
          failed, \* indices whose work returned an error
          result  \* 0 for a nil error, otherwise the index whose error is returned

callVars == <<busy, n, ended, done, failed, result>>

Nil == 0

Init ==
    /\ busy = FALSE /\ n = 0 /\ ended = FALSE
    /\ done = {} /\ failed = {} /\ result = Nil

Call ==
    /\ ~busy
    /\ n' \in 0..MaxN
    /\ busy' = (n' # 0)
    /\ done' = {} /\ failed' = {} /\ result' = Nil
    /\ UNCHANGED ended

Do ==
    /\ busy
    /\ \E i \in 1..n \ (done \cup failed) :
         \/ done' = done \cup {i} /\ UNCHANGED failed
         \/ failed' = failed \cup {i} /\ UNCHANGED done
    /\ UNCHANGED <<busy, n, ended, result>>

End ==
    /\ ended' = TRUE
    /\ UNCHANGED <<busy, n, done, failed, result>>

Return ==
    /\ busy
    /\ \/ failed # {} /\ result' \in failed
       \/ failed = {} /\ (ended \/ done = 1..n) /\ result' = Nil
    /\ busy' = FALSE
    /\ UNCHANGED <<n, ended, done, failed>>

Next == Call \/ Do \/ End \/ Return

Spec == Init /\ [][Next]_callVars
=============================================================================
