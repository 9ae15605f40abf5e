------------------------------ MODULE Grounding ------------------------------
(***************************************************************************)
(* BuildGrounding (internal/audit/grounding.go): the CB-knowledge lookups  *)
(* of one audit.  Two calls of fanOut, one per primitive id and one per    *)
(* workload, then one composition lookup by the calling goroutine; every   *)
(* lookup is the bounded retry of knowledge.Client.do.                     *)
(*                                                                         *)
(* A key is its index in the sorted list.  A worker writes its slot and    *)
(* its bookkeeping (under missMu) in one action with the end of work(i):   *)
(* no other goroutine reads either before wg.Wait.  What belongs to the    *)
(* whole of BuildGrounding and has a namesake in FanOut begins with Build. *)
(***************************************************************************)
EXTENDS FanOut

CONSTANT CtxMayEnd \* the audit's context may end (Ctrl-C, --timeout)

ASSUME GroundingAssumption == CtxMayEnd \in BOOLEAN

VARIABLES
    phase,   \* where the calling goroutine is
    count,   \* count[f]: the number of keys of family f
    slots,   \* slots[f][i]: the bundle's entry for key i of family f
    misses,  \* the misses recorded, as <<family, key>>
    fetched, \* lookups answered definitively
    \* knowledge.Client.do, run by worker w or, for the composition, by the caller
    try,
    \* history: the last word of the backend on each key
    answer

bundle == <<slots, misses, fetched, answer>>
buildVars == <<vars, phase, count, bundle, try>>

Main == 0
Callers == {Main} \cup Workers
Families == {"primitive", "practices", "composition"}
Keys == 1..MaxN

BuildTypeOK ==
    /\ TypeOK
    /\ phase \in {"start", "primitive", "practices", "composition", "finish",
                  "bundle", "auth", "wipeout"}
    /\ count \in [Families -> 0..MaxN]
    /\ slots \in [Families -> [Keys -> {"unset", "data", "missing"}]]
    /\ misses \subseteq Families \X Keys
    /\ fetched \in 0..(2 * MaxN + 1)
    /\ try \in [Callers -> {"idle", "try1", "backoff", "try2"}]
    /\ answer \in [Families -> [Keys -> {"none", "data", "absent", "auth", "failed"}]]

\* uniqueSortedPrimitiveIDs and the workloads; one composition lookup if there are ids.
BuildInit ==
    /\ Init
    /\ phase = "start"
    /\ \E p \in 0..MaxN, w \in 0..MaxN :
         count = [f \in Families |-> CASE f = "primitive" -> p
                                       [] f = "practices" -> w
                                       [] f = "composition" -> IF p = 0 THEN 0 ELSE 1]
    /\ slots = [f \in Families |-> [i \in Keys |-> "unset"]]
    /\ misses = {} /\ fetched = 0
    /\ try = [c \in Callers |-> "idle"]
    /\ answer = [f \in Families |-> [i \in Keys |-> "none"]]

-----------------------------------------------------------------------------
(* The calling goroutine. *)

LookupPrimitives ==
    /\ phase = "start" /\ phase' = "primitive"
    /\ Call(count["primitive"])
    /\ UNCHANGED <<count, bundle, try>>

LookupPractices ==
    /\ phase = "primitive" /\ ~busy /\ result = Nil
    /\ phase' = "practices"
    /\ Call(count["practices"])
    /\ UNCHANGED <<count, bundle, try>>

\* The composition lookup, skipped when there is no primitive id.
LookupComposition ==
    /\ phase = "practices" /\ ~busy /\ result = Nil
    /\ phase' = IF count["composition"] = 0 THEN "finish" ELSE "composition"
    /\ UNCHANGED <<vars, count, bundle, try>>

\* A fan-out returned an error: only auth-class answers are errors.
AbortFanOut ==
    /\ phase \in {"primitive", "practices"} /\ ~busy /\ result # Nil
    /\ phase' = "auth"
    /\ UNCHANGED <<vars, count, bundle, try>>

\* Mutant: any miss without a payload is a wipeout, 404s do not count.
Finish_CountsPayloads ==
    /\ phase = "finish"
    /\ phase' = IF misses # {} /\ \A f \in Families, i \in Keys : slots[f][i] # "data"
                THEN "wipeout" ELSE "bundle"
    /\ UNCHANGED <<vars, count, bundle, try>>

Finish ==
    /\ phase = "finish"
    /\ phase' = IF fetched = 0 /\ misses # {} THEN "wipeout" ELSE "bundle"
    /\ UNCHANGED <<vars, count, bundle, try>>

-----------------------------------------------------------------------------
(* One lookup. *)

\* c is in work(i), or in the composition lookup.
Looking(c) == IF c = Main THEN phase = "composition" ELSE wk[c] = "work"

\* Mutant: the slot after the right one.
Key_OffByOne(c) == IF c = Main THEN 1 ELSE job[c] + 1

Key(c) == IF c = Main THEN 1 ELSE job[c]

\* The first request.  http.Do on an ended context fails at once, which is retryable.
Request(c) ==
    /\ Looking(c) /\ try[c] = "idle"
    /\ try' = [try EXCEPT ![c] = IF ended THEN "backoff" ELSE "try1"]
    /\ UNCHANGED <<vars, phase, count, bundle>>

\* A transport error, a broken body or a 5xx on the first attempt.
Backoff(c) ==
    /\ try[c] = "try1"
    /\ try' = [try EXCEPT ![c] = "backoff"]
    /\ UNCHANGED <<vars, phase, count, bundle>>

\* Mutant: the attempts are not counted.
Retry_Forever(c) ==
    /\ try[c] = "backoff" /\ ~ended
    /\ try' = [try EXCEPT ![c] = "try1"]
    /\ UNCHANGED <<vars, phase, count, bundle>>

Retry(c) ==
    /\ try[c] = "backoff" /\ ~ended
    /\ try' = [try EXCEPT ![c] = "try2"]
    /\ UNCHANGED <<vars, phase, count, bundle>>

\* work(i), or the composition lookup, ends without an error.
EndLookup(c) ==
    /\ try' = [try EXCEPT ![c] = "idle"]
    /\ \/ c # Main /\ WorkOK(c) /\ UNCHANGED phase
       \/ c = Main /\ phase' = "finish" /\ UNCHANGED vars
    /\ UNCHANGED count

\* A payload or a 404, on either attempt.
Definitive(c) ==
    /\ Looking(c) /\ try[c] \in {"try1", "try2"}
    /\ \E a \in {"data", "absent"} :
         /\ answer' = [answer EXCEPT ![phase][Key(c)] = a]
         /\ slots' = [slots EXCEPT ![phase][Key(c)] = IF a = "data" THEN "data" ELSE "missing"]
    /\ fetched' = fetched + 1
    /\ EndLookup(c)
    /\ UNCHANGED misses

\* Mutant: a failed lookup leaves its placeholder but no miss.
Transient_NotRecorded(c) ==
    /\ Looking(c)
    /\ try[c] \in {"try1", "try2"} \/ (try[c] = "backoff" /\ ended)
    /\ answer' = [answer EXCEPT ![phase][Key(c)] = "failed"]
    /\ slots' = [slots EXCEPT ![phase][Key(c)] = "missing"]
    /\ EndLookup(c)
    /\ UNCHANGED <<misses, fetched>>

\* A second retryable failure, a failure that is not retried (oversized or undecodable
\* body, another 4xx), or the context ended during the backoff.
Transient(c) ==
    /\ Looking(c)
    /\ try[c] \in {"try1", "try2"} \/ (try[c] = "backoff" /\ ended)
    /\ answer' = [answer EXCEPT ![phase][Key(c)] = "failed"]
    /\ slots' = [slots EXCEPT ![phase][Key(c)] = "missing"]
    /\ misses' = misses \cup {<<phase, Key(c)>>}
    /\ EndLookup(c)
    /\ UNCHANGED fetched

\* 401 or 403: work(i) returns an error, the composition lookup aborts.
Auth(c) ==
    /\ Looking(c) /\ try[c] \in {"try1", "try2"}
    /\ answer' = [answer EXCEPT ![phase][Key(c)] = "auth"]
    /\ try' = [try EXCEPT ![c] = "idle"]
    /\ \/ c # Main /\ WorkFails(c) /\ UNCHANGED phase
       \/ c = Main /\ phase' = "auth" /\ UNCHANGED vars
    /\ UNCHANGED <<count, slots, misses, fetched>>

Lookup(c) == Request(c) \/ Backoff(c) \/ Retry(c) \/ Definitive(c) \/ Transient(c) \/ Auth(c)

-----------------------------------------------------------------------------
Rest == UNCHANGED <<phase, count, bundle, try>>

BuildHandoff(w) == Handoff(w) /\ Rest
BuildSendErr(w) == SendErr(w) /\ Rest
BuildCancel(w) == Cancel(w) /\ Rest
BuildExit(w) == Exit(w) /\ Rest
BuildClose == Close /\ Rest
BuildReturn == Return /\ Rest
BuildEnd == CtxMayEnd /\ End /\ Rest

BuildWorker(w) == BuildHandoff(w) \/ BuildSendErr(w) \/ BuildCancel(w) \/ BuildExit(w) \/ Lookup(w)

Caller ==
    \/ LookupPrimitives \/ LookupPractices \/ LookupComposition \/ AbortFanOut \/ Finish
    \/ BuildReturn \/ Lookup(Main)

BuildNext == Caller \/ BuildClose \/ BuildEnd \/ \E w \in Workers : BuildWorker(w)

BuildSpec == BuildInit /\ [][BuildNext]_buildVars

\* Goroutines run and requests are answered or time out (knowledge.New: 20 s).
BuildFairSpec ==
    /\ BuildSpec
    /\ WF_buildVars(Caller) /\ WF_buildVars(BuildClose)
    /\ \A w \in Workers : WF_buildVars(BuildWorker(w))

-----------------------------------------------------------------------------
(* Properties. *)

Over == phase \in {"bundle", "auth", "wipeout"}
AllKeys == {k \in Families \X Keys : k[2] <= count[k[1]]}
Said(k) == answer[k[1]][k[2]]
Slot(k) == slots[k[1]][k[2]]

\* Misses separates "CB has no entry" from "CB could not be reached": a key is missed
\* iff its lookup failed, a payload is in its own slot, a 404 is never a miss, and no
\* slot is left unfilled while the audit's context lives.  The slots of a context that ended
\* are conceded: the code leaves them unset (grounding.go:25 promises one entry per id).
MissesExact ==
    phase = "bundle" =>
      \A k \in AllKeys :
        /\ k \in misses <=> Said(k) = "failed"
        /\ Slot(k) = "data" <=> Said(k) = "data"
        /\ Slot(k) = "unset" => ended

\* The error policy of BuildGrounding: abort for an auth answer or a total wipeout and
\* for nothing else, whichever worker saw it and whatever the others were doing.
AbortsExactly ==
    /\ phase = "auth" => \E k \in AllKeys : Said(k) = "auth"
    /\ phase = "wipeout" => \A k \in AllKeys : Said(k) \notin {"data", "absent", "auth"}
    /\ phase = "bundle" =>
         /\ \A k \in AllKeys : Said(k) # "auth"
         /\ (\E k \in AllKeys : Said(k) = "failed") =>
              \E k \in AllKeys : Said(k) \in {"data", "absent"}

\* BuildGrounding returns, whatever the backend answers and whenever the context ends.
BuildReturns == <>Over
=============================================================================
