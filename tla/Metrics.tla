------------------------------ MODULE Metrics ------------------------------
(***************************************************************************)
(* MetricsService: how often each combination of labels was answered, and  *)
(* the durations of its latest answers, in the memory of one process.      *)
(* Nothing in it awaits, so an answer is counted and measured in one step. *)
(***************************************************************************)
EXTENDS Integers, Sequences

CONSTANTS Labels,  \* method, route and status of a request
          Window   \* durations kept for a combination: 500, at least one

VARIABLES counters,   \* labels -> answers counted
          durations,  \* labels -> the durations kept, oldest first
          finished    \* labels -> all durations since the start (history)

metricsVars == <<counters, durations, finished>>

Init == /\ counters  = [l \in Labels |-> 0]
        /\ durations = [l \in Labels |-> <<>>]
        /\ finished  = [l \in Labels |-> <<>>]

\* push, then shift when there are too many.
NeverFullSlip(values, v) == Append(values, v)
Pushed(values, v) == LET all == Append(values, v) IN
                     IF Len(all) > Window THEN Tail(all) ELSE all

\* increment and observe, when the response with these labels is finished.
Finish(l, v) ==
    /\ counters'  = [counters EXCEPT ![l] = @ + 1]
    /\ durations' = [durations EXCEPT ![l] = Pushed(@, v)]
    /\ finished'  = [finished EXCEPT ![l] = Append(@, v)]

\* The process starts again with empty maps.
Reset == /\ counters'  = [l \in Labels |-> 0]
         /\ durations' = [l \in Labels |-> <<>>]
         /\ finished'  = [l \in Labels |-> <<>>]

-----------------------------------------------------------------------------
(* What renderPrometheus prints of a combination, in hundredths.           *)

Total(s) == LET sum[i \in 0..Len(s)] == IF i = 0 THEN 0 ELSE sum[i - 1] + s[i]
            IN  sum[Len(s)]
Average(s) == IF s = <<>> THEN 0 ELSE (200 * Total(s) + Len(s)) \div (2 * Len(s))

Counter(l) == counters[l]
Gauge(l)   == Average(durations[l])

\* The answers a scrape averages are the latest of all that were counted: none
\* older is left in, none recent is missing, and the count has them all.
WindowIsRecent ==
    \A l \in Labels :
        LET n      == Len(finished[l])
            recent == SubSeq(finished[l], IF n > Window THEN n - Window + 1 ELSE 1, n)
        IN  Counter(l) = n /\ Gauge(l) = Average(recent)
=============================================================================
