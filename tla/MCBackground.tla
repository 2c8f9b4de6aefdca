---- MODULE MCBackground ----
(* The instance of SpanPipeline, MetricRollup and ImageStore for TLC.  The three *)
(* share no state, so each behaviour runs one of them and leaves the others in   *)
(* their initial states.                                                         *)
EXTENDS SpanPipeline, ImageStore, MetricRollup

CONSTANTS p1, p2

VARIABLE part

OneSpanFault == [k \in SpanFaultKinds |-> 1]
OneImageFault == [k \in ImageFaultKinds |-> 1]
OneMetricFault == [k \in MetricFaultKinds |-> 1]

mcVars == <<part, spanVars, metricVars, imageVars>>

MCInit == /\ part \in {"traces", "metrics", "images"}
          /\ SpanInit /\ MetricInit /\ ImageInit
          /\ part # "metrics" => at = 0

MCNext ==
    \/ part = "traces" /\ SpanNext /\ UNCHANGED <<part, metricVars, imageVars>>
    \/ part = "metrics" /\ MetricNext /\ UNCHANGED <<part, spanVars, imageVars>>
    \/ part = "images" /\ ImageNext /\ UNCHANGED <<part, spanVars, metricVars>>

MCSpec == MCInit /\ [][MCNext]_mcVars

MCFairSpec == MCSpec /\ SpanFairness

\* Bound: one fault of the metrics and one of the images.
FewFaults == /\ metricFaults["db"] + metricFaults["lease"] + metricFaults["crash"] <= 1
             /\ imageFaults["storage"] + imageFaults["end"] + imageFaults["config"] <= 1
====
