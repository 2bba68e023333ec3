----------------------------- MODULE Prometheus -----------------------------
(***************************************************************************)
(* The Prometheus exporter (gateway/exporters/prometheus): the metric of   *)
(* each series, the calculator of differences, and what Export does with   *)
(* a value.  A series is what NewStringMapHash tells apart; the model has  *)
(* one for each leaf.                                                      *)
(***************************************************************************)
EXTENDS Integers

CONSTANTS
    Leaf,      \* the leaves of the target
    YangType   \* the type that GetTypeByPath finds for the path of a leaf

ASSUME TypeAssumption == YangType \in [Leaf -> {"counter64", "gauge32", "other"}]

VARIABLES
    metrics,   \* e.metrics: "none" before the first value, "nil" for a nil metric
    history,   \* the calculator's: is there a value, and which
    shown,     \* the value of the metric
    first,     \* history: the first value exported,
    fell       \*    and whether a value was ever lower than the one before it

promVars == <<metrics, history, shown, first, fell>>

\* A gnmi.TypedValue; those that are never a number are of kind "other".
TypedValue == [kind : {"number", "bool", "other"}, n : Nat]

\* A metric starts at 0 when it is made.
PromTypeOK ==
    /\ metrics \in [Leaf -> {"none", "nil", "counter", "gauge"}]
    /\ history \in [Leaf -> [exists : BOOLEAN, value : Nat]]
    /\ shown \in [Leaf -> Nat]
    /\ first \in [Leaf -> Nat]
    /\ fell \in [Leaf -> BOOLEAN]

PromInit ==
    /\ metrics = [p \in Leaf |-> "none"]
    /\ history = [p \in Leaf |-> [exists |-> FALSE, value |-> 0]]
    /\ shown = [p \in Leaf |-> 0]
    /\ first = [p \in Leaf |-> 0]
    /\ fell = [p \in Leaf |-> FALSE]

-----------------------------------------------------------------------------
\* GetNumberValues: FALSE is not a number, TRUE is 1.
IsNumber(tv) == tv.kind = "number" \/ (tv.kind = "bool" /\ tv.n = 1)

MetricOf(p) ==
    CASE YangType[p] = "counter64" -> "counter"
      [] YangType[p] = "gauge32"   -> "nil"
      [] OTHER                     -> "gauge"

\* Mutant: the first value counts as a difference too.
AddDeltaOfFirst(p, new) ==
    IF new >= history[p].value THEN shown[p] + (new - history[p].value) ELSE shown[p]

\* Add, unless there is no earlier value or the value has fallen.
AddDelta(p, new) ==
    IF history[p].exists /\ new >= history[p].value
    THEN shown[p] + (new - history[p].value)
    ELSE shown[p]

\* Calc: the old value is replaced whether or not the difference is used.
Calc(p, new) == [history EXCEPT ![p] = [exists |-> TRUE, value |-> new]]

\* Mutant: a value that is lower than the last one is not remembered.
CalcHighest(p, new) ==
    IF history[p].exists /\ new < history[p].value
    THEN history ELSE [history EXCEPT ![p] = [exists |-> TRUE, value |-> new]]

\* Every metric that is not nil has the methods of a Counter, so a Gauge takes the
\* first case of the switch as well.
ExportValue(p, tv) ==
    IF ~IsNumber(tv)
    THEN UNCHANGED promVars
    ELSE /\ metrics' = [metrics EXCEPT ![p] = IF @ = "none" THEN MetricOf(p) ELSE @]
         /\ IF metrics'[p] = "nil"
            THEN UNCHANGED <<history, shown, first, fell>>
            ELSE /\ history' = Calc(p, tv.n)
                 /\ shown' = [shown EXCEPT ![p] = AddDelta(p, tv.n)]
                 /\ first' = [first EXCEPT ![p] = IF history[p].exists THEN @ ELSE tv.n]
                 /\ fell' = [fell EXCEPT ![p] =
                                @ \/ (history[p].exists /\ tv.n < history[p].value)]

-----------------------------------------------------------------------------
(* Properties. *)

\* What a metric shows is the rise of its leaf since the first value that was
\* exported, whatever was skipped, repeated or sent again after the target was
\* subscribed to anew; if the leaf has fallen in between, never less than that
\* (delta.go:37-44, prometheus.go:101-105).
CounterTelescopes ==
    \A p \in Leaf :
        history[p].exists =>
            /\ shown[p] >= history[p].value - first[p]
            /\ ~fell[p] => shown[p] = history[p].value - first[p]

-----------------------------------------------------------------------------
(* What a comment of the repository says, and the code does not do.        *)

\* The exporter is for "OpenConfig-modeled gNMI data" (README.md:138-139), and Export
\* sets a Gauge to the value it is given (prometheus.go:106-107): a gauge shows the
\* value that was exported last.
GaugeShowsValue ==
    \A p \in Leaf : metrics[p] = "gauge" => shown[p] = history[p].value
=============================================================================
