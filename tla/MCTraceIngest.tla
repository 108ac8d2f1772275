--------------------------- MODULE MCTraceIngest ---------------------------
(* A small instance of TraceIngest for TLC. *)
EXTENDS TraceIngest

CONSTANTS c1, p1, t1, t2, s1, s2

OneClient == {c1}
OnePartition == {p1}
TwoTraces == {t1, t2}
TwoSpans == {s1, s2}

\* One trace with two spans, one without any; each is always sent whole.
TwoMessages == {[trace |-> t1, spans |-> {s1, s2}], [trace |-> t2, spans |-> {}]}
=============================================================================
