---------------------------- MODULE MCMetricsPage ----------------------------
(* Small instances of MetricsPage, with the real limits of QueryBrowser.   *)
EXTENDS MetricsPage, SequencesExt

CONSTANTS few, many, lots

SeriesOf(q) == CASE q = few -> 20 [] q = many -> 480 [] q = lots -> 268 [] OTHER -> 0

(* What the queries return adds up.                                        *)
MCSeriesCount ==
  [q \in QueryLists |-> FoldLeft(LAMBDA n, t : n + SeriesOf(t), 0, q)]
MCUrls == {<<>>, <<few, Blank, many>>}
MCSpans == {1800, 604800}

MCLongSpans == {1800, 1209600}
MCOneUrl == {<<lots>>}
=============================================================================
