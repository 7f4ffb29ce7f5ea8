---------------------------- MODULE MCDataPipeline ----------------------------
(***************************************************************************)
(* Small files of the data generator: a count below the number of clusters *)
(* and one it does not divide; draws that give the shortest rows, the      *)
(* longest ones, and zeros.                                                *)
(***************************************************************************)
EXTENDS DataPipeline

SomeCounts == {0, 2, 5}
SomeRandMax == 71
Repeated(draw) == [k \in 1..40 |-> draw[1 + ((k - 1) % Len(draw))]]
SomeSeeds == {Repeated(d) : d \in {<<36, 37, 36>>, <<0, 71, 10, 60>>, <<35, 20, 36, 34, 12, 70>>}}

\* A distance that tells the coordinates apart.
SomeHaversine(x0, y0, x1, y1) == x0 - 3 * y0 + 5 * x1 - 7 * y1

\* Nothing, some of the closing lines or of the last item, a row or more.
SomeLosses == {<<0, 0>>, <<3, 1>>, <<31, 7>>}

SomeValues == -40000..40000
UninitializedValue == 50000
=============================================================================
