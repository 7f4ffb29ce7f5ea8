---------------------------- MODULE DataGenerator ----------------------------
(***************************************************************************)
(* The data generator (data_gen/data_gen.c): it draws count points, spread *)
(* over the sphere or in clusters around drawn origins, writes each to a   *)
(* JSON file and, with its haversine distance, to a binary file, and keeps *)
(* statistics of the draws.  A coordinate is a whole number of             *)
(* 1/RAND_MAX degrees.  Nothing checks that a write succeeded.             *)
(***************************************************************************)
EXTENDS JsonText

CONSTANTS Counts,               \* the values of option -n
          Seeds,                \* what rand() returns call by call, for each seed: as many
                                \* values as the most that count points take
          RAND_MAX,
          Haversine(_, _, _, _),
          Losses                \* what the files may lack at their end: <<tokens, doubles>>

NUM_CLUSTERS == 4
X_RADIUS == 180
Y_RADIUS == 90

ASSUME GeneratorAssumption ==
    /\ Counts \subseteq Nat /\ RAND_MAX \in Nat \ {0}
    /\ \A s \in Seeds : s \in Seq(0..RAND_MAX) /\ \A n \in Counts : 6 * n <= Len(s)
    /\ Losses \subseteq Nat \X Nat /\ <<0, 0>> \in Losses

VARIABLES
    count, seed, is_clustered,
    draws,              \* the values get_random_data has returned
    stats,              \* pos_min, pos_max, neg_min and neg_max
    cluster,            \* cluster_x, cluster_y
    cluster_threshold,
    num_clusters,
    points,             \* history: the points written so far
    cluster_of,         \* history: num_clusters when each of them was written
    sum,                \* of their distances
    lost,               \* what the files lack at their end
    gen_status          \* "start", "rows", or how the process ended

gen_options == <<count, seed, is_clustered>>
gen_data == <<draws, stats, cluster, cluster_threshold, num_clusters, points, cluster_of, sum>>
gen_vars == <<gen_options, gen_data, lost, gen_status>>

-----------------------------------------------------------------------------
(* get_random_data.                                                        *)

fnum(rnum, radius) == (rnum - RAND_MAX \div 2) * 2 * radius

\* Mutants: the first value is not stored as the smallest; values below 0 take the
\* branch of those above.
PosMin_NoFirst(s, f) == IF f < s.pos_min THEN f ELSE s.pos_min
PosMin(s, f) == IF s.pos_min = 0 \/ f < s.pos_min THEN f ELSE s.pos_min
IsPositive_NotZero(f) == f # 0
IsPositive(f) == f > 0

\* 0 is no value yet, and also what a draw of 0 stores in neg_min.
Tracked(s, f) ==
    IF IsPositive(f)
    THEN [pos_max |-> IF f > s.pos_max THEN f ELSE s.pos_max, pos_min |-> PosMin(s, f),
          neg_max |-> s.neg_max, neg_min |-> s.neg_min]
    ELSE [pos_max |-> s.pos_max, pos_min |-> s.pos_min,
          neg_max |-> IF f < s.neg_max THEN f ELSE s.neg_max,
          neg_min |-> IF (s.neg_min = 0 /\ f # 0) \/ f > s.neg_min THEN f ELSE s.neg_min]

\* After all of fs.
TrackedAll(s, fs) ==
    LET after[k \in 0..Len(fs)] == IF k = 0 THEN s ELSE Tracked(after[k - 1], fs[k])
    IN  after[Len(fs)]

-----------------------------------------------------------------------------
(* The output of a point.                                                  *)

Coordinates == <<"x0", "y0", "x1", "y1">>

\* %3.16f: a sign, the digits before the point, the point and 16 more.
Digits(v) == CASE v < 10 -> 1 [] v \in 10..99 -> 2 [] OTHER -> 3
Abs(v) == IF v < 0 THEN -v ELSE v
Printed(v) == Number(v, (IF v < 0 THEN 1 ELSE 0) + Digits(Abs(v) \div RAND_MAX) + 17)

JsonRow(p) == Row([k \in 1..4 |-> Item(Coordinates[k], Printed(p[Coordinates[k]]))], Comma)
Distance(p) == Haversine(p.x0, p.y0, p.x1, p.y1)
BinaryRow(p) == <<p.x0, p.y0, p.x1, p.y1, Distance(p)>>

\* What has been printed and written, and what of it is found in the files.
AllPrinted ==
    Opening \o Rows([k \in DOMAIN points |-> JsonRow(points[k])])
    \o (IF gen_status = "done" THEN Closing ELSE <<>>)
AllWritten ==
    [k \in 1..5 * Len(points) |-> BinaryRow(points[1 + (k - 1) \div 5])[1 + ((k - 1) % 5)]]
WithoutLast(s, n) == SubSeq(s, 1, IF n < Len(s) THEN Len(s) - n ELSE 0)
JsonFile == WithoutLast(AllPrinted, lost[1])
BinaryFile == WithoutLast(AllWritten, lost[2])

-----------------------------------------------------------------------------
(* main.                                                                   *)

GenInit ==
    /\ count \in Counts /\ seed \in Seeds /\ is_clustered \in BOOLEAN
    /\ draws = <<>>
    /\ stats = [pos_min |-> 0, pos_max |-> 0, neg_min |-> 0, neg_max |-> 0]
    /\ cluster = <<0, 0>> /\ cluster_threshold = count \div NUM_CLUSTERS
    /\ num_clusters = 1
    /\ points = <<>> /\ cluster_of = <<>> /\ sum = 0
    /\ lost = <<0, 0>> /\ gen_status = "start"

\* No points to generate, or a file that does not open, is an error.
OpenOutput ==
    /\ gen_status = "start"
    /\ gen_status' \in (IF count = 0 THEN {"error"} ELSE {"rows", "error"})
    /\ UNCHANGED <<gen_options, gen_data, lost>>

\* Mutant: the next cluster starts after twice as many points.
NextThreshold_Twice == 2 * cluster_threshold
NextThreshold == cluster_threshold + count \div NUM_CLUSTERS

\* i, the index of the row, is the number of points written.
IsNewCluster == is_clustered /\ Len(points) = cluster_threshold
Radii ==
    (IF IsNewCluster THEN <<X_RADIUS, Y_RADIUS>> ELSE <<>>) \o
    (IF is_clustered THEN <<X_RADIUS \div 4, Y_RADIUS \div 4, X_RADIUS \div 4, Y_RADIUS \div 4>>
     ELSE <<X_RADIUS, Y_RADIUS, X_RADIUS, Y_RADIUS>>)

WriteRow ==
    /\ gen_status = "rows" /\ Len(points) < count
    /\ LET fs == [k \in DOMAIN Radii |-> fnum(seed[Len(draws) + k], Radii[k])]
           at == Len(fs) - 4
           origin == IF IsNewCluster THEN <<fs[1], fs[2]>> ELSE cluster
           point == [x0 |-> origin[1] + fs[at + 1], y0 |-> origin[2] + fs[at + 2],
                     x1 |-> origin[1] + fs[at + 3], y1 |-> origin[2] + fs[at + 4]]
       IN  /\ draws' = draws \o fs
           /\ stats' = TrackedAll(stats, fs)
           /\ cluster' = origin
           /\ points' = Append(points, point)
           /\ sum' = sum + Distance(point)
    /\ num_clusters' = num_clusters + (IF IsNewCluster THEN 1 ELSE 0)
    /\ cluster_threshold' = IF IsNewCluster THEN NextThreshold ELSE cluster_threshold
    /\ cluster_of' = Append(cluster_of, num_clusters')
    /\ UNCHANGED <<gen_options, lost, gen_status>>

\* The files are closed, whether or not all of the output reached them.
CloseOutput ==
    /\ gen_status = "rows" /\ Len(points) = count
    /\ lost' \in Losses
    /\ gen_status' = "done"
    /\ UNCHANGED <<gen_options, gen_data>>

\* The process is stopped: output that is still buffered is missing from the files.
Stop ==
    /\ gen_status = "rows"
    /\ lost' \in Losses
    /\ gen_status' = "stopped"
    /\ UNCHANGED <<gen_options, gen_data>>

Generate == OpenOutput \/ WriteRow \/ CloseOutput \/ Stop

-----------------------------------------------------------------------------
GenTypeOK ==
    /\ count \in Counts /\ is_clustered \in BOOLEAN
    /\ draws \in Seq(Int)
    /\ {stats.pos_min, stats.pos_max} \subseteq Nat
    /\ {-stats.neg_min, -stats.neg_max} \subseteq Nat
    /\ cluster \in Int \X Int /\ {cluster_threshold, num_clusters} \subseteq Nat
    /\ points \in Seq([{"x0", "y0", "x1", "y1"} -> Int]) /\ cluster_of \in Seq(Nat)
    /\ sum \in Int /\ lost \in Losses
    /\ gen_status \in {"start", "rows", "done", "stopped", "error"}

\* The statistics are those of all the draws: the smallest and the largest above 0, the
\* largest and, unless a draw of exactly 0 took its place, the smallest below 0.  After
\* such a draw neg_min is of the later ones only (get_random_data).
StatsAreOfTheDraws ==
    LET Where(S(_)) == {k \in DOMAIN draws : S(draws[k])}
        DrawsAt(ks) == {draws[k] : k \in ks}
        Above == DrawsAt(Where(LAMBDA f : f > 0))
        Below == DrawsAt(Where(LAMBDA f : f < 0))
        last_zero == Max({0} \cup Where(LAMBDA f : f = 0))
        Later == DrawsAt({k \in Where(LAMBDA f : f < 0) : k > last_zero})
    IN  /\ stats.pos_min = Min(IF Above = {} THEN {0} ELSE Above)
        /\ stats.pos_max = Max({0} \cup Above)
        /\ stats.neg_max = Min({0} \cup Below)
        /\ stats.neg_min = Max(IF Later = {} THEN {0} ELSE Later)

\* The points of a cluster are count / NUM_CLUSTERS in a row, the last cluster has the
\* rest.  It is one of NUM_CLUSTERS clusters when that divides count, and may be one more
\* otherwise; below NUM_CLUSTERS points all are in the second cluster.
ClustersAreOfEqualSize ==
    is_clustered =>
        LET size == count \div NUM_CLUSTERS
        IN  \A k \in DOMAIN points :
                cluster_of[k] = IF size = 0 THEN 2 ELSE 1 + (k - 1) \div size
=============================================================================
