----------------------------- MODULE MCHistogram -----------------------------
(* Instances of Histogram: every small shape, and values on, below and      *)
(* above each bound and the largest double.                                 *)
EXTENDS Histogram

Shape(kinds, growths, starts, updates) ==
  [kind : kinds, growth : growths, start : starts, update : updates, num : 0 .. 3]

MCOne == 2
\* Linear and exponential sequences from anywhere; exponential ones from below
\* zero descend.
MCShapes == Shape(Kinds, {"linear"}, {-6, 0, 4}, {0, 2, 4})
              \cup Shape(Kinds, {"exponential"}, {-2, 0, 2}, {1, 2, 3})
MCDblMax == 1000
\* Around the bounds, and from DBL_MAX on, as infinity.
MCValues == -19 .. -17 \cup -8 .. 20 \cup {MCDblMax, MCDblMax + 1}

MCInt64Min == -100

\* The properties need such shapes.
ASSUME MCShapesAssumption ==
  \A s \in Shapes : Valid(s) => Bounded(s) /\ WholeNanoseconds(s)
=============================================================================
