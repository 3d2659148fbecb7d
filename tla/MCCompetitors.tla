--------------------------- MODULE MCCompetitors ---------------------------
(* Small instances of Competitors for TLC.                                 *)
EXTENDS Competitors, TLC

\* Two, three or four rivals, ties, a seller without an offer, and a scan that
\* met our own, older quote.
SampleListings ==
  {("a" :> 100 @@ "b" :> 120),
   ("a" :> 100 @@ "b" :> 180 @@ "c" :> 300),
   ("a" :> 100 @@ "b" :> 100 @@ "c" :> 105 @@ "d" :> 260),
   ("a" :> 240 @@ "b" :> Disabled @@ "c" :> 300 @@ "d" :> 310),
   ("a" :> 100 @@ "b" :> 200 @@ "us" :> 290 @@ "d" :> 400)}

\* Below, between and above the rivals, and at the edges of the bands.
SampleSpreads == {40, 100, 180, 249, 250, 290, 300, 301, 350, 500}
=============================================================================
