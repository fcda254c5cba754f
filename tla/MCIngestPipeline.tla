--------------------------- MODULE MCIngestPipeline ---------------------------
(* Two messages that share a line, as overlapping journal windows do. *)
EXTENDS IngestPipeline, TLC

CONSTANTS w1, w2, m1, m2, m3, a, b, up, down

TheContent == (m1 :> <<a, up>>) @@ (m2 :> <<b, a>>) @@ (m3 :> <<a>>)
Heartbeats == (m1 :> <<up>>) @@ (m2 :> <<down>>)
TheReading == (up :> "up") @@ (down :> "down")
TheTimes   == (a :> 3) @@ (b :> 4)
Workers    == Permutations(Worker)
=============================================================================
