---------------------------- MODULE MCLifecycle ----------------------------
(* Small instances of ManifestLifecycle for TLC. *)
EXTENDS ManifestLifecycle, TLC

(* a1, a2: two different rebuilds of the same index; b: a sibling index of   *)
(* the same table; s: a shrink, which is not an index operation; u: an       *)
(* update of statistics on a table of its own.                               *)
CONSTANTS a1, a2, b, s, u, tA, tB, tS, tU

OneManifest  == {1}
TwoManifests == {1, 2}

AllOps     == {a1, a2, b, s, u}
AllTargets == {tA, tB, tS, tU}
TargetMap  == (a1 :> tA) @@ (a2 :> tA) @@ (b :> tB) @@ (s :> tS) @@ (u :> tU)
TableMap   == (tA :> "T") @@ (tB :> "T") @@ (tS :> "S") @@ (tU :> "U")

LongPlans  == {<<a1, s, b>>, <<s, a2>>}
ShortPlans == {<<a1, u>>, <<b>>}
=============================================================================
