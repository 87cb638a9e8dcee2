----------------------------- MODULE MCWaterfall -----------------------------
EXTENDS Grid, Waterfall

(* The values of the constants.  TLC evaluates these once because it       *)
(* substitutes these names, and not the ones they stand for.               *)
Pixels == Domain
Four == C4
FourBefore == C4Before
Scan == RasterScan
Less(a, b) == a < b

(* Every other pixel is a minimum, or part of one where the pixels around  *)
(* are as low, which all but one of them may be.                           *)
White == {x \in Domain : (x[1] + x[2]) % 2 = 0}

On(whites, blacks) == [x \in Domain |-> IF x \in White THEN whites[x] ELSE blacks[x]]

Whites == {[x \in White |-> 0],
           [x \in White |-> IF x \in {<<0, 0>>, <<3, 1>>} THEN 1 ELSE 0]}

Blacks == {b \in [Domain \ White -> 0 .. MaxLevel] : b[<<1, 0>>] = MaxLevel}

(* A flat zone whose first pixel shows no lower neighbour, but whose next   *)
(* one does, alone or where two zones join.                                 *)
Ledges == {[x \in Domain |-> IF x[2] = 0 THEN IF x[1] \in low THEN 0 ELSE MaxLevel
                             ELSE IF x[2] = 1 THEN 1 ELSE MaxLevel] :
              low \in {1 .. 4, {1, 4}, {}}}

Boards == {On(w, b) : w \in Whites, b \in Blacks} \cup Ledges

(* No marker; markers on every other pixel, on all of these but the first *)
(* (there are as many labels), on those of two rows, or side by side, on   *)
(* slopes that are flooded through their passes.                           *)
Marked(S) == [x \in Domain |-> x \in S]

Markers == {Marked({}), Marked(White), Marked(White \ {<<0, 0>>}), Marked({<<0, 0>>, <<1, 0>>, <<4, 2>>, <<2, 1>>}),
            Marked({x \in White : x[2] # 0}), Marked({x \in Domain : x[1] # 2})}

Slopes == {[x \in Domain |-> (a * x[1] + b * x[2]) % (MaxLevel + 1)] : a \in 0 .. MaxLevel, b \in 0 .. MaxLevel}

SlopesAndMarkers == {<<slope, m>> : slope \in Slopes, m \in Markers}
=============================================================================
