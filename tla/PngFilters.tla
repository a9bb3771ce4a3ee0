------------------------------ MODULE PngFilters ------------------------------
(***************************************************************************)
(* The rows of a picture's samples, filtered as PNG filters them: undone   *)
(* when a picture is read, done when one is saved without loss             *)
(* (pdf-compressor/encode-image.js). A row is a sequence of samples, each  *)
(* in 0..(Levels - 1); the code's are bytes.                               *)
(***************************************************************************)
EXTENDS Integers, Sequences

CONSTANTS
    Levels,    \* the values a sample can have: 256 in the code
    Samplings  \* what may be filtered: [rows, types, channels], rows of the same length,
               \* the filter of each, and how many samples a pixel has

ASSUME SamplingsAssumption ==
    /\ Levels \in Nat \ {0}
    /\ \A s \in Samplings :
           /\ s.rows \in Seq(Seq(0..(Levels - 1))) /\ s.channels \in Nat \ {0}
           /\ \A m, n \in 1..Len(s.rows) : Len(s.rows[m]) = Len(s.rows[n])
           /\ s.types \in [1..Len(s.rows) -> 0..4]

Abs(x) == IF x < 0 THEN -x ELSE x

(* Mutant: the average is taken of a sum kept to one sample's width. *)
PredictionWrapped(type, left, up, upLeft) ==
    LET p  == left + up - upLeft
        pa == Abs(p - left)
        pb == Abs(p - up)
        pc == Abs(p - upLeft)
    IN  CASE type = 0 -> 0
          [] type = 1 -> left
          [] type = 2 -> up
          [] type = 3 -> ((left + up) % Levels) \div 2
          [] type = 4 -> IF pa <= pb /\ pa <= pc THEN left ELSE IF pb <= pc THEN up ELSE upLeft

(* What a row's filter (0 None, 1 Sub, 2 Up, 3 Average, 4 Paeth) adds to a  *)
(* sample, from the samples to its left, above, and above to the left.      *)
Prediction(type, left, up, upLeft) ==
    LET p  == left + up - upLeft
        pa == Abs(p - left)
        pb == Abs(p - up)
        pc == Abs(p - upLeft)
    IN  CASE type = 0 -> 0
          [] type = 1 -> left
          [] type = 2 -> up
          [] type = 3 -> (left + up) \div 2
          [] type = 4 -> IF pa <= pb /\ pa <= pc THEN left ELSE IF pb <= pc THEN up ELSE upLeft

Sample(row, i) == IF i < 1 THEN 0 ELSE row[i]

(* One row with its filter undone: line with the samples already undone to  *)
(* its left, and the row before.                                            *)
UnfilteredRow(type, line, previous, channels) ==
    LET current[i \in 1..Len(line)] ==
            (line[i] + Prediction(type, IF i > channels THEN current[i - channels] ELSE 0,
                                  previous[i], Sample(previous, i - channels))) % Levels
    IN  [i \in 1..Len(line) |-> current[i]]

(* All rows: `data` pairs each row's filter with its line.                  *)
Unpredict(data, channels) ==
    LET rows[n \in 0..Len(data)] ==
            IF n = 0 THEN [i \in 1..Len(data[1][2]) |-> 0]
            ELSE UnfilteredRow(data[n][1], data[n][2], rows[n - 1], channels)
    IN  [n \in 1..Len(data) |-> rows[n]]

(* Saved without loss: each row after the Up filter. *)
LosslessOf(rows) ==
    [n \in 1..Len(rows) |->
        <<2, [i \in 1..Len(rows[n]) |-> (rows[n][i] - (IF n = 1 THEN 0 ELSE rows[n - 1][i])) % Levels]>>]
-----------------------------------------------------------------------------
(* The filters as PNG defines them: Paeth takes, of the three neighbours,   *)
(* the one nearest to left + up - upLeft, the first of them in that order.  *)
PngPrediction(type, left, up, upLeft) ==
    LET near == <<left, up, upLeft>>
        off(k) == Abs(left + up - upLeft - near[k])
    IN  <<0, left, up, (left + up) \div 2,
          near[CHOOSE k \in 1..3 : /\ \A j \in 1..3 : off(k) <= off(j)
                                   /\ \A j \in 1..(k - 1) : off(j) > off(k)]>>[type + 1]

Filtered(rows, types, channels) ==
    [n \in 1..Len(rows) |->
        <<types[n],
          [i \in 1..Len(rows[n]) |->
              LET above == IF n = 1 THEN [j \in 1..Len(rows[n]) |-> 0] ELSE rows[n - 1]
              IN  (rows[n][i] - PngPrediction(types[n], Sample(rows[n], i - channels), above[i],
                                              Sample(above, i - channels))) % Levels]>>]

(* Samples filtered row by row with any filters are read back as they were, *)
(* and so is what the compressor itself saved without loss.                 *)
SamplesComeBack(rows, types, channels) ==
    /\ Unpredict(Filtered(rows, types, channels), channels) = rows
    /\ Unpredict(LosslessOf(rows), channels) = rows
=============================================================================
