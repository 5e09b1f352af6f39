----------------------------- MODULE Thumbnail -----------------------------
(* The thumbnail of a picture (internal/images/thumbnail.go): which         *)
(* pictures are taken, and the sides their thumbnails get.                  *)
(*                                                                          *)
(* The code scales in float64 and rounds.  The error of its two operations  *)
(* is, for every picture that Make takes, far smaller than the distance of  *)
(* a quotient from a half that it does not hit, so only an exact half may   *)
(* be rounded either way: an operator here is the set of the results that   *)
(* a build can have.                                                        *)
EXTENDS Integers

ThumbMaxEdge == 400
MaxPixels == 50000000

Longer(width, height) == IF height > width THEN height ELSE width

(* math.Round(float64(v) * (maxEdge / longEdge)) *)
Rounded(v, longEdge, maxEdge) ==
    {n \in 0..maxEdge :
        /\ 2 * longEdge * n <= 2 * v * maxEdge + longEdge
        /\ 2 * v * maxEdge - longEdge <= 2 * longEdge * n}

(* Never round a thin edge away to nothing. *)
Scaled(v, longEdge, maxEdge) ==
    {Longer(n, 1) : n \in Rounded(v, longEdge, maxEdge)}

FitWithin(width, height, maxEdge) ==
    LET longEdge == Longer(width, height) IN
    IF longEdge <= maxEdge
        THEN {<<width, height>>}
        ELSE Scaled(width, longEdge, maxEdge) \X Scaled(height, longEdge, maxEdge)

(* A picture with dimensions, and not too many pixels to decode. *)
Taken(width, height) ==
    width > 0 /\ height > 0 /\ width * height <= MaxPixels

(* Make, for a JPEG of these dimensions: no result is an error. *)
Make(width, height) ==
    {sides \in FitWithin(width, height, ThumbMaxEdge) : Taken(width, height)}
=============================================================================
