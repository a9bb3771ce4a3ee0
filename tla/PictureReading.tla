---------------------------- MODULE PictureReading ----------------------------
(***************************************************************************)
(* Which pictures of a PDF the compressor leaves, which it reads itself    *)
(* and how, and which pdf.js has to draw.                                  *)
(*                                                                         *)
(*   pdf-compressor/compress.js       plan, directly                       *)
(*   pdf-compressor/encode-image.js   decode: a picture read as planned    *)
(*                                                                         *)
(* A picture's dictionary is                                               *)
(*   [small, cut, filters, params, bits, channels, decode, width]:         *)
(* too small to be worth it; a mask, or cut out by a colour; its filters;  *)
(* its DecodeParms, [form, predictor, colors, columns], in the form of one *)
(* dictionary, of an array, of a reference to either, or "none" (a number  *)
(* left out is 0); and whether a Decode array says what the samples stand  *)
(* for. Reading it is a sequence of steps.                                 *)
(***************************************************************************)
EXTENDS Integers, SequencesExt

CONSTANT Images  \* the dictionaries pictures may have

Params == [form : {"none", "dict", "array", "ref"}, predictor : Nat, colors : Nat, columns : Nat]
NoParams == [form |-> "none", predictor |-> 0, colors |-> 0, columns |-> 0]

(* Parameters are those of a filter. *)
ASSUME ImagesAssumption ==
    /\ Images \subseteq [small : BOOLEAN, cut : BOOLEAN, filters : Seq(STRING), params : Params, bits : Nat,
                        channels : Nat, decode : BOOLEAN, width : Nat]
    /\ \A image \in Images :
           image.params.form = "none" \/ image.filters = <<>> => image.params = NoParams

FaxLike(image) == image.bits = 1 \/ ToSet(image.filters) \cap {"CCITTFaxDecode", "JBIG2Decode"} # {}

(* Mutant: any predictor is taken for one of PNG's. *)
AnyMatches(params, channels) == (IF params.colors = 0 THEN 1 ELSE params.colors) = channels

(* One of PNG's predictors, on samples as the picture has them.             *)
Matches(params, channels) ==
    /\ params.predictor >= 10
    /\ (IF params.colors = 0 THEN 1 ELSE params.colors) = channels

(* What the browser reads itself: an RGB or grey JPEG, also one inflated    *)
(* first, ...                                                               *)
Jpeg(image) ==
    /\ image.filters # <<>> /\ Last(image.filters) = "DCTDecode"
    /\ \/ Len(image.filters) = 1
       \/ image.filters = <<"FlateDecode", "DCTDecode">> /\ image.params.form = "none"

(* ... or bytes that are samples, perhaps inflated first and unpredicted.   *)
Predictor(image) == IF image.params.form = "dict" THEN image.params.predictor ELSE 0

Samples(image) ==
    /\ image.filters \in {<<>>, <<"FlateDecode">>} /\ image.bits = 8
    /\ Predictor(image) > 1 => Matches(image.params, image.channels)

Inflate(image) == image.filters # <<>> /\ image.filters[1] = "FlateDecode"

(* A step of reading a picture.                                             *)
Step(name, channels, n) == [step |-> name, channels |-> channels, n |-> n]

Keep == <<Step("keep", 0, 0)>>
Draw == <<Step("draw", 0, 0)>>

(* Left as it is, drawn by pdf.js, or read in these steps.                  *)
Plan(image) ==
    LET unpredict == Step("unpredict", image.channels,
                          IF image.params.columns = 0 THEN image.width ELSE image.params.columns)
    IN  CASE image.small \/ image.cut \/ FaxLike(image) \/ image.width = 0 -> Keep
          [] OTHER ->
                IF image.channels = 0 \/ image.decode \/ ~(Jpeg(image) \/ Samples(image)) THEN Draw
                ELSE (IF Inflate(image) THEN <<Step("inflate", 0, 0)>> ELSE <<>>)
                     \o (IF Jpeg(image) THEN <<Step("jpeg", 0, 0)>>
                         ELSE (IF Predictor(image) > 1 THEN <<unpredict>> ELSE <<>>)
                              \o <<Step("samples", image.channels, 8)>>)

(* The picture made smaller, saved as JPEG or without loss.                 *)
Redrawn(image, width, kind) ==
    LET grey == image.channels = 1
        params == IF kind = "jpeg" THEN NoParams
                  ELSE [form |-> "dict", predictor |-> 15, colors |-> IF grey THEN 1 ELSE 3, columns |-> width]
    IN  [image EXCEPT !.filters = IF kind = "jpeg" THEN <<"DCTDecode">> ELSE <<"FlateDecode">>,
                      !.params = params, !.bits = 8, !.decode = FALSE, !.width = width,
                      !.channels = IF kind = "flate" /\ grey THEN 1 ELSE 3]
-----------------------------------------------------------------------------
(* What a PDF means by a filter and its parameters, and by the bytes left.  *)
Unpacked(filter, params) ==
    CASE filter = "DCTDecode" -> <<Step("jpeg", 0, 0)>>
      [] filter = "FlateDecode" ->
            <<Step("inflate", 0, 0)>> \o
            (CASE params.predictor <= 1 -> <<>>
               [] params.predictor = 2 -> <<Step("tiff", params.colors, params.columns)>>
               [] OTHER -> <<Step("unpredict", IF params.colors = 0 THEN 1 ELSE params.colors,
                                 IF params.columns = 0 THEN 1 ELSE params.columns)>>)
      [] OTHER -> <<Step(filter, 0, 0)>>

Meant(image) ==
    FlattenSeq([i \in DOMAIN image.filters |->
        Unpacked(image.filters[i], IF i = 1 THEN image.params ELSE [image.params EXCEPT !.predictor = 0])])
    \o (IF "DCTDecode" \in ToSet(image.filters) THEN <<>>
        ELSE <<Step("samples", image.channels, image.bits)>>)

(* A picture the browser reads itself is read as the PDF means it, and so   *)
(* are those the compressor writes ("TIFF's predictor, or one that does not *)
(* match the picture: pdf.js draws it"); but for parameters in an array or  *)
(* behind a reference, taken for none, and for Columns left out, which are  *)
(* the width and not the standard's 1.                                      *)
ReadAsMeant(image) ==
    /\ /\ Plan(image) \notin {Keep, Draw} /\ image.params.form \in {"none", "dict"}
       /\ image.params.columns = 0 => Predictor(image) <= 1
       => Plan(image) = Meant(image)
    /\ Plan(image) # Keep =>
           \A kind \in {"jpeg", "flate"} :
               LET redrawn == Redrawn(image, 1, kind) IN Plan(redrawn) = Meant(redrawn)
=============================================================================
