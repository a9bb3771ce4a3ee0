----------------------------- MODULE MCCompressor -----------------------------
(* The compressor on a small PDF; pictures of every kind; and the filters   *)
(* of pictures' rows on pictures of two rows of two samples.                *)
EXTENDS Compressor

SmallSamplings ==
    [rows : [1..2 -> [1..2 -> 0..(Levels - 1)]], types : [1..2 -> 0..4], channels : 1..2]

SmallParams ==
    {NoParams} \cup [form : {"dict", "array", "ref"}, predictor : {1, 2, 10, 15}, colors : {0, 1, 3}, columns : {0, 2, 3}]
SmallFilters ==
    {<<>>} \cup [1..1 -> {"FlateDecode", "DCTDecode", "LZWDecode", "CCITTFaxDecode"}]
    \cup [1..2 -> {"FlateDecode", "DCTDecode", "ASCII85Decode"}]

SmallImages ==
    {image \in [small : {FALSE}, cut : BOOLEAN, filters : SmallFilters, params : SmallParams, bits : {1, 8, 16},
                channels : {0, 1, 3}, decode : BOOLEAN, width : {0, 2}] :
        image.filters = <<>> => image.params = NoParams}
=============================================================================
