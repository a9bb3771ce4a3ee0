---------------------------- MODULE MCPdfObjects -----------------------------
(* Small PDFs. To compress: two pages with a picture each, which may be     *)
(* alike, and have a soft mask, a mask and a colour profile, shared or      *)
(* alike in every way. To split: two pages with an annotation each, which   *)
(* may link to either page, to the tree, and to a form field of both, which *)
(* may link back to them; the second page is a node deeper in the tree.     *)
EXTENDS PdfObjects, Sequences, Functions

O(kind, data, refs) == [kind |-> kind, data |-> data, redrawn |-> FALSE, refs |-> refs]

(* Keys that may lead nowhere: 0 is left out. *)
To(refs) == [k \in {j \in DOMAIN refs : refs[j] # 0} |-> refs[k]]

Picture(data, smask, mask, profile) ==
    O("picture", data, To([SMask |-> smask, Mask |-> mask, ColorSpace |-> profile]))

SmallToCompress ==
    { << O("page", 0, [First |-> 2, Second |-> 3, PieceInfo |-> 10]),
         O("page", 0, [Image |-> 4, Thumb |-> 11]),
         O("page", 0, [Image |-> 5]),
         Picture(1, f.s1, f.m1, f.c1), Picture(f.d, f.s2, 0, f.c2),
         Picture(1, 0, 0, f.p1), Picture(f.e, 0, 0, f.p2),
         O("stream", 3, <<>>), O("stream", f.g, <<>>),
         O("stream", 5, <<>>), O("stream", 6, <<>>), O("info", 0, To([Metadata |-> f.i])) >> :
      f \in [s1 : {0, 6, 7}, s2 : {0, 6, 7}, m1 : {0, 7}, c1 : {8}, c2 : {8, 9},
             d : {1, 2}, e : {1, 2}, p1 : {0, 8}, p2 : {0, 8, 9}, g : {3, 4},
             i : {0, 11}] }

Annotation(a) == O("dict", 0, To([P |-> a.p, Dest |-> a.dest, Field |-> a.field]))

SmallToSplit ==
    { [pages |-> <<2, 3>>,
       objects |-> << O("node", 0, [First |-> 2, Second |-> 9, Resources |-> 7]),
                      O("page", 0, [Parent |-> 1, Annots |-> 4, Resources |-> 8]),
                      O("page", 0, [Parent |-> 9, Annots |-> 5]),
                      Annotation(f[1]), Annotation(f[2]),
                      O("dict", 0, To([Kid |-> 4, Other |-> f[3], Page |-> f[4]])),
                      O("dict", 0, [Font |-> 8]), O("stream", 0, <<>>),
                      O("node", 0, To([Parent |-> 1, First |-> 3, Resources |-> f[5]])) >>] :
      f \in [p : {0, 2}, dest : {0, 1, 3}, field : {0, 6}] \X [p : {0, 3}, dest : {0, 2, 9}, field : {0, 6}]
            \X {0, 5} \X {0, 3} \X {0, 8} }
=============================================================================
