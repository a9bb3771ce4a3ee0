-------------------------------- MODULE Nothing --------------------------------
(* What JavaScript's null stands for on the pages of the PDF tools.        *)
CONSTANT None
=============================================================================
