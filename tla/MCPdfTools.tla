------------------------------ MODULE MCPdfTools ------------------------------
(* Three PDFs, one of them without pages, OneDrive's top folder and a       *)
(* folder in it, and words that find one of the PDFs.                       *)
EXTENDS PdfTools

SmallPdfs == <<2, 0, 1>>
SmallFolders == [top |-> <<1>>, folder |-> <<1, 3>>, words |-> <<3>>]
=============================================================================
