------------------------------- MODULE MCSigner -------------------------------
(* A PDF of two pages and one of a single page.                             *)
EXTENDS Signer

SmallPdfs == <<2, 1>>
=============================================================================
