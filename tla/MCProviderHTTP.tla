--------------------------- MODULE MCProviderHTTP ---------------------------
(* A limit of two bytes and bodies of up to four: shorter than the limit, as *)
(* long, one byte and two bytes longer, read in pieces of one byte or more.  *)
EXTENDS ProviderHTTP
=============================================================================
