------------------------ MODULE MCOkStatusSingleton ------------------------
(* Three threads race for the singleton, two calls each; the import of the *)
(* status module may end in every way.                                     *)
EXTENDS OkStatusSingleton
=============================================================================
