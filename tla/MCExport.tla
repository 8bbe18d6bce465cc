------------------------------- MODULE MCExport -------------------------------
(* Both API clients, and the export on every tree over a few nodes. *)
EXTENDS Export
==============================================================================
