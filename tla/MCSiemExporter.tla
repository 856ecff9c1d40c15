--------------------------- MODULE MCSiemExporter ---------------------------
(* Model-checking instance of SiemExporter. *)
EXTENDS SiemExporter
=============================================================================
