-------------------------- MODULE MCExporterServer --------------------------
(* Instances of ExporterServer for TLC. *)
EXTENDS ExporterServer
=============================================================================
