--------------------------- MODULE MCOutboxArchive ---------------------------
(* OutboxArchive on small instances.                                        *)
EXTENDS OutboxArchive
=============================================================================
