--------------------------- MODULE MCProvisioning ---------------------------
(* Two API containers that migrate and seed, one that migrates only, which is *)
(* the entrypoint's default, and a worker that does neither; users' edits,    *)
(* crashes, and both ways to a schema.                                        *)
EXTENDS Provisioning
=============================================================================
