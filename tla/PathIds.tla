------------------------------ MODULE PathIds ------------------------------
(* Identifiers of paths: en_path_t.path_id and the empty string.            *)
CONSTANTS Paths, NoPath
=============================================================================
