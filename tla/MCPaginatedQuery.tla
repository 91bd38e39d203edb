-------------------------- MODULE MCPaginatedQuery --------------------------
(* Small instances of PaginatedQuery. *)
EXTENDS PaginatedQuery
=============================================================================
