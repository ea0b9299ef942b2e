---------------------------- MODULE MCOpenAPIClient ----------------------------
(* Two goroutines with two calls each, with and without a storager.       *)
EXTENDS OpenAPIClient

MCCallers == {"c1", "c2"}

=============================================================================
