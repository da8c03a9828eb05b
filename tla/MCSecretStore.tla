--------------------------- MODULE MCSecretStore ---------------------------
(***************************************************************************)
(* An instance of SecretStore for TLC: one pipeline, one saved destination *)
(* and every kind of request.                                              *)
(***************************************************************************)
EXTENDS SecretStore, TLC

CONSTANTS a, d, v, p1, p2

MCProcs == {p1, p2}
Symmetry == Permutations(MCProcs)

MCField == ("rest_api" :> "secret_value" @@ "payme_uz" :> "api_key")

Plain == [kind |-> "edit", name |-> a, padded |-> FALSE, connector |-> "rest_api",
          secret |-> Blank, connection |-> Blank, needs |-> FALSE, dest |-> None]

Edits == {Plain,
          [Plain EXCEPT !.secret = v],
          [Plain EXCEPT !.padded = TRUE],
          [Plain EXCEPT !.dest = d],
          [Plain EXCEPT !.needs = TRUE, !.connection = v, !.connector = "payme_uz"]}
Others == {[Plain EXCEPT !.kind = "use"],
           [Plain EXCEPT !.kind = "delete"],
           [Plain EXCEPT !.kind = "keep", !.connection = v],
           [Plain EXCEPT !.kind = "forget", !.name = d],
           [Plain EXCEPT !.kind = "set", !.connection = v],
           [Plain EXCEPT !.kind = "serve"]}
MCRequests == Edits \cup Others
=============================================================================
