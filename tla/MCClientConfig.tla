-------------------------- MODULE MCClientConfig ---------------------------
(***************************************************************************)
(* Two clients, an export and a request. The default transport is standard *)
(* with its HTTP/2 defaults, and the caller's without HTTP/2, or it is of  *)
(* another type, and the caller's has HTTP/2. The clients are              *)
(* interchangeable.                                                        *)
(***************************************************************************)
EXTENDS ClientConfig, TLC

From(default, tls, http2) == [default |-> default, tls |-> tls, http2 |-> http2]
MCStarts == {From(1, 1, FALSE), From(Custom, Nil, TRUE)}

Interchangeable == Permutations(Clients)
=============================================================================
