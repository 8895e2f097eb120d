---------------------- MODULE MCWorkerTransport ----------------------
(* Small instances of WorkerTransport. *)
EXTENDS WorkerTransport, TLC

CONSTANTS c1, c2

\* A call of any kind, with or without a stream, beside a plain one.
StreamAndPlain == (c1 :> {"plain", "upload", "download"}) @@ (c2 :> {"plain"})
======================================================================
