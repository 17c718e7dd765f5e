------------------------------- MODULE MCWire -------------------------------
(* Bounds of Wire for TLC: a result has many more lists than a request. All *)
(* requests have the same reader, so empty data is tried from Python only.  *)
EXTENDS Wire

MCFormats  == {"python", "node"} \X {"instructions", "accounts", "result"}
MCLengths  == [f \in Formats |-> IF IsRequest(f) /\ f[1] = "python" THEN {0, 1} ELSE {1}]
MCMaxCount == [f \in Formats |-> IF IsRequest(f) THEN 2 ELSE 1]
=============================================================================
