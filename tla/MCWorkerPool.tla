---------------------------- MODULE MCWorkerPool ----------------------------
(* w1 has a CUDA card and a token, w2 a Metal one and one that is refused. *)
EXTENDS WorkerPool

CONSTANTS w1, w2

MCGpusOf == [w \in Worker |-> {[backend |-> IF w = w1 THEN "Cuda" ELSE "Metal", vram_mb |-> 8]}]
MCRequest == {[required_backend |-> b, memory_limit_mb |-> m] : b \in {"Cuda", "Metal", "CpuOnly"}, m \in {6, 9}}
=============================================================================
