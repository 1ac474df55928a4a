-------------------------------- MODULE MCApi -------------------------------
EXTENDS Api, TLC

CONSTANTS root, ann, binary, code, v1, v2

MCSize == [v \in Version |-> IF v = v1 THEN 1 ELSE 2]
MCOwnerOf == [f \in JobFile |-> ann]
ClientSymmetry == Permutations(Client)
=============================================================================
