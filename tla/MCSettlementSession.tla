------------------------- MODULE MCSettlementSession -------------------------
(* Interchangeable sessions and nonces, for the runs without liveness, and *)
(* a bound for the run that has two of each: two servers run with one      *)
(* payment and one server with two, in any succession.                     *)
EXTENDS SettlementSession, TLC

Interchangeable == Permutations(Sessions) \cup Permutations(Nonces)

Up == {s \in Sessions : pc[s] # "down"}

Begun == {n \in Nonces :
            \E view \in {disk} \cup {mem[s] : s \in Sessions} :
              n \in view.used \/ Phase(view, n) # "none"}

FewAtOnce == Cardinality(Up) > 1 => Cardinality(Begun) < 2
=============================================================================
