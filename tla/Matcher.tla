------------------------------- MODULE Matcher ------------------------------
(***************************************************************************)
(* scheduler/matcher.rs: which workers may run a job, and in which order   *)
(* they are preferred.  Candidates are a function from peers to records,   *)
(* for the values of a HashMap have no order: a stable sort leaves equal   *)
(* scores in any.  Scores are in thousandths, rounded down.                *)
(***************************************************************************)
EXTENDS Integers, Sequences, FiniteSetsExt, SequencesExt

Backend == {"Cuda", "Metal", "Rocm", "CpuOnly"}
MatchRequest == [required_backend : Backend, memory_limit_mb : Nat]
Gpu == [backend : Backend, vram_mb : Nat]
WorkerCandidate == [gpus : SUBSET Gpu, uptime_score : 0..100, jobs_completed : Nat,
                    is_busy : BOOLEAN]

(* Mutant: any GPU will do. *)
AnyBackend(c, required) == required = "CpuOnly" \/ c.gpus # {}

backend_matches(c, required) ==
  required = "CpuOnly" \/ \E g \in c.gpus : g.backend = required

(* Some GPU has the memory: not always the one with the backend.           *)
has_enough_vram(c, mb) == \E g \in c.gpus : g.vram_mb >= mb

Eligible(c, request) ==
  /\ ~c.is_busy
  /\ backend_matches(c, request.required_backend)
  /\ request.required_backend # "CpuOnly" => has_enough_vram(c, request.memory_limit_mb)

Deviation(used) == IF used > 700 THEN used - 700 ELSE 700 - used
Clamp(n) == IF n < 0 THEN 0 ELSE n

(* Best at 70% of the smallest GPU, of any backend, that is large enough.  *)
resource_match_score(c, request) ==
  LET fitting == {g.vram_mb : g \in {g \in c.gpus : g.vram_mb >= request.memory_limit_mb}} IN
  CASE request.required_backend = "CpuOnly" -> 1000
    [] request.required_backend # "CpuOnly" /\ (fitting = {} \/ 0 \in fitting) -> 0
    [] OTHER -> Clamp(1000 - 2 * Deviation((1000 * request.memory_limit_mb) \div Min(fitting)))

(* The most jobs any candidate has completed, also one that is filtered.   *)
MaxJobs(candidates) == Max({1} \cup {candidates[p].jobs_completed : p \in DOMAIN candidates})

Score(candidates, p, request) ==
  4 * candidates[p].uptime_score
  + (300 * candidates[p].jobs_completed) \div MaxJobs(candidates)
  + (300 * resource_match_score(candidates[p], request)) \div 1000

(* The possible results: the three best, best first.                       *)
select_workers(candidates, request) ==
  LET scored == {p \in DOMAIN candidates : Eligible(candidates[p], request)}
      sorted == {s \in SetToSeqs(scored) : \A i, k \in DOMAIN s : i < k =>
                   Score(candidates, s[i], request) >= Score(candidates, s[k], request)}
  IN {SubSeq(s, 1, IF Len(s) < 3 THEN Len(s) ELSE 3) : s \in sorted}
=============================================================================
