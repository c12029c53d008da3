------------------------ MODULE MCCudaBlockLifetime ------------------------
(* CudaBlockLifetime for TLC: what the code passes over when it fails is     *)
(* bounded, because every such failure doubles what the others can meet.     *)
EXTENDS CudaBlockLifetimeRefinement

CONSTANT MaxFaults   \* bound: how many faults a state has

\* What is missing about block b: its segment, an order of its writes, or the end of
\* a write of an earlier allocation.
BlockFaults(b) ==
  {f \in {"segment", "event", "stray"} : phase[b] # "uncreated" /\
     CASE f = "segment" -> b \notin withMeta
       [] f = "event"   -> event[b] # "interprocess" \/ (write[b] # "none" /\ b \notin recorded)
       [] f = "stray"   -> stray[b] # "none"}

\* What the process of s could not map or open, for this import or an earlier one.
SubFaults(s) ==
  {f \in {"meta", "event"} :
     CASE f = "meta"  -> \/ status[s] # "idle" /\ BlockOf(s) \in withMeta /\ s \notin mapped
                         \/ cachedMeta[s] # cached[s] \cap withMeta
       [] f = "event" -> s \in blind}

FewFaults ==
  Cardinality(UNION {BlockFaults(b) \X {b} : b \in Block}
              \cup UNION {SubFaults(s) \X {s} : s \in Sub}) <= MaxFaults
=============================================================================
