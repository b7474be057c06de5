------------------------------- MODULE CpuMap -------------------------------
(***************************************************************************)
(* Which cores CPUMapManager (src/src/agentvm/host/cpu_map.py) picks.  It  *)
(* keeps nothing: every answer is a function of what sysfs shows, of the   *)
(* reserve and of the cores its caller says are taken.  A list of CPUs, as *)
(* sysfs writes it and as a cpuset is returned, is a set of ranges         *)
(* <<first, last>>; the manager reads one as the set of the CPUs in it.    *)
(***************************************************************************)
EXTENDS Naturals, FiniteSets, FiniteSetsExt

Ranges == SUBSET (Nat \X Nat)

(* _parse_cpu_list.                                                        *)
ParseCpuList(ranges) == UNION {r[1]..r[2] : r \in ranges}

(* What sysfs shows: the CPUs with a directory, offline ones included; the *)
(* thread_siblings_list of each, {} when it cannot be read; the cpulist of *)
(* each NUMA node whose list can be read, under the node's id.  No list    *)
(* names a CPU that has no directory.                                      *)
IsHost(h) ==
  /\ h.cpus \subseteq Nat /\ IsFiniteSet(h.cpus) /\ h.online \subseteq h.cpus
  /\ h.siblings \in [h.cpus -> Ranges]
  /\ \A c \in h.cpus : ParseCpuList(h.siblings[c]) \subseteq h.cpus
  /\ DOMAIN h.nodes \subseteq Nat /\ \A id \in DOMAIN h.nodes : h.nodes[id] \in Ranges
  /\ \A id \in DOMAIN h.nodes : ParseCpuList(h.nodes[id]) \subseteq h.cpus

-----------------------------------------------------------------------------

(* Mutant of FormatCpuset: a range goes on over a gap of one.              *)
FormatCpuset_OverGaps(cores) ==
  {r \in cores \X cores :
     /\ r[1] <= r[2]
     /\ \A c \in r[1]..r[2] : c \in cores \/ c + 1 \in cores
     /\ \A c \in cores : c + 1 # r[1] /\ c # r[2] + 1}

(* _format_cpuset: the ranges that cannot be extended.                     *)
FormatCpuset(cores) ==
  {r \in cores \X cores :
     /\ r[1] <= r[2] /\ r[1]..r[2] \subseteq cores
     /\ \A c \in cores : c + 1 # r[1] /\ c # r[2] + 1}

(* _discover_cpu_ids, and the fallback of get_topology.                    *)
CpuIds(h) == IF h.cpus = {} THEN {0} ELSE h.cpus
TotalCores(h) == Cardinality(CpuIds(h))

(* _collect_hyperthread_pairs: only lists of exactly two make a pair.      *)
HyperthreadPairs(h) ==
  {pair \in {ParseCpuList(h.siblings[c]) : c \in h.cpus} : Cardinality(pair) = 2}

(* _discover_numa_cores, with the fallback of allocate_cores.              *)
NumaCores(h) ==
  IF DOMAIN h.nodes = {} THEN [id \in {0} |-> 0..(TotalCores(h) - 1)]
                         ELSE [id \in DOMAIN h.nodes |-> ParseCpuList(h.nodes[id])]

-----------------------------------------------------------------------------
Refused == [cpuset |-> {}, node |-> 0]     \* ValueError

(* Mutant of Blocked: a sibling of a reserved core is free.                *)
Blocked_CoresOnly(h, reserved, taken) == reserved \cup taken

(* Mutant of Blocked: the siblings of what is taken are kept free as well. *)
Blocked_SiblingsOfAll(h, reserved, taken) ==
  reserved \cup taken \cup
    UNION {pair \in HyperthreadPairs(h) : pair \cap (reserved \cup taken) # {}}

(* The reserve, what is taken, and the siblings of the reserve.            *)
Blocked(h, reserved, taken) ==
  reserved \cup taken \cup
    UNION {pair \in HyperthreadPairs(h) : pair \cap reserved # {}}

(* The n least of a set: available[:count] of a list in order.             *)
Least(n, cores) ==
  {c \in cores : Cardinality({d \in cores : d < c}) < n}

(* Mutant of NodesWithRoom: a node filled to the last core is passed over. *)
NodesWithRoom_Strict(h, n, blocked) ==
  {id \in DOMAIN NumaCores(h) : Cardinality(NumaCores(h)[id] \ blocked) > n}

NodesWithRoom(h, n, blocked) ==
  {id \in DOMAIN NumaCores(h) : Cardinality(NumaCores(h)[id] \ blocked) >= n}

(* allocate_cores: from the first node with room; else from all the cores, *)
(* with 0 for the node.  The fallback counts from 0 to the number of CPUs, *)
(* whatever their ids are.                                                 *)
AllocateCores(h, n, reserved, taken) ==
  LET blocked == Blocked(h, reserved, taken)
      roomy == NodesWithRoom(h, n, blocked)
      fallback == (0..(TotalCores(h) - 1)) \ blocked
  IN  CASE n = 0 -> Refused
        [] n > 0 /\ roomy # {} ->
             [cpuset |-> FormatCpuset(Least(n, NumaCores(h)[Min(roomy)] \ blocked)),
              node |-> Min(roomy)]
        [] n > 0 /\ roomy = {} /\ Cardinality(fallback) >= n ->
             [cpuset |-> FormatCpuset(Least(n, fallback)), node |-> 0]
        [] OTHER -> Refused
=============================================================================
