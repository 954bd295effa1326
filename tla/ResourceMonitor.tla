--------------------------- MODULE ResourceMonitor ---------------------------
(***************************************************************************)
(* What PosixResourceMonitor of src/safety/posix_resource_monitor.cpp says *)
(* of a look at /proc when it is asked whether a process can be started.   *)
(* Memory is in units, the load in tenths.                                 *)
(***************************************************************************)
EXTENDS Naturals

CONSTANTS
  MemoryLevels,   \* the amounts of memory that are considered
  LoadLevels      \* and the loads

ASSUME ResourceMonitorAssumption == MemoryLevels \subseteq Nat /\ LoadLevels \subseteq Nat

\* What a look at /proc finds: whether meminfo can be opened, the two amounts it
\* gives, 0 where a line is missing, and the load, if loadavg can be read.
Readings == [meminfo : BOOLEAN, total : MemoryLevels \union {0},
             available : MemoryLevels \union {0}, loadavg : BOOLEAN, load : LoadLevels]

parse_mem_info(r) == r.meminfo /\ r.total > 0

\* A load that cannot be read counts as none.
cpu_load_1min(r) == IF r.loadavg THEN r.load ELSE 0

\* are_resources_available(), FALSE where it returns an error.
Available(r, estimated_memory) ==
  /\ parse_mem_info(r)
  /\ r.available >= estimated_memory
  /\ cpu_load_1min(r) <= 8

=============================================================================
