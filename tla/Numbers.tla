------------------------------- MODULE Numbers --------------------------------
(***************************************************************************)
(* Estimates and Frames walked through their inputs: the host of a worker  *)
(* that is upgraded one part at a time, a request, the delay the master    *)
(* measured, and the lengths of a client's port and address.               *)
(***************************************************************************)
EXTENDS Estimates, Frames

CONSTANTS
  Processors, Cores, Clocks, \* lines of /proc/cpuinfo, cores per line, MHz
  Kilobytes, Gpus,           \* MemTotal, the -g option
  Delays,                    \* network_delay
  Ports, Addresses           \* their lengths in characters

IntMax == 2147483647

\* sscanf stores MemTotal in an int.  The usage text of the worker gives the range of -g,
\* 0 being its default, and the master drops what is above it; ports have 16 bits and
\* addresses are dotted quads.
ASSUME NumbersAssumption ==
  /\ \A S \in {Processors, Cores, Clocks, Kilobytes} : S # {} /\ S \subseteq Nat
  /\ \A k \in Kilobytes : k <= IntMax
  /\ Gpus # {} /\ Gpus \subseteq 0..10
  /\ Delays # {} /\ Delays \subseteq Int
  /\ Ports \subseteq 1..5 /\ Addresses \subseteq 7..15

VARIABLES
  host, worker,    \* a machine, and what create_worker_metadata makes of it
  request, delay,
  address

inputs == <<host, worker, request, delay, address>>

Power(h) == CpuPower(h.processors, h.cores, h.clock)
Resources(h) ==
  [cpu |-> get_cpu_score(Power(h)), ram |-> get_ram_score(h.kilobytes), gpu |-> h.gpu]

Lowest ==
  [processors |-> Min(Processors), cores |-> Min(Cores), clock |-> Min(Clocks),
   kilobytes |-> Min(Kilobytes), gpu |-> Min(Gpus)]

Init ==
  /\ host = Lowest
  /\ worker = Resources(Lowest)
  /\ request \in DOMAIN resources_for_request_type
  /\ delay \in Delays
  /\ address \in [port : Ports, ip : Addresses]

Longest == address = [port |-> Max(Ports), ip |-> Max(Addresses)]

\* One part is replaced by a better one.
Upgrade(part, choices) ==
  /\ Longest
  /\ \E x \in choices :
       /\ x > host[part]
       /\ host' = [host EXCEPT ![part] = x]
       /\ worker' = Resources(host')
  /\ UNCHANGED <<request, delay, address>>

SlowDown ==
  /\ Longest
  /\ \E d \in Delays : d > delay /\ delay' = d
  /\ UNCHANGED <<host, worker, request, address>>

Next ==
  \/ Upgrade("processors", Processors)
  \/ Upgrade("cores", Cores)
  \/ Upgrade("clock", Clocks)
  \/ Upgrade("kilobytes", Kilobytes)
  \/ Upgrade("gpu", Gpus)
  \/ SlowDown

Spec == Init /\ [][Next]_inputs

-------------------------------------------------------------------------------
(* Properties. *)

Estimate == estimate_time_for_request_type(request, worker, delay)

\* The scores for which no product in the tests of the rungs wraps (a board whose
\* /proc/cpuinfo names neither cores nor clock has 0, and gets 10).
OnScale(score) == 1 <= score /\ score <= 46435

\* The product of processors, threads and clock is an int.
Unwrapped(h) ==
  h.clock = 0 \/ h.processors * (h.processors * h.cores) <= IntMax \div h.clock

\* On that scale the tests of a score's rungs, products of ints for most of them and of
\* doubles for the others, rank a machine as plain comparisons would: by the number of
\* limits it is above.  Every size of memory is on its scale.
ScoresRank ==
  /\ OnScale(Power(host)) =>
       worker.cpu = 1 + Cardinality({i \in DOMAIN CpuRungs : Power(host) * 10 > CpuRungs[i][2]})
  /\ worker.ram =
       1 + Cardinality({i \in DOMAIN RamRungs : (host.kilobytes \div 1000000) * 10 > RamRungs[i][2]})

\* An upgraded machine offers at least as many tasks as before, and no request is
\* expected to take longer on it; the estimates grow with the delay only.
UpgradeHelps ==
  [][OnScale(Power(host)) /\ OnScale(Power(host')) /\ Unwrapped(host') =>
       /\ Min(get_max_tasks(worker)) <= Min(get_max_tasks(worker'))
       /\ Max(get_max_tasks(worker)) <= Max(get_max_tasks(worker'))
       /\ Estimate' > Estimate => delay' > delay]_inputs

\* While the clocks of master and worker differ by little, a slot is held for the time
\* of the request: never refused by nanosleep, nor shorter than the two ways and
\* the processing.
SlotHeld ==
  delay \in -15..474 => sleep_for_milliseconds(Estimate) \in 2 * delay + 31..2 * delay + 50

\* The client's whole address and port reach the worker, up to the longest, and the
\* copies of the address stay within their blocks.
CallbackReaches ==
  /\ MasterIp(address.port, address.ip) = address.ip
  /\ WorkerPort(address.port, address.ip) = address.port
  /\ address.ip + 1 <= Block
===============================================================================
