------------------------------ MODULE Estimates ------------------------------
(***************************************************************************)
(* The numbers behind the placement of requests: how a worker scores its   *)
(* hardware, how many tasks it offers, how long the master expects it to   *)
(* take for a request, and how long a slot is really held.                 *)
(*                                                                         *)
(* int has 32 bits and wraps, as the build without optimisation lets it.   *)
(* Values of the mathematical library are tables, in thousandths.          *)
(***************************************************************************)
EXTENDS Integers, FiniteSets, FiniteSetsExt, Sequences

\* Division and conversion to int drop the fraction, towards zero.
Trunc(a, b) == IF a >= 0 THEN a \div b ELSE -((-a) \div b)

Abs(a) == IF a < 0 THEN -a ELSE a

\* The 11 bits of a from a place on.
Limb(a, place) == (Abs(a) \div place) % 2048

\* The product of two ints: its 32 low bits in limbs of 11, 11 and 10 bits, read as
\* two's complement.
Times(a, b) ==
  LET c0 == Limb(a, 1) * Limb(b, 1)
      c1 == Limb(a, 1) * Limb(b, 2048) + Limb(a, 2048) * Limb(b, 1) + (c0 \div 2048)
      c2 == Limb(a, 1) * Limb(b, 4194304) + Limb(a, 2048) * Limb(b, 2048)
            + Limb(a, 4194304) * Limb(b, 1) + (c1 \div 2048)
      high == c2 % 1024
      low == ((c1 % 2048) * 2048) + (c0 % 2048)
      signed == (IF high < 512 THEN high ELSE high - 1024) * 4194304 + low
  IN IF (a < 0) = (b < 0) \/ (high = 512 /\ low = 0) THEN signed ELSE -signed

-------------------------------------------------------------------------------
(* Scores. *)

\* What /proc/cpuinfo leads to; every processor's entry repeats the number of cores.
CpuPower(processors, cores, clock) ==
  Trunc(Times(Times(processors, processors * cores), clock), 1000)

\* Each rung is a pair of limits in tenths; the test (score-high)*(score-low) <= 0 is
\* done in floating point where a limit has a fraction, and in ints elsewhere.
CpuRungs ==
  << <<10, 832>>, <<832, 900>>, <<900, 1000>>, <<1000, 1149>>, <<1150, 2810>>,
     <<2810, 7000>>, <<7000, 20000>>, <<20000, 60000>>, <<60000, 100000>> >>
OnRung(rung, score) ==
  IF rung[1] % 10 = 0 /\ rung[2] % 10 = 0
  THEN Times(score - rung[2] \div 10, score - rung[1] \div 10) <= 0
  ELSE score * 10 \in rung[1]..rung[2]

\* Mutant of get_cpu_score: a score on the limit of two rungs gets the higher one.
CpuScoreUpper(score) ==
  LET on == {i \in DOMAIN CpuRungs : OnRung(CpuRungs[i], score)}
  IN IF on = {} THEN 10 ELSE Max(on)

get_cpu_score(score) ==
  LET on == {i \in DOMAIN CpuRungs : OnRung(CpuRungs[i], score)}
  IN IF on = {} THEN 10 ELSE Min(on)

\* Every limit of the memory's rungs is whole, so each test is a product of ints.
RamRungs ==
  << <<0, 20>>, <<20, 40>>, <<40, 60>>, <<60, 80>>, <<80, 160>>,
     <<160, 320>>, <<320, 640>>, <<640, 1000>>, <<1000, 1280>> >>

get_ram_score(kilobytes) ==
  LET on == {i \in DOMAIN RamRungs : OnRung(RamRungs[i], kilobytes \div 1000000)}
  IN IF on = {} THEN 10 ELSE Min(on)

-------------------------------------------------------------------------------
(* How many tasks a worker offers. *)

\* 0.6 cpu + 0.3 ram + 0.1 gpu, rounded; single precision may leave a half below
\* the half.
TaskUnits(r) ==
  LET tenths == 6 * r.cpu + 3 * r.ram + r.gpu
  IN {(tenths + 5) \div 10, (tenths + 4) \div 10}

\* acosh(10 * ACOSH_MODIFIER)
Acosh == 14509
get_max_tasks(r) == {(u * Acosh + 500) \div 1000 : u \in TaskUnits(r)}

-------------------------------------------------------------------------------
(* How long a request is expected to take. *)

resources_for_request_type ==
  << [cpu |-> 6, ram |-> 5, gpu |-> 6], [cpu |-> 6, ram |-> 4, gpu |-> 4],
     [cpu |-> 6, ram |-> 5, gpu |-> 2], [cpu |-> 1, ram |-> 1, gpu |-> 1],
     [cpu |-> 6, ram |-> 4, gpu |-> 5], [cpu |-> 3, ram |-> 2, gpu |-> 1] >>

\* ((R + 75) / 113) * 10, as the int that modified_tanh makes of it.
worker_apc_for_request_type(type, w) ==
  LET q == resources_for_request_type[type]
      R == (w.cpu - q.cpu) * q.cpu + (w.ram - q.ram) * q.ram + (w.gpu - q.gpu) * q.gpu
  IN Trunc((R + 75) * 10, 113)

\* 1000 * PROCESSING_TIME * (2 - modified_tanh(r)) for r = 0, 1, ..., where
\* modified_tanh(r) = tanh(r * TANH_MODIFIER) + 1.
Processing ==
  <<50000, 48500, 47004, 45512, 44029, 42556, 41096, 39652, 38225, 36819, 35434, 34074,
    32739, 31432>>

\* Mutants of the estimate: longer for a better worker, and the delay counted once.
EstimateReversed(type, w, network_delay) ==
  Trunc(100000 - Processing[worker_apc_for_request_type(type, w) + 1] + 2000 * network_delay, 1000)
EstimateOneWay(type, w, network_delay) ==
  Trunc(Processing[worker_apc_for_request_type(type, w) + 1] + 1000 * network_delay, 1000)

estimate_time_for_request_type(type, w, network_delay) ==
  Trunc(Processing[worker_apc_for_request_type(type, w) + 1] + 2000 * network_delay, 1000)

\* sleep_for_milliseconds gives all of it to tv_nsec, and nanosleep refuses a
\* second or more and less than nothing at once.
sleep_for_milliseconds(milliseconds) == IF milliseconds \in 0..999 THEN milliseconds ELSE 0
===============================================================================
