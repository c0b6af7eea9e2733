\* Machines from a board without cores in /proc/cpuinfo to one whose product of
\* processors, threads and clock wraps; every rung of both scales and their limits; the delays
\* around the range nanosleep takes; ports and addresses of every length.
CONSTANTS
  Processors = {0, 1, 4, 8, 10, 12, 32, 128}
  Cores = {0, 1, 32}
  Clocks = {0, 600, 900, 1000, 1125, 1400, 2500, 3600, 8200}
  Kilobytes = {0, 2000000, 3000000, 8000000, 12000000, 20000000, 64000000, 90000000, 101000000, 130000000}
  Gpus = {0, 5, 10}
  Delays <- MCDelays
  Ports = {1, 4, 5}
  Addresses = {7, 8, 9, 10, 11, 12, 13, 14, 15}
SPECIFICATION Spec
INVARIANTS ScoresRank SlotHeld CallbackReaches
PROPERTIES UpgradeHelps
CHECK_DEADLOCK FALSE
