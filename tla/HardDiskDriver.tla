---------------------------- MODULE HardDiskDriver ----------------------------
(***************************************************************************)
(* The hard disk driver under names of its own, so that it can stand       *)
(* beside the request layer above it, and beside the other drivers.        *)
(***************************************************************************)
EXTENDS Integers, Sequences

CONSTANTS DiskRequest, SECTORS, NR_HD, NR_SECTS, MAX_DISK_ERRORS,
          MaxDiskFaults    \* bound: times the drive misbehaves

VARIABLE hd

HD == INSTANCE HardDisk WITH Request <- DiskRequest, MAX_ERRORS <- MAX_DISK_ERRORS,
                             MaxFaults <- MaxDiskFaults

ASSUME DriverAssumption == HD!DiskAssumption

DriverSpec == HD!Init /\ [][HD!Next]_hd

(* HardDisk: a request that hd.c ends well has had each of its sectors moved, from or to
   its own place on the disk; while it waits with a request listed its timer runs, so that a
   lost interrupt cannot leave it waiting for good. *)
HardDiskRight == HD!RightData /\ HD!TimerRuns
=============================================================================
