----------------------------- MODULE FloppyDriver -----------------------------
(***************************************************************************)
(* The floppy driver under names of its own, so that it can stand beside   *)
(* the request layer above it, and beside the other drivers.               *)
(***************************************************************************)
EXTENDS Integers, Sequences

CONSTANTS FloppyRequest, FloppyDrive, FloppyTrack, MAX_FLOPPY_ERRORS, TRACK_ERRORS,
          SPIN, SELECT, OFF,
          MaxFloppyFaults   \* bound: times the controller misbehaves

VARIABLE fd

FD == INSTANCE Floppy WITH Request <- FloppyRequest, Drive <- FloppyDrive, Track <- FloppyTrack,
                           MAX_ERRORS <- MAX_FLOPPY_ERRORS, MaxFaults <- MaxFloppyFaults

ASSUME FloppyDriverAssumption == FD!FloppyAssumption

FloppySpec == FD!Init /\ [][FD!Next]_fd

(* Floppy: a read that succeeds gives what the disk holds; the controller reads and writes
   only on the request's drive, and only when it has spun up. *)
FloppyRight == FD!ReadsDisk /\ FD!RightDrive /\ FD!SpunUp
=============================================================================
