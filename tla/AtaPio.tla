------------------------------- MODULE AtaPio -------------------------------
(***************************************************************************)
(* The identification of a disk: Disk::InitialiseAtaPio (io/ataio.cpp)     *)
(* against drive 0 of bus 0, which works in its own time, may not be there *)
(* and may never answer.                                                   *)
(***************************************************************************)
EXTENDS Integers

VARIABLES
    drive,      \* what is on the bus, and what the drive does
    disk        \* InitialiseAtaPio: where it is, its locals, what it says

diskVars == <<drive, disk>>

\* Nothing on the bus reads as 0, or as all ones where nothing drives it.
Kinds == {"absent", "floating", "present", "stuck"}
There == drive.kind \in {"present", "stuck"}

BSY == 128
DRDY == 64

StatusPort ==
    CASE drive.kind = "absent" -> 0
      [] drive.kind = "floating" -> 255
      [] There -> IF drive.state = "working" THEN BSY ELSE DRDY

\* Mistake: the error bit tested.
BusyAsError(value) == value % 2 = 1

Busy(value) == (value \div BSY) % 2 = 1

\* A read of the port is remembered if it showed BSY.
Seen == disk.seen \/ StatusPort >= BSY

Goto(pc) == disk' = [disk EXCEPT !.pc = pc]

Returned == disk.pc \in {"unsupported", "nonexistent", "finished"}

-----------------------------------------------------------------------------
(* The drive. *)

\* BSY goes up some time after the command was written.
DriveStarts ==
    /\ There /\ drive.state = "commanded"
    /\ drive' = [drive EXCEPT !.state = "working"]
    /\ UNCHANGED disk

DriveEnds ==
    /\ drive.kind = "present" /\ drive.state = "working"
    /\ drive' = [drive EXCEPT !.state = "identified"]
    /\ UNCHANGED disk

-----------------------------------------------------------------------------
(* InitialiseAtaPio. *)

InitialiseAtaPio(number, bus) ==
    /\ disk.pc = "idle" \/ Returned
    /\ disk' = [pc |-> IF number = 0 /\ bus = 0 THEN "select" ELSE "unsupported",
                status |-> 0, seen |-> FALSE]
    /\ UNCHANGED drive

\* Drive select, fifteen reads to wait, and four ports set to 0.
SelectDrive == disk.pc = "select" /\ Goto("identify") /\ UNCHANGED drive

SendIdentify ==
    /\ disk.pc = "identify"
    /\ drive' = [drive EXCEPT !.state = IF There /\ @ # "working" THEN "commanded" ELSE @]
    /\ Goto("exists")

\* The first status, right behind the command.
TestExistence ==
    /\ disk.pc = "exists"
    /\ disk' = [disk EXCEPT !.pc = IF StatusPort = 0 THEN "nonexistent" ELSE "status", !.seen = Seen]
    /\ UNCHANGED drive

ReadStatus ==
    /\ disk.pc = "status"
    /\ disk' = [pc |-> "poll", status |-> StatusPort, seen |-> Seen]
    /\ UNCHANGED drive

\* Mistake: the status not read again.
NextStatusStale == disk.status

NextStatus == StatusPort

Poll ==
    /\ disk.pc = "poll"
    /\ disk' = IF Busy(disk.status) THEN [disk EXCEPT !.status = NextStatus, !.seen = Seen]
               ELSE [disk EXCEPT !.pc = "finished"]
    /\ UNCHANGED drive

-----------------------------------------------------------------------------

DiskInit ==
    /\ drive \in [kind : Kinds, state : {"ready"}]
    /\ disk = [pc |-> "idle", status |-> 0, seen |-> FALSE]

Kernel == SelectDrive \/ SendIdentify \/ TestExistence \/ ReadStatus \/ Poll

DiskNext ==
    \/ \E number, bus \in 0..1 : InitialiseAtaPio(number, bus)
    \/ Kernel
    \/ DriveStarts \/ DriveEnds

\* The kernel goes on, and a drive that is not stuck works on a command and ends it.
DiskFairness == WF_diskVars(Kernel) /\ WF_diskVars(DriveStarts) /\ WF_diskVars(DriveEnds)

DiskSpec == DiskInit /\ [][DiskNext]_diskVars /\ DiskFairness

-----------------------------------------------------------------------------
(* Properties. *)

\* If a read has shown the drive busy, "finished polling!" means that it has ended
\* the command (ataio.cpp:23, 34-49).  A drive slower to raise BSY than the first
\* two reads is taken for one that has ended.
FinishedMeansIdentified ==
    disk.pc = "finished" /\ disk.seen => drive.state = "identified"

\* Without a drive, or with one that is not stuck, the call returns; on a floating
\* bus the drive never passes for one that has finished (ataio.cpp:39).
IdentifyReturns ==
    /\ (drive.kind \in {"absent", "present"} /\ disk.pc # "idle") ~> Returned
    /\ drive.kind = "floating" => [](disk.pc # "finished")
=============================================================================
