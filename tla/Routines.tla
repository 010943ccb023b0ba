------------------------------ MODULE Routines ------------------------------
(***************************************************************************)
(* The routines of the kernel that call nothing but the console: those on  *)
(* page tables, on strings, on numbers and on the disk.  The kernel makes  *)
(* one call at a time and the four groups share no state, so a behavior    *)
(* calls the routines of one group, and the others rest.                   *)
(***************************************************************************)
EXTENDS PageTables, StringRoutines, Console, AtaPio

VARIABLE group

routinesVars == <<tableVars, stringVars, consoleVars, diskVars, group>>

Groups == {"tables", "strings", "console", "disk"}

RoutinesInit ==
    /\ group \in Groups
    /\ TablesInit /\ (group # "tables" => memory = CHOOSE tables \in Memories : TRUE)
    /\ StringInit /\ (group # "strings" => bytes = [location \in Locations |-> 0])
    /\ ConsoleInit
    /\ DiskInit /\ (group # "disk" => drive.kind = "absent")

RoutinesNext ==
    /\ \/ group = "tables" /\ TablesNext /\ UNCHANGED <<stringVars, consoleVars, diskVars>>
       \/ group = "strings" /\ StringNext /\ UNCHANGED <<tableVars, consoleVars, diskVars>>
       \/ group = "console" /\ ConsoleNext /\ UNCHANGED <<tableVars, stringVars, diskVars>>
       \/ group = "disk" /\ DiskNext /\ UNCHANGED <<tableVars, stringVars, consoleVars>>
    /\ UNCHANGED group

RoutinesSpec == RoutinesInit /\ [][RoutinesNext]_routinesVars /\ DiskFairness
=============================================================================
