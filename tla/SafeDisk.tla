------------------------------ MODULE SafeDisk ------------------------------
(***************************************************************************)
(* What sync promises: a disk that a power failure sets back to a whole    *)
(* earlier image.  What a boot would find changes only while a sync is     *)
(* under way, and then only to the golden image or to the one being saved. *)
(***************************************************************************)
CONSTANTS
    DiskImage,  \* contents of the disk
    factory,    \* the golden one
    Nothing     \* no image

VARIABLES
    work,       \* the disk programs see
    stable,     \* the disk a boot would come up with
    phase,      \* "on", "syncing" or "off"
    acked       \* what the last sync has been answered for

sdkvars == <<work, stable, phase, acked>>

DiskInit ==
    /\ work = factory /\ stable = factory
    /\ phase = "on"
    /\ acked = Nothing

Modify ==
    /\ phase = "on"
    /\ work' \in DiskImage
    /\ UNCHANGED <<stable, phase, acked>>

SyncCall ==
    /\ phase = "on" /\ phase' = "syncing"
    /\ acked' = Nothing
    /\ UNCHANGED <<work, stable>>

(* A sync with nothing to do. *)
SyncIdle ==
    /\ phase = "on" /\ stable = work
    /\ acked' = work
    /\ UNCHANGED <<work, stable, phase>>

(* While it lasts the old image may be given up. *)
Saving ==
    /\ phase = "syncing"
    /\ stable' \in {factory, work}
    /\ UNCHANGED <<work, phase, acked>>

SyncAnswer ==
    /\ phase = "syncing" /\ phase' = "on"
    /\ stable' = work /\ acked' = work
    /\ UNCHANGED work

PowerLoss ==
    /\ phase # "off" /\ phase' = "off"
    /\ stable' \in (IF phase = "syncing" THEN {stable, factory, work} ELSE {stable})
    /\ UNCHANGED <<work, acked>>

PowerUp ==
    /\ phase = "off" /\ phase' = "on"
    /\ work' = stable
    /\ UNCHANGED <<stable, acked>>

DiskNext ==
    \/ Modify \/ SyncCall \/ SyncIdle \/ Saving \/ SyncAnswer
    \/ PowerLoss \/ PowerUp

DiskSpec == DiskInit /\ [][DiskNext]_sdkvars
=============================================================================
