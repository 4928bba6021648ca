------------------------------- MODULE Device -------------------------------
(***************************************************************************)
(* The A/B device behind the Backend interface (internal/ota/backend.go,   *)
(* rauc.go): two root file system slots, the slot that runs, the slot the  *)
(* bootloader tries first, and the installer that writes the other slot.   *)
(* Everything here is an operator on a device value.                       *)
(*                                                                         *)
(* mark is "good" exactly when Slot.Good holds.  The other two values tell *)
(* apart what a boot-attempt counter tells apart: "fresh" may be booted,   *)
(* "bad" may not.  A version "torn" is an image that is not complete.      *)
(***************************************************************************)
EXTENDS Journal

CONSTANTS Factory,   \* the version both slots leave the factory with
          Backend    \* Config.Backend: "simulator" or "rauc"

ASSUME DeviceAssumption ==
    /\ Factory \in Versions
    /\ Backend \in {"simulator", "rauc"}

Marks == {"good", "fresh", "bad"}

DeviceState ==
    [bootID : Nat, booted : Slots, primary : Slots,
     operation : {"idle", "installing"}, bundle : Versions,
     version : [Slots -> Versions \cup {"torn"}], mark : [Slots -> Marks],
     rebooting : BOOLEAN]

FactoryDevice ==
    [bootID |-> 1, booted |-> "rootfs.0", primary |-> "rootfs.0",
     operation |-> "idle", bundle |-> Factory,
     version |-> [s \in Slots |-> Factory], mark |-> [s \in Slots |-> "good"],
     rebooting |-> FALSE]

Opposite(slot) == IF slot = "rootfs.0" THEN "rootfs.1" ELSE "rootfs.0"

\* DeviceStatus.Other
Other(dev) == Opposite(dev.booted)

\* DeviceStatus.GoodOf
GoodOf(dev, slot) == dev.mark[slot] = "good"

\* Backend.Mark.  Activating a slot also gives it its boot attempts back.
Mark(dev, state, slot) ==
    IF state = "active"
    THEN [dev EXCEPT !.primary = slot,
                     !.mark[slot] = IF @ = "bad" THEN "fresh" ELSE @]
    ELSE [dev EXCEPT !.mark[slot] = state]

\* Simulator.Install: the whole installation in one step.
Installed(dev, version) ==
    [dev EXCEPT !.version[Other(dev)] = version,
                !.mark[Other(dev)] = "fresh",
                !.primary = Other(dev)]

\* RAUC accepts InstallBundle: until it is done the target is not bootable.
Flashing(dev, version) ==
    [dev EXCEPT !.operation = "installing", !.bundle = version,
                !.version[Other(dev)] = "torn", !.mark[Other(dev)] = "bad",
                !.primary = dev.booted]

\* RAUC finishes: the target holds the bundle and is tried first.
Flashed(dev) == [Installed(dev, dev.bundle) EXCEPT !.operation = "idle"]

\* RAUC gives up: the target stays unusable.
FlashFailed(dev) == [dev EXCEPT !.operation = "idle"]

Bootable(dev, slot) == dev.mark[slot] # "bad" /\ dev.version[slot] # "torn"

\* Simulator.Reboot: it boots the primary slot, or stays where it is (FailBoot).
\* A bootloader tries the primary slot first and goes on to the opposite one when
\* the primary is unusable or has used up its boot attempts.
BootChoices(dev) ==
    IF Backend = "simulator"
    THEN {dev.primary, dev.booted}
    ELSE {s \in Slots : Bootable(dev, s)}

\* A boot into slot.  An installation under way is lost with the power, and a
\* slot that used up its boot attempts is not tried again.
BootedInto(dev, slot) ==
    [dev EXCEPT !.bootID = @ + 1, !.booted = slot, !.primary = slot,
                !.operation = "idle", !.rebooting = FALSE,
                !.mark[dev.primary] =
                    IF Backend = "rauc" /\ slot # dev.primary THEN "bad" ELSE @]
=============================================================================
