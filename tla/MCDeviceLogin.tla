--------------------------- MODULE MCDeviceLogin ----------------------------
(***************************************************************************)
(* A small instance of DeviceLogin: two logins of the account whose old    *)
(* device has a credential file, and two polls that may overlap.           *)
(***************************************************************************)
EXTENDS DeviceLogin

CONSTANTS first, second, former, alice

MCAccountOf == [d \in Devices |-> alice]
MCLives     == {0, 1, 2}
MCEdits     == {UserOwned}
=============================================================================
