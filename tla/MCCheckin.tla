----------------------------- MODULE MCCheckin -----------------------------
(***************************************************************************)
(* Small instances of Checkin: two credentials of two accounts, a session  *)
(* of each account, the scheduler's pass and a pass from the panel.        *)
(***************************************************************************)
EXTENDS Checkin

CONSTANTS cred1, cred2, alice, bob, cookieA, cookieB, scheduler, panel, editor

MCRuns      == {"ok", "already", "error", "auth_expired"}
MCAccountOf == [c \in Creds |-> IF c = cred1 THEN alice ELSE bob]
MCOwnerOf   == [k \in Cookies |-> IF k = cookieA THEN alice ELSE bob]
============================================================================
