---------------------------- MODULE IdentityRegistry ----------------------------
(***************************************************************************)
(* contracts/src/core/IdentityRegistry.sol: which address controls a robot.*)
(* The public key, the metadata hash and the active flag are left out: no  *)
(* contract reads them.                                                    *)
(***************************************************************************)
EXTENDS Chain

CONSTANT Robots

VARIABLE controller     \* the controller of each robot, NoAddress if unregistered

IdentityInit == controller = [r \in Robots |-> NoAddress]

\* registerRobot: open to anyone, once per robot; nothing ever changes it again.
RegisterRobot(r, c) ==
    /\ c # NoAddress
    /\ controller[r] = NoAddress
    /\ controller' = [controller EXCEPT ![r] = c]
    /\ UNCHANGED <<chainVars, balance>>
================================================================================
