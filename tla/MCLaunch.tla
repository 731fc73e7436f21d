------------------------------ MODULE MCLaunch ------------------------------
(* Two working directories, one of which holds the example configs; the   *)
(* deployments of MCArtifactLayout.                                       *)
EXTENDS Launch

CONSTANTS m1, m2, m3, r1, c1

MCMachines == {m1, m2, m3}
MCHostfiles == {<<m1>>, <<m1, m2>>, <<m2, m1>>, <<m1, m2, m3>>}
MCRoots == {r1, c1}
MCExpDirs == {<<"exp">>, <<r1, "exp">>}
MCLogDirs == {None, <<"logs">>, <<r1, "logs">>}
MCExitCodes == {1}
=============================================================================
