---------------------------- MODULE MCRobotDrive ----------------------------
EXTENDS RobotDrive

MCTargets == {<<0, 1>>}
MCRoom == Cell \cup {Start}
=============================================================================
