----------------------------- MODULE MCService ------------------------------
(* Service with loop devices of which all but the first, loop0, are        *)
(* misnamed: losetup was given a relative name or that of a symbolic link, *)
(* which leads to their own image or to the first, depending on who looks. *)
EXTENDS Service

CONSTANT loop0

MCPaths == {"p0", "p1", "name"}
MCImage == [d \in Loops |-> IF d = loop0 THEN "p0" ELSE "p1"]
MCLoName == [d \in Loops |-> IF d = loop0 THEN "p0" ELSE "name"]
MCFullPath == [p \in MCPaths |-> IF p = "name" THEN {"p0", "p1"} ELSE {p}]
=============================================================================
