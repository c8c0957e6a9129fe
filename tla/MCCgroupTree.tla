---------------------------- MODULE MCCgroupTree ----------------------------
(***************************************************************************)
(* Two containers, and inside them directories that look like the          *)
(* kubelet's: a node that runs in a container makes its own kubepods tree. *)
(***************************************************************************)
EXTENDS CgroupTree

MCInside ==
    { Part(<<Seg("", "init")>>, "scope"),
      Part(<<Seg("kubepods", "")>>, ""),
      Part(<<Seg("kubepods", ""), Seg("pod", "56")>>, "slice"),
      Part(<<Seg("pod", "56")>>, ""),
      Part(<<Seg("", "a1")>>, "") }

=============================================================================
