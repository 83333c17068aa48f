-------------------------- MODULE AtomicArtifacts --------------------------
(***************************************************************************)
(* What a reader of an output directory is promised: under every name lies *)
(* nothing or one whole artifact, and the only thing that ever happens to  *)
(* a name is that another whole artifact takes its place at once.  No      *)
(* artifact changes where it lies and no name becomes empty again.         *)
(***************************************************************************)
CONSTANTS
  Name,       \* output paths
  IsWhole(_), \* the artifacts a completed command may leave
  Nothing     \* no file

VARIABLE visible

Init == visible = [n \in Name |-> Nothing]

Publish(n) ==
  /\ IsWhole(visible'[n])
  /\ visible' = [visible EXCEPT ![n] = visible'[n]]

Next == \E n \in Name : Publish(n)

Spec == Init /\ [][Next]_visible
=============================================================================
