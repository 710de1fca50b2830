---------------------------- MODULE MCPlacement ----------------------------
(***************************************************************************)
(* Four nodes and seven instances of two services for the placement engine.  *)
(*   na: no runners (default ones), priority 5, label l1, resource res1,   *)
(*       gpu with 1 share, local;                                          *)
(*   nb: runners r1 and r2, priority 10, no labels, resource res1, no      *)
(*       devices;                                                          *)
(*   nc: runner r1, priority 20, label l2, resource res1, gpu with 2       *)
(*       shares;                                                           *)
(*   nd: runners that cannot be read, priority 30, everything.             *)
(* s1 wants the default runner and a gpu share; s2 wants r2 or r1 and      *)
(* res1.  i1-i3 and i6 run s1 (four requests for three gpu shares), i4     *)
(* runs s2, i5 runs s2 and wants label l1, i7 runs s2 and wants labels l1 *)
(* and l2, which no node it may run on has.                                *)
(***************************************************************************)
EXTENDS Placement, TLC

CONSTANTS na, nb, nc, nd, r1, r2, l1, l2, res1, gpu, s1, s2, L1, L2,
          i1, i2, i3, i4, i5, i6, i7

MCNodeOrder      == <<na, nb, nc, nd>>
MCDefaultRunners == <<r1>>
MCNodeRunners    == (na :> <<>>) @@ (nb :> <<r1, r2>>) @@ (nc :> <<r1>>) @@ (nd :> BadRunners)
MCNodePriority   == (na :> 5) @@ (nb :> 10) @@ (nc :> 20) @@ (nd :> 30)
MCNodeLabels     == (na :> <<l1>>) @@ (nb :> <<>>) @@ (nc :> <<l2>>) @@ (nd :> <<l1, l2>>)
MCNodeResources  == (na :> <<res1>>) @@ (nb :> <<res1>>) @@ (nc :> <<res1>>) @@ (nd :> <<res1>>)
MCIsLocal        == (na :> TRUE) @@ (nb :> FALSE) @@ (nc :> FALSE) @@ (nd :> FALSE)

MCNodeDevices ==
  (na :> <<[name |-> gpu, shared |-> 1]>>) @@ (nb :> <<>>)
  @@ (nc :> <<[name |-> gpu, shared |-> 2]>>) @@ (nd :> <<[name |-> gpu, shared |-> 4]>>)

MCSvcRunners   == (s1 :> <<>>) @@ (s2 :> <<r2, r1>>)
MCSvcResources == (s1 :> <<>>) @@ (s2 :> <<res1>>)
MCSvcDevices   == (s1 :> <<gpu>>) @@ (s2 :> <<>>)
MCSvcLayers    == (s1 :> <<L1, L2>>) @@ (s2 :> <<L2, L1>>)

MCInstService == (i1 :> s1) @@ (i2 :> s1) @@ (i3 :> s1) @@ (i4 :> s2) @@ (i5 :> s2) @@ (i6 :> s1)
  @@ (i7 :> s2)
MCInstLabels  == (i1 :> <<>>) @@ (i2 :> <<>>) @@ (i3 :> <<>>) @@ (i4 :> <<>>) @@ (i5 :> <<l1>>) @@ (i6 :> <<>>)
  @@ (i7 :> <<l1, l2>>)
=============================================================================
