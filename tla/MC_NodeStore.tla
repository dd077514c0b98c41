----------------------------- MODULE MC_NodeStore -----------------------------
(***************************************************************************)
(* Three items on two route tags.  Items 1 and 2 share a tag whose quota   *)
(* holds only one of them; 1 and 3 together exceed the capacity; 2 and 3   *)
(* fill it exactly, which raises the difficulty by two.                    *)
(***************************************************************************)
EXTENDS NodeStore, FiniteSetsExt, TLC

MCItems == 1..3
MCRoutes == {"r1", "r2"}
MCRouteOf == <<"r1", "r1", "r2">>
MCChargeOf == <<2, 1, 2>>
MCWorkOf == <<0, 2, 1>>

(* Counting units is adding up charges. *)
ASSUME ChargeAddsUp ==
  \A S \in SUBSET Items : Charge(S) = MapThenSumSet(LAMBDA i : ChargeOf[i], S)

HandlerSymmetry == Permutations(Handlers)
=============================================================================
