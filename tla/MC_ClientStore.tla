---------------------------- MODULE MC_ClientStore ----------------------------
(***************************************************************************)
(* Three record ids and four versions: group state that never expires, a   *)
(* delivery that expires at time 1, an old and a newer cache entry.        *)
(***************************************************************************)
EXTENDS ClientStore, FiniteSetsExt

Version(k, p, c, e, n) == [kind |-> k, policy |-> p, created |-> c, expires |-> e, charge |-> n]

MCIds == 1..3
MCVersions == { Version("group_state", "never", 0, 0, 2), Version("delivery", "after_expiry", 0, 1, 2),
                Version("file_cache", "oldest", 0, 0, 1), Version("file_cache", "oldest", 1, 0, 2) }

(* Counting the bytes one by one is the sum of the charges. *)
ASSUME ChargeAddsUp ==
  \A files \in [Ids -> Versions] : \A S \in SUBSET Ids :
    Charge(files, S) = MapThenSumSet(LAMBDA id : files[id].charge, S)
=============================================================================
