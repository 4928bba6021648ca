---------------------------- MODULE MCSupplyChain ----------------------------
(***************************************************************************)
(* Model values for SupplyChain: two root generations, with the online key *)
(* replaced in the second, and a third root that only the second's keys    *)
(* have signed; two snapshots of one version; a release of a targets key,  *)
(* one of a delegated key, and one that key may not sign.                  *)
(***************************************************************************)
EXTENDS SupplyChain

Role(keys, threshold) == [keys |-> keys, threshold |-> threshold]

Root(version, rootKeys, online) ==
    [version |-> version,
     roles |-> [root |-> Role(rootKeys, 2), timestamp |-> Role({online}, 1),
                snapshot |-> Role({online}, 1), targets |-> Role({online}, 1)],
     delegations |-> <<[keys |-> {"site"}, types |-> {"config.bundle"}]>>]

Doc(payload, signers) == [payload |-> payload, signers |-> signers]

Root1 == Root(1, {"k1", "k2"}, "o1")
Root2 == Root(2, {"k2", "k3"}, "o2")
OtherRoot2 == Root(2, {"k2", "k3"}, "o1")
Root3 == Root(3, {"k2", "k3"}, "o2")

MCPinned == Root1
MCRootDocs ==
    {Doc(Root1, {"k1", "k2"}), Doc(Root2, {"k1", "k2", "k3"}),
     Doc(OtherRoot2, {"k1", "k2", "k3"}), Doc(Root3, {"k2", "k3"})}

Targets1 == [version |-> 1, releases |-> {"r1", "r3"}, reject |-> {}]
Targets2 == [version |-> 2, releases |-> {"r2", "r3"}, reject |-> {"b1"}]

Snapshot(version, targets) ==
    [version |-> version, targets |-> targets, targetsVersion |-> targets.version]

Snapshot1 == Snapshot(1, Targets1)
Snapshot2 == Snapshot(2, Targets2)
OtherSnapshot2 == Snapshot(2, Targets1)

Timestamp(snapshot) == [snapshot |-> snapshot, snapshotVersion |-> snapshot.version]

MCTargetsDocs == {Doc(Targets1, {"o1", "o2"}), Doc(Targets2, {"o1", "o2"})}
MCSnapshotDocs ==
    {Doc(Snapshot1, {"o1"}), Doc(Snapshot2, {"o2"}), Doc(OtherSnapshot2, {"o1"})}
MCTimestampDocs ==
    {Doc(Timestamp(Snapshot1), {"o1"}), Doc(Timestamp(Snapshot2), {"o2"}),
     Doc(Timestamp(OtherSnapshot2), {"o1"})}

MCReleases ==
    {[id |-> "r1", seq |-> 1, key |-> "o1", types |-> {"os.rauc"}, artifacts |-> {"b1"}],
     [id |-> "r2", seq |-> 2, key |-> "site", types |-> {"config.bundle"}, artifacts |-> {"b2"}],
     [id |-> "r3", seq |-> 3, key |-> "site", types |-> {"os.rauc"}, artifacts |-> {"b3"}]}
=============================================================================
