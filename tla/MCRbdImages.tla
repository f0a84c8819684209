---------------------------- MODULE MCRbdImages -----------------------------
(* RbdImages for TLC: classes with and without the options that have       *)
(* defaults, with an empty user and with values that are refused.          *)
EXTENDS RbdImages, TLC

P(name, value) == [name |-> name, spelling |-> name, value |-> value]

Base == {P("monitors", "host"), P("adminsecretname", "s")}

MCClasses ==
    { Base,
      Base \cup {P("userid", ""), P("adminid", "kube"), P("pool", "ssd"),
                 P("adminsecretnamespace", "ceph")},
      Base \cup {P("userid", "pod"), P("adminid", "kube"), P("pool", "ssd"),
                 P("adminsecretnamespace", "ceph"), P("imageformat", "1"),
                 P("imagefeatures", "layering")},
      Base \cup {P("pool", "")},
      Base \cup {P("pool", "gone")},
      Base \cup {P("imageformat", "3"), P("datapool", "ec")},
      {P("monitors", "host"), P("unknown", "x")},
      {P("monitors", "host"), P("usersecretname", "s"), P("fstype", "ext4")} }

Secret(ns, key, value) ==
    [ns |-> ns, secret |-> "s", key |-> key, value |-> value]

MCSecrets == {Secret("default", "key", "k1"), Secret("default", "note", "n"),
              Secret("ceph", "key", "k2"), Secret("ceph", "old", "k1"),
              Secret("ceph", "note", "n")}

MCCephKey == ("admin" :> "k1" @@ "kube" :> "k2")
=============================================================================
