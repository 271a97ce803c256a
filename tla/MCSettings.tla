---------------------------- MODULE MCSettings ----------------------------
(* A template that sets everything, documents that set, clear or empty some  *)
(* of it, and sizes in several spellings, one of which no flag can carry.    *)
EXTENDS Settings, TLC

Mounts(x) == <<"mounts">> :> Sequence(<<x>>)
SshMap == <<"ssh">> :> MapNode
Ssh(key, node) == SshMap @@ <<"ssh", key>> :> node
Memory(s) == <<"memory">> :> Scalar(s)
In(tenths, unit) == [tenths |-> tenths, unit |-> unit]

MCKeys == {"base", "memory", "disk", "mounts", "ssh", "port", "agent"}
MCEntries == {"home", "data", "own"}

MCTemplates ==
  "tpl" :> (Mounts("home") @@ Ssh("port", Scalar("a")) @@ Ssh("agent", Scalar("a"))
              @@ Memory(In(20, "GiB")))

\* cfg and its respelling, an empty document, and fragments.
MCParsed ==
  LET cfg == Mounts("data") @@ Ssh("port", Scalar("b")) @@ Memory(In(30, "GiB")) IN
  "cfg"     :> cfg @@
  "respelt" :> cfg @@
  "nothing" :> EmptyDocument @@
  "emptied" :> (<<"mounts">> :> Sequence(<<>>) @@ Ssh("port", Scalar("b"))) @@
  "null"    :> (<<"mounts">> :> NullNode) @@
  "empty"   :> (<<"mounts">> :> Sequence(<<>>)) @@
  "seq"     :> Mounts("own") @@
  "port"    :> Ssh("port", Scalar("c")) @@
  "noport"  :> Ssh("port", NullNode) @@
  "nossh"   :> (<<"ssh">> :> NullNode)

Wish(t, c, o, m, d) ==
  [template |-> t, config |-> c, config_overrides |-> o, memory |-> m, disk |-> d]

\* Every source under every fragment or a size; every size on one of them.
MCSources ==
  {<<"tpl", Null>>, <<Null, "cfg">>, <<Null, "respelt">>, <<Null, "emptied">>,
   <<Null, "nothing">>, <<Null, Null>>}

MCWishes ==
  {Wish(s[1], s[2], o, Null, Null) :
     s \in MCSources, o \in {Null, "null", "empty", "seq", "port", "noport", "nossh"}}
  \cup {Wish(s[1], s[2], Null, In(10, "GiB"), Null) : s \in MCSources}
  \cup {Wish("tpl", Null, Null, m, d) :
           m \in {Null, In(10, "GiB"), In(40, "MiB"), In(15, "GiB"), In(670, "B"),
                  In(170, "MiB"), In(1, "B")},
           d \in {Null, In(20, "GiB"), In(30, "GiB")}}

MCDefault == [memory |-> 64, disk |-> 128]
MCObservable == {64, 67, 192}
MCOverflow == -(MaxInt + 1)
=============================================================================
