------------------------- MODULE MCDeclaredEntries -------------------------
(* Lists of up to two entries over two identities, one of them the base     *)
(* template's, and one inherited entry nobody declares.                     *)
EXTENDS DeclaredEntries, SequencesExt

CONSTANTS a, h, f, x, auto, unset

MCBase == << [id |-> h, opt |-> auto, flag |-> FALSE, ip |-> auto],
             [id |-> f, opt |-> auto, flag |-> FALSE, ip |-> auto] >>

\* Of the attributes that may be set, at most one is.
MCEntries(k) ==
  {e \in [id : {a, h}, opt : {unset, x},
          flag : IF k = "mount" THEN BOOLEAN ELSE {FALSE},
          ip : IF k = "mount" THEN {unset} ELSE {unset, x}] :
     e.opt = unset \/ (~e.flag /\ e.ip = unset)}

\* ValidateConfig refuses two mounts of one location and two forwards of one
\* guest port, protocol and guest address.
MCLists(k) ==
  {<<>>} \cup {<<e>> : e \in MCEntries(k)}
    \cup {<<p[1], p[2]>> : p \in
            {q \in MCEntries(k) \X MCEntries(k) :
               \/ q[1].id # q[2].id
               \/ k = "forward" /\ q[1].ip # q[2].ip /\ q[1].opt # q[2].opt}}

\* An entry is removed, changed or added; only the two that may be declared, and
\* of the inherited one only the option.
MCDrifts(list) ==
  {RemoveAt(list, i) : i \in {j \in DOMAIN list : list[j].id # f}}
    \cup {[list EXCEPT ![i].opt = IF @ = x THEN auto ELSE x] :
            i \in {j \in DOMAIN list : list[j].id # h}}
    \cup {[list EXCEPT ![i].flag = ~@] :
            i \in {j \in DOMAIN list : kind = "mount" /\ list[j].id = h}}
    \cup {Append(list, [id |-> i, opt |-> auto, flag |-> FALSE, ip |-> auto]) :
            i \in {j \in {a} : j \notin Ids(list)}}
=============================================================================
