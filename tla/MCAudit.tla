------------------------------ MODULE MCAudit -------------------------------
(* Three families of containers: any list of up to three mappings; one or two  *)
(* volumes, with up to three snapshots in the order list_snapshots gives them, *)
(* any creation times and name records that agree, miss or are swapped; and    *)
(* reapers over any graph of three reap lists, one of which may be damaged.    *)
EXTENDS Audit

Map(o, p) == [oid |-> o, paddr |-> p]
Maps == {Map(o, p) : o \in 1 .. 2, p \in 10 .. 12}
MapLists == {<< >>} \cup [1 .. 1 -> Maps] \cup [1 .. 2 -> Maps] \cup [1 .. 3 -> Maps]

SnapAt(n, t) == [name |-> n, xid |-> n, create_time |-> t]
SnapLists == {[k \in 1 .. n |-> SnapAt(k, t[k])] : n \in 0 .. 3, t \in [1 .. 3 -> 0 .. 3]}
NamesOf(q) == [k \in DOMAIN q |-> [name |-> q[k].name, xid |-> q[k].xid]]
NameLists(q) == {NamesOf(q), << >>, [k \in DOMAIN q |-> [name |-> q[k].name, xid |-> Len(q) + 1 - k]]}

Vol(ok, q, ns) == [parses |-> ok, snaps |-> q, names |-> ns]
Volumes == UNION {{Vol(TRUE, q, ns) : ns \in NameLists(q)} : q \in SnapLists}
Unparsed == Vol(FALSE, << >>, << >>)

List(next, es, n) == [next |-> next, entries |-> es, count |-> n]
Lists(x) == {List(n, <<x, 0, x + 1>>, k) : n \in 0 .. 4, k \in {0, 3, 7}}

Container(maps, vols, reaper, lists) == [mappings |-> maps, volumes |-> vols, reaper |-> reaper, lists |-> lists]
Reaper(o, h, ok) == [oid |-> o, head |-> h, cksum |-> ok]
NoLists == [p \in {} |-> << >>]

Ephemeral == <<Map(1, 10), Map(2, 11), Map(3, 12)>>

MCContainers ==
  {Container(m, << >>, NoReaper, NoLists) : m \in MapLists}
    \cup {Container(<< >>, <<a>>, NoReaper, NoLists) : a \in Volumes}
    \cup {Container(<< >>, <<a, Vol(TRUE, <<SnapAt(7, 1)>>, << >>)>>, NoReaper, NoLists) : a \in {Unparsed, Vol(TRUE, << >>, << >>)}}
    \cup {Container(<< >>, <<Vol(TRUE, << >>, << >>), Unparsed>>, NoReaper, NoLists)}
    \cup {Container(Ephemeral, << >>, Reaper(o, h, ok), [p \in 10 .. 11 |-> List(2, <<p>>, 1)]) :
            o \in {0, 40}, h \in {1, 2, 3}, ok \in BOOLEAN}
    \cup {Container(Ephemeral, << >>, Reaper(o, h, TRUE), [p \in 10 .. 12 |-> IF p = 10 THEN a ELSE IF p = 11 THEN b ELSE d]) :
            o \in {0, 40}, h \in {0, 1, 4}, a \in Lists(20), b \in Lists(25), d \in {List(n, <<30>>, 1) : n \in 0 .. 2}}

MCUnparsed == {Container(<< >>, <<Unparsed, Vol(TRUE, << >>, << >>)>>, NoReaper, NoLists)}
=============================================================================
