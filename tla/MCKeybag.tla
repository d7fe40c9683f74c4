------------------------------ MODULE MCKeybag ------------------------------
(* Two volumes with keys and keybags of their own in one container; each entry *)
(* of the three keybags as a writer makes it or damaged; counts that are right,*)
(* short or over the cap; a volume with two passwords; superblocks that name   *)
(* no keybag.                                                                  *)
EXTENDS Keybag

Entry(uuid, tag, data) == [uuid |-> uuid, tag |-> tag, data |-> data]
Bag(uuid, entries, nkeys) == [uuid |-> uuid, nkeys |-> nkeys, entries |-> entries]

ContainerEntries ==
  <<Entry("v", 4, Short), Entry("u", 2, Wrapped("kekU", "vekU")), Entry("v", 2, Wrapped("kekV", "vekV")),
    Entry("u", 3, Prange(2)), Entry("v", 3, Prange(3))>>

VolumeEntries(v, k, p) == <<Entry(v, 4, Short), Entry(v, 3, Wrapped(p, k))>>

Image(c, u, v, cn) ==
  [magic |-> TRUE, block_size_ok |-> TRUE, uuid |-> "c", keylocker |-> 1,
   bags |-> <<Bag("c", c, cn), Bag("u", u, Len(u)), Bag("v", v, Len(v))>>]

U == VolumeEntries("u", "kekU", "pwU")
V == VolumeEntries("v", "kekV", "pwV")
Sound == Image(ContainerEntries, U, V, 5)

\* A second user of volume v, with a password of their own.
Shared == Image(ContainerEntries, U, V \o <<Entry("v", 3, Wrapped("pwX", "kekV"))>>, 5)
MCShared == {Shared}

\* One entry of a keybag replaced.
Datas == {Short, Misfit, Prange(2), Prange(3), Prange(4), Prange(0), Wrapped("kekU", "vekU"), Wrapped("pwU", "kekV")}
Odd(es) ==
  {[es EXCEPT ![n] = Entry(u, t, d)] : n \in DOMAIN es, u \in {"u", "v"}, t \in {1, 2, 3, 248, 513}, d \in Datas}

MCImages ==
  {Sound, Shared, [Sound EXCEPT !.magic = FALSE], [Sound EXCEPT !.block_size_ok = FALSE],
   [Sound EXCEPT !.keylocker = 0], [Sound EXCEPT !.keylocker = 4], [Sound EXCEPT !.uuid = "d"]}
    \cup {Image(c, U, V, n) : c \in Odd(ContainerEntries), n \in {4, 5}}
    \cup {Image(ContainerEntries, U, v, 5) : v \in Odd(V)}
    \cup {Image(c, U, V, 9) : c \in {ContainerEntries, ContainerEntries \o ContainerEntries}}

MCRequests == {[uuid |-> u, password |-> p] : u \in {"u", "v", "w"}, p \in {"pwU", "pwV", "pwX"}}
=============================================================================
