-------------------------------- MODULE MCMmu --------------------------------
(* Page tables, accesses and values of satp for the checks of Mmu.         *)
EXTENDS Mmu, TLC

Triple(a, b, c) == (2 :> a) @@ (1 :> b) @@ (0 :> c)

\* Two roots, a table of level 1 and one of level 0.
Root1 == Triple(0, 0, 1)
Root2 == Triple(1, 0, 0)
Mid   == Triple(0, 1, 0)
Low   == Triple(0, 1, 1)

VA(blank, a, b, c) == [blank |-> blank, vpn |-> Triple(a, b, c)]

\* The address that is physical page p.
At(p) == [blank |-> 0, vpn |-> p]

Ptr(p)         == [flags |-> {"V"}, ppn |-> p]
Maps(p, flags) == [flags |-> {"V", "A"} \cup flags, ppn |-> p]

\* Physical page <<1, 1, 1>> is not backed by a device.
MostPages == [Levels -> 0 .. 1] \ {Triple(1, 1, 1)}

Machine(p, idx, pte) ==
  [kind |-> "store", priv |-> "M", mprv |-> FALSE, mpp |-> "U", mxr |-> FALSE,
   va |-> At(p), index |-> idx, value |-> pte]

By(kind, priv, v) ==
  [kind |-> kind, priv |-> priv, mprv |-> FALSE, mpp |-> "U", mxr |-> FALSE, va |-> v]

Space(mode, asid, root) == [mode |-> mode, asid |-> asid, ppn |-> root]

MCSlots == {<<Root1, 0>>, <<Mid, 0>>, <<Low, 1>>, <<Root2, 0>>}

MCPages == {VA(0, 0, 0, 1), VA(0, 0, 1, 0)}

-----------------------------------------------------------------------------
(* One address space: pages of 4 KiB and 2 MiB, and a gigapage that is not *)
(* aligned.                                                                *)

SizeAccesses ==
  {Machine(Root1, 0, pte) : pte \in {Ptr(Mid), Maps(Triple(1, 0, 1), {"R"})}}
  \cup {Machine(Mid, 0, pte) : pte \in {Ptr(Low), Maps(Triple(1, 1, 0), {"R", "W", "D"})}}
  \cup {Machine(Low, 1, Maps(Triple(0, 0, 1), {"X", "U"}))}
  \cup {By("load", "S", v) : v \in {VA(0, 0, 0, 1), VA(0, 0, 1, 0), VA(1, 0, 0, 0)}}
  \cup {By("fetch", "U", VA(0, 0, 0, 1)),
        [By("load", "M", VA(0, 0, 0, 1)) EXCEPT !.mprv = TRUE, !.mxr = TRUE]}

SizeSatps == {Space("sv39", 1, Root1), Space("other", 1, Root1)}

-----------------------------------------------------------------------------
(* Two address spaces with roots of their own, gigapages and global        *)
(* mappings.  The first one may map its own table, and the kernel clear    *)
(* it.                                                                     *)

Kernel ==
  By("store", "S", VA(0, 0, 0, 1))
    @@ [index |-> 0, value |-> ZeroPte]

SpaceAccesses ==
  {Machine(Root1, 0, Maps(Triple(0, 0, 0), flags)) :
     flags \in {{"R", "W", "D"}, {"R", "W", "X", "G"}}}
  \cup {Machine(Root2, 0, Maps(Triple(1, 0, 0), {"R"}))}
  \cup {By("load", "S", VA(0, 0, 1, 0)), Kernel}

SpaceSatps == {Space("sv39", 1, Root1), Space("sv39", 2, Root2)}

-----------------------------------------------------------------------------

MCPrograms ==
  { [accesses |-> SizeAccesses, satps |-> SizeSatps],
    [accesses |-> SpaceAccesses, satps |-> SpaceSatps] }

MCAccesses == SizeAccesses \cup SpaceAccesses

MCSatps == SizeSatps \cup SpaceSatps
=============================================================================
