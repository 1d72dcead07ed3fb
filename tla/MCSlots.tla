-------------------------------- MODULE MCSlots --------------------------------
\* A day of 12 minutes, two services, two bays and two technicians.
EXTENDS SlotSearch, TLC

SmallCatalog == [SHORT |-> 1, LONG |-> 3]

Symmetry == Permutations(Bays) \union Permutations(Technicians)

\* An unchanging clock and clocks put forward and back around the third midnight,
\* from twelve hours behind UTC to fourteen ahead.
ClockChanges ==
    [before : {-12, -5, 0, 1, 14}, after : {-12, -11, -5, -4, 0, 1, 2, 13, 14}, change : 48..95]
ZonesAroundTheThirdDay ==
    {z \in ClockChanges : z.after - z.before \in {-1, 0, 1}}

=============================================================================
