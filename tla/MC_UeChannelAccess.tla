------------------------- MODULE MC_UeChannelAccess -------------------------
EXTENDS UeChannelAccess_props

Dci(t, f, s, n) == [type |-> t, format |-> f, sym |-> s, num |-> n]
Srs == Dci("SRS", "UL", 3, 1)
Ul(s, n) == Dci("DATA", "UL", s, n)
Dl(s, n) == Dci("DATA", "DL", s, n)

\* A flexible slot with an SRS, one without, an uplink and a downlink slot.
FourSlots == <<
    [type |-> "F", ul |-> {{Srs}, {Srs, Ul(2, 1)}}, dl |-> {Dl(1, 1), Dl(1, 2)}],
    [type |-> "F", ul |-> {{}, {Ul(2, 2)}}, dl |-> {Dl(1, 1), Dl(1, 3)}],
    [type |-> "UL", ul |-> {{}, {Ul(0, 1)}, {Ul(0, 4)}}, dl |-> {}],
    [type |-> "DL", ul |-> {{}}, dl |-> {Dl(1, 4)}]>>
=============================================================================
