----------------------------- MODULE MCSaveWire -----------------------------
EXTENDS SaveWire

MCVariant == 0 .. 2
MCCollaterals == {<<>>, <<"reserve", "otherReserve">>}
\* One entry; one below the limit with the most bytes; one below it with the fewest.
MCHoldings == {<<1, 0>>, <<1, 8>>, <<8, 1>>}
=============================================================================
