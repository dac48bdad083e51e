---------------------------- MODULE MC_SpiFixup ----------------------------
(***************************************************************************)
(* Listings for SpiFixup.  A volume is a 56-byte FV header (HeaderLength  *)
(* at offset 48, a stale Checksum at 50, two bytes that make the word sum *)
(* carry) followed by a tail that holds the SPI marker, holds it after a  *)
(* stray 'S', or does not hold it.                                         *)
(***************************************************************************)
EXTENDS SpiFixup

Header(hl, b) ==
  [j \in 1..56 |-> CASE j = 49      -> hl % 256
                     [] j = 50      -> hl \div 256
                     [] j = 51      -> 52
                     [] j = 52      -> 18
                     [] j \in 21..22 -> b
                     [] OTHER       -> 0]

WithMarker    == SpiMarker
AfterStrayS   == <<83>> \o SpiMarker \o <<1, 2>>
NoMarker      == <<1, 2>>

Volume(kind, d) ==
  [kind |-> kind, data |-> d, orig |-> d, len |-> Len(d), cb1 |-> 0, cb2 |-> 0,
   patched |-> {}]

Override(n, c1, c2) ==
  [kind |-> "override", data |-> <<>>, orig |-> <<>>, len |-> n, cb1 |-> c1,
   cb2 |-> c2, patched |-> {}]

Other == [Volume("other", <<>>) EXCEPT !.len = 0]

Datas ==
  { Header(56, 0) \o WithMarker, Header(57, 255) \o WithMarker,
    Header(56, 255) \o AfterStrayS, Header(56, 0) \o NoMarker,
    Header(200, 0) \o WithMarker }

Files ==
  {Volume(kd, d) : kd \in {"stage1", "recovery"}, d \in Datas}
  \cup {Override(200000, 1000, 2000), Override(100000, 1000, 2000),
        Override(20, 4, 8), Override(200000, 140000, 2000), Other}

ListingsCore == UNION {[1..n -> Files] : n \in 1..3}

ListingsScan == {<<Volume("stage1", Header(56, 0) \o AfterStrayS)>>}

ListingsOverride == {<<Override(200000, 1000, 2000)>>}

=============================================================================
