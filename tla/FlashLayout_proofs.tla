-------------------------- MODULE FlashLayout_proofs --------------------------
(***************************************************************************)
(* The address arithmetic of sector_by_address against the layout table,   *)
(* for every layout.                                                       *)
(***************************************************************************)
EXTENDS FlashLayout, TLAPS

\* What an integer quotient is, in the form the provers can use.
LEMMA Quotient ==
  ASSUME NEW a \in Nat, NEW d \in Nat \ {0}
  PROVE  /\ a \div d \in Nat
         /\ (a \div d) * d <= a
         /\ a < (a \div d) * d + d
  OBVIOUS

LEMMA QuotientBelow ==
  ASSUME NEW a \in Nat, NEW d \in Nat \ {0}, NEW n \in Nat, a < n * d
  PROVE  a \div d < n
  BY Quotient, Z3

LEMMA QuotientUnique ==
  ASSUME NEW a \in Nat, NEW d \in Nat \ {0}, NEW q \in Nat, q * d <= a, a < q * d + d
  PROVE  a \div d = q
  BY Quotient, Z3

LEMMA Sizes ==
  /\ SmallBytes \in Nat
  /\ FlashSize \in Nat
  /\ TransferSize \in Nat \ {0}
  /\ SmallBytes <= FlashSize
  BY LayoutAssumption DEF SmallBytes, FlashSize, TransferSize

-----------------------------------------------------------------------------
(***************************************************************************)
(* sector_by_address returns, for an address in the flash, the one sector  *)
(* of flashLayout that contains it, and for an address past the flash a    *)
(* number the ROM does not accept: iap_write and iap_erase then fail and   *)
(* nothing is erased or written.                                           *)
(***************************************************************************)
THEOREM SectorOfAddress ==
  ASSUME NEW a \in Nat
  PROVE  /\ a < FlashSize => /\ sector_by_address(a) \in Sectors
                             /\ InSector(a, sector_by_address(a))
         /\ a >= FlashSize => sector_by_address(a) \notin Sectors
<1> USE LayoutAssumption, Sizes
<1>1. CASE a < SmallBytes
  <2>1. a \div SmallSize < SmallSectors
    BY <1>1, QuotientBelow DEF SmallBytes
  <2>2. QED
    BY <1>1, <2>1, Quotient DEF sector_by_address, Sectors, InSector, SectorBase, SectorSize
<1>2. CASE a >= SmallBytes
  <2> DEFINE q == (a - SmallBytes) \div LargeSize
  <2>1. q \in Nat /\ q * LargeSize <= a - SmallBytes /\ a - SmallBytes < q * LargeSize + LargeSize
    BY <1>2, Quotient
  <2>2. sector_by_address(a) = q + SmallSectors
    BY <1>2 DEF sector_by_address
  <2>3. ASSUME a < FlashSize PROVE q < LargeSectors
    BY <1>2, <2>3, QuotientBelow DEF FlashSize
  <2>4. ASSUME a >= FlashSize PROVE q >= LargeSectors
    <3>1. a - SmallBytes >= LargeSectors * LargeSize
      BY <2>4 DEF FlashSize
    <3>2. SUFFICES ASSUME q + 1 <= LargeSectors PROVE FALSE
      BY <2>1
    <3>3. (q + 1) * LargeSize <= LargeSectors * LargeSize
      BY <2>1, <3>2, Z3
    <3>4. QED
      BY <2>1, <3>1, <3>3, Z3
  <2>5. InSector(a, q + SmallSectors)
    BY <1>2, <2>1 DEF InSector, SectorBase, SectorSize
  <2>6. QED
    BY <1>2, <2>1, <2>2, <2>3, <2>4, <2>5 DEF Sectors
<1>3. QED
  BY <1>1, <1>2

\* A larger address is never in an earlier sector.
LEMMA SectorMonotonic ==
  ASSUME NEW a \in Nat, NEW b \in Nat, a <= b
  PROVE  sector_by_address(a) <= sector_by_address(b)
<1> USE LayoutAssumption, Sizes
<1>1. ASSUME NEW x \in Nat, NEW y \in Nat, NEW d \in Nat \ {0}, x <= y
      PROVE  x \div d <= y \div d
  <2>1. SUFFICES ASSUME y \div d + 1 <= x \div d PROVE FALSE
    BY <1>1, Quotient
  <2>2. (y \div d + 1) * d <= (x \div d) * d
    BY <2>1, Quotient, Z3
  <2>3. QED
    BY <1>1, <2>2, Quotient, Z3
<1>2. CASE b < SmallBytes
  BY <1>1, <1>2 DEF sector_by_address
<1>3. CASE a >= SmallBytes
  BY <1>1, <1>3, Quotient DEF sector_by_address
<1>4. CASE a < SmallBytes /\ b >= SmallBytes
  <2>1. a \div SmallSize < SmallSectors
    BY <1>4, QuotientBelow DEF SmallBytes
  <2>2. QED
    BY <1>4, <2>1, Quotient DEF sector_by_address
<1>5. QED
  BY <1>2, <1>3, <1>4

\* The sectors of the table do not overlap.
LEMMA SectorUnique ==
  ASSUME NEW a \in Nat, NEW s \in Sectors, InSector(a, s)
  PROVE  /\ a < FlashSize
         /\ s = sector_by_address(a)
<1> USE LayoutAssumption, Sizes DEF Sectors, InSector, SectorBase, SectorSize
<1>1. CASE s < SmallSectors
  <2>1. (s + 1) * SmallSize <= SmallBytes
    BY <1>1, Z3 DEF SmallBytes
  <2>2. a < SmallBytes
    BY <1>1, <2>1
  <2>3. a \div SmallSize = s
    BY <1>1, QuotientUnique
  <2>4. QED
    BY <2>2, <2>3 DEF sector_by_address
<1>2. CASE s >= SmallSectors
  <2>1. (s - SmallSectors + 1) * LargeSize <= LargeSectors * LargeSize
    BY <1>2, Z3
  <2>2. (s - SmallSectors) * LargeSize \in Nat
    BY <1>2
  <2>3. a >= SmallBytes /\ a < FlashSize
    BY <1>2, <2>1, <2>2 DEF FlashSize
  <2>4. (a - SmallBytes) \div LargeSize = s - SmallSectors
    BY <1>2, <2>2, <2>3, QuotientUnique
  <2>5. QED
    BY <2>3, <2>4 DEF sector_by_address
<1>3. QED
  BY <1>1, <1>2
=============================================================================
