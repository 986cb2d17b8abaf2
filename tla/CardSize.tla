------------------------------ MODULE CardSize ------------------------------
(***************************************************************************)
(* The CSD register of a card (sdcard/csd.rs), read by read_csd and        *)
(* read_data (sdcard/spi.rs), and the size of the card that it gives.      *)
(* Fields that do not bear on the size are left out.                       *)
(***************************************************************************)
EXTENDS Checksums

CONSTANTS
  BlockBits,    \* 9, a block is 512 bytes
  UnitBits,     \* 10, the size of large cards is in units of 1024 blocks
  WordBits,     \* 32, the width of a number of blocks
  DataBits,     \* 120, the bits of the register before its CRC
  SizeField,    \* C_SIZE, for each version its first and last bit
  MultField,    \* C_SIZE_MULT, of version 1
  LenField      \* READ_BL_LEN, of version 1

Version == {"V1", "V2", "V3"}

ASSUME RegisterAssumption ==
  /\ {BlockBits, UnitBits, WordBits, DataBits} \subseteq Nat /\ BlockBits > 1
  /\ DataBits % 8 = 0
  /\ SizeField \in [Version -> (3 .. DataBits) \X (3 .. DataBits)]
  /\ {MultField, LenField} \subseteq (3 .. DataBits) \X (3 .. DataBits)

TwoTo(n) ==
  LET power[i \in 0 .. n] == IF i = 0 THEN 1 ELSE 2 * power[i - 1]
  IN  power[n]
Word == TwoTo(WordBits)
BlockLen == TwoTo(BlockBits)

Number(bits) ==
  LET n[i \in 0 .. Len(bits)] == IF i = 0 THEN 0 ELSE 2 * n[i - 1] + bits[i]
  IN  n[Len(bits)]
Get(raw, field) == Number(SubSeq(raw, field[1], field[2]))

-----------------------------------------------------------------------------
(* csd.rs *)

\* CSD_STRUCTURE
VersionOf(raw) ==
  CASE raw[1] = 0 /\ raw[2] = 0 -> "V1"
    [] raw[1] = 0 /\ raw[2] = 1 -> "V2"
    [] raw[1] = 1 /\ raw[2] = 0 -> "V3"
    [] OTHER -> "invalid"

\* verify_crc7, and a mutant.
VerifyNothing(raw) == TRUE
VerifyCrc7(raw) == SubSeq(raw, DataBits + 1, DataBits + 7) = Crc7(SubSeq(raw, 1, DataBits))

\* Csd::new accepts a register.
IsCsd(raw) == VersionOf(raw) # "invalid" /\ VerifyCrc7(raw)

DeviceSize(raw) == Get(raw, SizeField[VersionOf(raw)])

\* The exponent of version 1, for bytes; and a mutant.
ExponentWithoutMult(raw) == Get(raw, LenField) + 2
Exponent(raw) == Get(raw, MultField) + Get(raw, LenField) + 2

\* card_capacity_bytes, a u64
CapacityBytes(raw) ==
  (DeviceSize(raw) + 1) * TwoTo(IF VersionOf(raw) = "V1" THEN Exponent(raw) ELSE BlockBits + UnitBits)

\* card_capacity_blocks, a u32.  What does not fit is lost, or panics.
CapacityBlocks(raw) ==
  ((DeviceSize(raw) + 1)
     * TwoTo(IF VersionOf(raw) = "V1" THEN Exponent(raw) - BlockBits ELSE UnitBits)) % Word

-----------------------------------------------------------------------------
(* spi.rs *)

\* read_data checks the CRC that follows the data, if it is to; then read_csd
\* asks Csd::new.
CrcMatches(data, crc, useCrc) == useCrc => crc = Crc16(data)
ReadCsd(data, crc, useCrc) == CrcMatches(data, crc, useCrc) /\ IsCsd(data)

-----------------------------------------------------------------------------
(* The card *)

\* What a card sends: the register with its CRC and a last bit of 1, then the
\* CRC of the data.
Register(bits) == bits \o Remainder(bits, Divisor7) \o <<1>>
Sent(bits) == Register(bits) \o Remainder(Register(bits), Divisor16)

\* The bytes of its memory: blocks of its own size, in groups, in version 1.
Memory(bits) ==
  IF VersionOf(bits) = "V1"
  THEN LET mult == TwoTo(Get(bits, MultField) + 2)
           blocknr == (DeviceSize(bits) + 1) * mult
       IN  blocknr * TwoTo(Get(bits, LenField))
  ELSE (DeviceSize(bits) + 1) * TwoTo(UnitBits) * BlockLen

\* Two bits, or one, that the line turns over, no more than 16 bits apart.
Damage == {d \in (1 .. DataBits + 24) \X (1 .. DataBits + 24) : d[2] - d[1] \in 0 .. 15}
Damaged(bits, d) == [i \in DOMAIN bits |-> IF i \in {d[1], d[2]} THEN 1 - bits[i] ELSE bits[i]]
=============================================================================
