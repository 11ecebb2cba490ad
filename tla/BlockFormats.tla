---------------------------- MODULE BlockFormats ----------------------------
(***************************************************************************)
(* The packed blocks of the quantised formats: which bits of a block the   *)
(* encoder (gguf_quantization.cpp, one class per format) gives to each     *)
(* number, and from which bits the decoder (cpuDequantToFloat of           *)
(* weight_uploader.cpp) takes it.  The numbers are left out; a field       *)
(* <<kind, i>> stands for one: "d" and "dmin" are those of the block,      *)
(* "sc" and "sm" of sub-block i, "sum" of 16 elements, "q" is element i.   *)
(***************************************************************************)
EXTENDS Integers, Sequences

CONSTANT Formats        \* the formats CompressTile is called for

ASSUME FormatsAssumption ==
    Formats \subseteq {"Q4_0", "Q8_0", "Q4_K", "Q5_K", "Q6_K", "Q8_K"}

VARIABLES
    format,     \* the format of the block being written, "" before
    stage,      \* 0: the head is next, then the sub-blocks, then the tail
    packed      \* bit of the block -> <<field, bit of the field>>, what was written

formatVars == <<format, stage, packed>>

\* Bits shift to shift + n - 1 of a byte, lowest first.
Bits(byte, shift, n) == [b \in 1 .. n |-> 8 * byte + shift + b - 1]

getBlockElements(f) == IF f \in {"Q4_0", "Q8_0"} THEN 32 ELSE 256

getBlockSize(f) ==
    CASE f = "Q4_0" -> 18 [] f = "Q8_0" -> 34 [] f = "Q4_K" -> 144
      [] f = "Q5_K" -> 176 [] f = "Q6_K" -> 210 [] f = "Q8_K" -> 292

-----------------------------------------------------------------------------
(* The encoder: where each class puts a field.                             *)

\* Mutant: elements i and i + 16 share a byte, not i and i + 1.
Q4_0QuantizationHalves(kind, i) ==
    CASE kind = "d" -> Bits(0, 0, 16)
      [] kind = "q" -> Bits(2 + (i % 16), 4 * (i \div 16), 4)

Q4_0Quantization(kind, i) ==
    CASE kind = "d" -> Bits(0, 0, 16)
      [] kind = "q" -> Bits(2 + i \div 2, 4 * (i % 2), 4)

Q8_0Quantization(kind, i) ==
    CASE kind = "d" -> Bits(0, 0, 16)
      [] kind = "q" -> Bits(2 + i, 0, 8)

\* The scales of sub-blocks 4 to 7 are split: four bits in the last third of the
\* twelve bytes, two in the high bits that the scale of sub-block i - 4 leaves.
Q4_KQuantization(kind, i) ==
    CASE kind = "d" -> Bits(0, 0, 16)
      [] kind = "dmin" -> Bits(2, 0, 16)
      [] kind = "sc" -> IF i < 4 THEN Bits(4 + i, 0, 6)
                        ELSE Bits(8 + i, 0, 4) \o Bits(i, 6, 2)
      [] kind = "sm" -> IF i < 4 THEN Bits(8 + i, 0, 6)
                        ELSE Bits(8 + i, 4, 4) \o Bits(4 + i, 6, 2)
      [] kind = "q" -> Bits(16 + (i \div 64) * 32 + (i % 32), 4 * ((i \div 32) % 2), 4)

\* A pair of sub-blocks shares a byte: the scale of the even one, the minimum of
\* the odd one; the other two are not kept.
Q5_KQuantization(kind, i) ==
    CASE kind = "d" -> Bits(0, 0, 16)
      [] kind = "dmin" -> Bits(2, 0, 16)
      [] kind = "sc" -> Bits(8 + i \div 2, 0, 4)
      [] kind = "sm" -> Bits(8 + i \div 2, 4, 4)
      [] kind = "q" -> Bits(48 + i \div 2, 4 * (i % 2), 4) \o Bits(16 + i \div 8, i % 8, 1)

Q6_KQuantization(kind, i) ==
    CASE kind = "d" -> Bits(208, 0, 16)
      [] kind = "sc" -> Bits(192 + i, 0, 8)
      [] kind = "q" -> Bits(i \div 2, 4 * (i % 2), 4) \o Bits(128 + i \div 4, 2 * (i % 4), 2)

Q8_KQuantization(kind, i) ==
    CASE kind = "d" -> Bits(0, 0, 32)
      [] kind = "q" -> Bits(4 + i, 0, 8)
      [] kind = "sum" -> Bits(260 + 2 * i, 0, 16)

CreateQuantization(f, kind, i) ==
    CASE f = "Q4_0" -> Q4_0Quantization(kind, i)
      [] f = "Q8_0" -> Q8_0Quantization(kind, i)
      [] f = "Q4_K" -> Q4_KQuantization(kind, i)
      [] f = "Q5_K" -> Q5_KQuantization(kind, i)
      [] f = "Q6_K" -> Q6_KQuantization(kind, i)
      [] f = "Q8_K" -> Q8_KQuantization(kind, i)

-----------------------------------------------------------------------------
(* The decoder.  It has a branch for Q5_K too, of another layout.          *)

DecodeQ4_0(kind, i) ==
    IF kind = "d" THEN Bits(0, 0, 16)
    ELSE IF i % 2 = 0 THEN Bits(2 + i \div 2, 0, 4) ELSE Bits(2 + i \div 2, 4, 4)

DecodeQ8_0(kind, i) == IF kind = "d" THEN Bits(0, 0, 16) ELSE Bits(2 + i, 0, 8)

DecodeQ4_K(kind, i) ==
    LET subBlock == i \div 32
        low      == i < 4
    IN  CASE kind = "d" -> Bits(0, 0, 16)
          [] kind = "dmin" -> Bits(2, 0, 16)
          [] kind = "sc" /\ low -> Bits(4 + i, 0, 6)
          [] kind = "sm" /\ low -> Bits(4 + i + 4, 0, 6)
          [] kind = "sc" /\ ~low -> Bits(4 + i + 4, 0, 4) \o Bits(4 + i - 4, 6, 2)
          [] kind = "sm" /\ ~low -> Bits(4 + i + 4, 4, 4) \o Bits(4 + i, 6, 2)
          [] kind = "q" -> Bits(16 + (subBlock \div 2) * 32 + (i % 32),
                                IF subBlock % 2 = 0 THEN 0 ELSE 4, 4)

DecodeQ6_K(kind, i) ==
    CASE kind = "d" -> Bits(208, 0, 16)
      [] kind = "sc" -> Bits(192 + i, 0, 8)
      [] kind = "q" -> Bits(i \div 2, IF i % 2 = 0 THEN 0 ELSE 4, 4)
                       \o Bits(128 + i \div 4, (i % 4) * 2, 2)

DecodeQ8_K(kind, i) == IF kind = "d" THEN Bits(0, 0, 32) ELSE Bits(4 + i, 0, 8)

cpuDequantToFloat(f, kind, i) ==
    CASE f = "Q4_0" -> DecodeQ4_0(kind, i)
      [] f = "Q8_0" -> DecodeQ8_0(kind, i)
      [] f = "Q4_K" -> DecodeQ4_K(kind, i)
      [] f = "Q6_K" -> DecodeQ6_K(kind, i)
      [] f = "Q8_K" -> DecodeQ8_K(kind, i)

-----------------------------------------------------------------------------
(* CompressTile on one block, in the order of its loops.                   *)

SubBlocks(f) ==
    CASE f \in {"Q4_K", "Q5_K"} -> 8 [] f = "Q6_K" -> 16 [] OTHER -> 1

HeadFields(f) == {<<"d", 0>>} \cup IF f \in {"Q4_K", "Q5_K"} THEN {<<"dmin", 0>>} ELSE {}

SubBlockFields(f, sb) ==
    LET n == getBlockElements(f) \div SubBlocks(f)
    IN  {<<"q", e>> : e \in sb * n .. (sb + 1) * n - 1}
        \cup CASE f = "Q6_K" -> {<<"sc", sb>>}
               [] f = "Q5_K" -> {<<IF sb % 2 = 0 THEN "sc" ELSE "sm", sb>>}
               [] OTHER -> {}

TailFields(f) ==
    CASE f = "Q4_K" -> {"sc", "sm"} \X (0 .. 7)
      [] f = "Q8_K" -> {"sum"} \X (0 .. 15)
      [] OTHER -> {}

StageFields(f, s) ==
    IF s = 0 THEN HeadFields(f)
    ELSE IF s <= SubBlocks(f) THEN SubBlockFields(f, s - 1) ELSE TailFields(f)

\* The bits of the fields of one stage, as they are in the block after it.
Written(f, s) ==
    LET bits == UNION {{<<CreateQuantization(f, x[1], x[2])[b], x, b>> :
                            b \in DOMAIN CreateQuantization(f, x[1], x[2])} :
                       x \in StageFields(f, s)}
    IN  [at \in {w[1] : w \in bits} |-> LET w == CHOOSE w \in bits : w[1] = at
                                        IN  <<w[2], w[3]>>]

FormatInit == format = "" /\ stage = 0 /\ packed = <<>>

BeginBlock ==
    /\ format = "" \/ stage > SubBlocks(format) + 1
    /\ \E f \in Formats : format' = f
    /\ stage' = 0
    /\ packed' = <<>>

CompressStage ==
    /\ format # "" /\ stage <= SubBlocks(format) + 1
    /\ \E new \in {Written(format, stage)} :
          packed' = [at \in DOMAIN new \cup DOMAIN packed |->
                        IF at \in DOMAIN new THEN new[at] ELSE packed[at]]
    /\ stage' = stage + 1
    /\ UNCHANGED format

FormatNext == BeginBlock \/ CompressStage

FormatSpec == FormatInit /\ [][FormatNext]_formatVars

-----------------------------------------------------------------------------
(* Properties.                                                             *)

\* The bits of a field, read at the places given, are those written for it.
HeldAt(x, at) == \A b \in DOMAIN at : at[b] \in DOMAIN packed /\ packed[at[b]] = <<x, b>>

\* What CompressTile has put into a block stays inside the block, is not
\* overwritten by what it puts there later, and cpuDequantToFloat finds every
\* number it reads where the encoder left it (Q5_K apart, whose decoder expects
\* another layout, and the sums of Q8_K, which it does not read).
ReadsBackBlock ==
    /\ \A at \in DOMAIN packed : at < 8 * getBlockSize(format)
    /\ \A s \in 0 .. stage - 1 : \A x \in StageFields(format, s) :
          /\ HeldAt(x, CreateQuantization(format, x[1], x[2]))
          /\ format # "Q5_K" /\ x[1] # "sum" =>
                HeldAt(x, cpuDequantToFloat(format, x[1], x[2]))

=============================================================================
