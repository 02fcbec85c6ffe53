---------------------------- MODULE ConversionsProofs ----------------------------
(***************************************************************************)
(* Proofs about the conversions.  ConfBits, for bytes and registers of any *)
(* size: the bits read of a file are the bits written in it, and what the  *)
(* driver keeps for a board are the bits read or set last.  TimeStamps,    *)
(* for words and times of any length: the decoders agree, and corrected    *)
(* times do not go back.                                                   *)
(***************************************************************************)
EXTENDS ConfBits, TimeStamps, SequenceTheorems, WellFoundedInduction, TLAPS

-----------------------------------------------------------------------------
(* Places of bits.                                                          *)

\* Quotient and remainder.
LEMMA Division ==
  ASSUME NEW n \in Nat, NEW d \in Nat \ {0}
  PROVE  /\ n \div d \in Nat
         /\ n % d \in 0 .. d - 1
         /\ n = d * (n \div d) + (n % d)
  BY Z3

\* They are the only ones.
LEMMA DivisionUnique ==
  ASSUME NEW d \in Nat \ {0}, NEW q \in Int, NEW p \in Int,
         NEW r \in 0 .. d - 1, NEW s \in 0 .. d - 1,
         d * q + r = d * p + s
  PROVE  q = p
  BY Z3

LEMMA Downwards ==
  ASSUME NEW d \in Nat, NEW k \in Nat, NEW a \in Nat, NEW s \in Nat
  PROVE  d * k - 1 - (d * a + s) = d * (k - 1 - a) + (d - 1 - s)
  BY Z3

LEMMA CountsDown ==
  ASSUME NEW d \in Nat \ {0}, NEW k \in Nat, NEW i \in 0 .. d * k - 1
  PROVE  (d * k - 1 - i) \div d = k - 1 - (i \div d)
  <1>1. PICK m \in Nat : m = d * k
    BY d \in Nat
  <1>2. PICK n \in Nat : n = m - 1 - i /\ i \in Nat
    BY <1>1
  <1>3. PICK a \in Nat, s \in 0 .. d - 1 : a = i \div d /\ i = d * a + s
    BY <1>2, Division
  <1>4. PICK q \in Nat, r \in 0 .. d - 1 : q = n \div d /\ n = d * q + r
    BY Division
  <1>5. d * k - 1 - (d * a + s) = d * (k - 1 - a) + (d - 1 - s)
    BY d \in Nat, s \in Nat, Downwards
  <1>6. d * q + r = d * (k - 1 - a) + (d - 1 - s)
    BY <1>1, <1>2, <1>3, <1>4, <1>5
  <1>7. q = k - 1 - a
    BY <1>6, DivisionUnique, q \in Int, k - 1 - a \in Int, d - 1 - s \in 0 .. d - 1, Zenon
  <1>8. (d * k - 1 - i) \div d = q
    BY <1>1, <1>2, <1>4, Zenon
  <1> QED
    BY <1>3, <1>7, <1>8, Zenon

\* The bytes of a register are filled from its end: the bit i of a register of
\* len bits is in the byte len/d - 1 - i/d.
LEMMA ByteCountsDown ==
  ASSUME NEW d \in Nat \ {0}, NEW len \in Nat, len % d = 0, NEW i \in 0 .. len - 1
  PROVE  (len - 1 - i) \div d = (len \div d) - 1 - (i \div d)
  <1>1. PICK k \in Nat : k = len \div d /\ len = d * k
    <2>1. len \div d \in Nat /\ len = d * (len \div d)
      BY Division
    <2> QED
      BY <2>1, Zenon
  <1>2. i \in 0 .. d * k - 1
    BY <1>1, Zenon
  <1>3. (d * k - 1 - i) \div d = k - 1 - (i \div d)
    BY <1>2, CountsDown, Zenon
  <1> QED
    BY <1>1, <1>3, Zenon

USE DEF Registers

LEMMA Sizes ==
  ASSUME NEW r \in Registers
  PROVE  /\ BITS \in Nat \ {0} /\ LEN[r] \in Nat \ {0} /\ LEN[r] % BITS = 0
         /\ Bytes(r) \in Nat /\ Bytes(r) < MAXPACK /\ MAXPACK \in Nat
  <1>1. BITS \in Nat \ {0} /\ LEN[r] \in Nat \ {0} /\ LEN[r] % BITS = 0 /\ LEN[r] < MAXPACK
    BY BITSAssumption, LENAssumption, MAXPACKAssumption
  <1>2. PICK l \in Nat, d \in Nat \ {0} : l = LEN[r] /\ d = BITS
    BY <1>1
  <1>3. l = d * (l \div d) + (l % d) /\ (l \div d) \in Nat /\ (l % d) \in 0 .. d - 1
    BY Division
  <1>4. l \div d <= l
    BY <1>3, Z3
  <1> QED
    BY <1>1, <1>2, <1>3, <1>4, MAXPACKAssumption DEF Bytes

LEMMA Places ==
  ASSUME NEW r \in Registers, NEW i \in 0 .. LEN[r] - 1
  PROVE  /\ ByteOf(LEN[r], i) = Bytes(r) - 1 - (i \div BITS)
         /\ ByteOf(LEN[r], i) \in 0 .. Bytes(r) - 1
         /\ ByteOf(LEN[r], i) \in 0 .. MAXPACK - 1
         /\ Mask(i) \in 0 .. BITS - 1
         /\ i \in Nat /\ (i \div BITS) \in Nat /\ (i % BITS) \in 0 .. BITS - 1
  <1>1. BITS \in Nat \ {0} /\ LEN[r] \in Nat \ {0} /\ LEN[r] % BITS = 0
    BY Sizes
  <1>2. Bytes(r) \in Nat /\ Bytes(r) < MAXPACK /\ MAXPACK \in Nat
    BY Sizes
  <1>3. i \in Nat /\ LEN[r] - 1 - i \in Nat
    BY <1>1
  <1>4. (i \div BITS) \in Nat /\ (i % BITS) \in 0 .. BITS - 1
    BY <1>1, <1>3, Division
  <1>5. ByteOf(LEN[r], i) = Bytes(r) - 1 - (i \div BITS)
    BY <1>1, ByteCountsDown DEF ByteOf, Bytes
  <1>6. ByteOf(LEN[r], i) \in Nat
    BY <1>1, <1>3, Division DEF ByteOf
  <1>7. Mask(i) \in 0 .. BITS - 1
    BY <1>1, <1>4 DEF Mask
  <1> QED
    BY <1>2, <1>3, <1>4, <1>5, <1>6, <1>7

\* No two bits of a register share a place.
LEMMA OnePlace ==
  ASSUME NEW r \in Registers, NEW i \in 0 .. LEN[r] - 1, NEW j \in 0 .. LEN[r] - 1,
         ByteOf(LEN[r], i) = ByteOf(LEN[r], j), Mask(i) = Mask(j)
  PROVE  i = j
  <1>1. BITS \in Nat \ {0} /\ Bytes(r) \in Nat
    BY Sizes
  <1>2. /\ i \in Nat /\ (i \div BITS) \in Nat /\ (i % BITS) \in 0 .. BITS - 1
        /\ ByteOf(LEN[r], i) = Bytes(r) - 1 - (i \div BITS)
    BY Places
  <1>3. /\ j \in Nat /\ (j \div BITS) \in Nat /\ (j % BITS) \in 0 .. BITS - 1
        /\ ByteOf(LEN[r], j) = Bytes(r) - 1 - (j \div BITS)
    BY Places
  <1>4. i \div BITS = j \div BITS
    <2>1. PICK x \in Nat, y \in Nat : x = i \div BITS /\ y = j \div BITS
      BY <1>2, <1>3
    <2>2. Bytes(r) - 1 - x = Bytes(r) - 1 - y
      BY <1>2, <1>3, <2>1, Zenon
    <2>3. x = y
      BY <1>1, <2>2
    <2> QED
      BY <2>1, <2>3, Zenon
  <1>5. i % BITS = j % BITS
    BY <1>1, <1>2, <1>3 DEF Mask
  <1>6. i = BITS * (i \div BITS) + (i % BITS) /\ j = BITS * (j \div BITS) + (j % BITS)
    BY <1>1, <1>2, <1>3, Division
  <1> QED
    BY <1>4, <1>5, <1>6

\* What readbitstream makes of a text of the right length is the text.
LEMMA EncodedBit ==
  ASSUME NEW r \in Registers, NEW i \in 0 .. LEN[r] - 1,
         NEW text \in Seq(BOOLEAN), Len(text) = LEN[r]
  PROVE  ConfigGetBit(Encoded(text), LEN[r], i) <=> text[i + 1]
  <1> DEFINE y == ByteOf(LEN[r], i)
             Ones == {q \in 0 .. Len(text) - 1 :
                        text[q + 1] /\ y = (Len(text) - q - 1) \div BITS}
  <1>1. y \in 0 .. MAXPACK - 1
    BY Places
  <1>2. Encoded(text)[y] = {BITS - 1 - (p % BITS) : p \in Ones}
    BY <1>1 DEF Encoded
  <1>3. ASSUME NEW q \in 0 .. LEN[r] - 1
        PROVE  /\ (Len(text) - q - 1) \div BITS = ByteOf(LEN[r], q)
               /\ BITS - 1 - (q % BITS) = Mask(q)
    <2>1. Len(text) - q - 1 = LEN[r] - 1 - q
      BY <1>3, Sizes
    <2> QED
      BY <2>1 DEF ByteOf, Mask
  <1>4. ASSUME text[i + 1] PROVE Mask(i) \in Encoded(text)[y]
    <2>1. i \in Ones
      BY <1>3, <1>4
    <2> QED
      BY <1>2, <1>3, <2>1
  <1>5. ASSUME Mask(i) \in Encoded(text)[y] PROVE text[i + 1]
    <2>1. PICK q \in Ones : Mask(i) = BITS - 1 - (q % BITS)
      BY <1>2, <1>5
    <2>2. q \in 0 .. LEN[r] - 1 /\ Mask(i) = Mask(q) /\ y = ByteOf(LEN[r], q) /\ text[q + 1]
      BY <1>3, <2>1
    <2>3. i = q
      BY <2>2, OnePlace
    <2> QED
      BY <2>2, <2>3
  <1> QED
    BY <1>3, <1>4, <1>5 DEF ConfigGetBit

LEMMA SetBitGives ==
  ASSUME NEW r \in Registers, NEW i \in 0 .. LEN[r] - 1, NEW j \in 0 .. LEN[r] - 1,
         NEW buffer \in Buffers, NEW value \in BOOLEAN
  PROVE  /\ ConfigSetBit(buffer, LEN[r], i, value) \in Buffers
         /\ ConfigGetBit(ConfigSetBit(buffer, LEN[r], i, value), LEN[r], j)
              <=> IF i = j THEN value ELSE ConfigGetBit(buffer, LEN[r], j)
  <1> DEFINE new == ConfigSetBit(buffer, LEN[r], i, value)
             y == ByteOf(LEN[r], i)
             z == ByteOf(LEN[r], j)
  <1>1. y \in 0 .. MAXPACK - 1 /\ z \in 0 .. MAXPACK - 1 /\ Mask(i) \in 0 .. BITS - 1
    BY Places
  <1>2. new = [buffer EXCEPT ![y] = (buffer[y] \ {Mask(i)}) \cup IF value THEN {Mask(i)} ELSE {}]
    BY DEF ConfigSetBit
  <1>3. new \in Buffers
    BY <1>1, <1>2 DEF Buffers
  <1>4. new[z] = IF z = y THEN (buffer[y] \ {Mask(i)}) \cup (IF value THEN {Mask(i)} ELSE {})
                 ELSE buffer[z]
    BY <1>1, <1>2 DEF Buffers
  <1>5. CASE i = j
    BY <1>3, <1>4, <1>5 DEF ConfigGetBit
  <1>6. CASE i # j
    <2>1. z # y \/ Mask(j) # Mask(i)
      BY <1>6, OnePlace
    <2>2. Mask(j) \in new[z] <=> Mask(j) \in buffer[z]
      BY <1>4, <2>1
    <2> QED
      BY <1>3, <1>6, <2>2 DEF ConfigGetBit
  <1> QED
    BY <1>3, <1>5, <1>6

-----------------------------------------------------------------------------
(* The invariant.                                                           *)

ConfTypeOK ==
  /\ reading \in Registers \cup {"send", "refused", "configured"}
  /\ ascii \in Seq(BOOLEAN) /\ skip \in BOOLEAN /\ clean \in BOOLEAN
  /\ ptr \in Nat
  /\ conf \in [Registers -> Buffers] /\ board \in [Registers -> Buffers]
  /\ bits \in [Registers -> Seq(BOOLEAN)]

\* Before the second file nothing is known of its register.
SecondUntouched == reading = "SCR" => bits["PMR"] = <<>>

NothingLeft == reading \notin Registers => ascii = <<>>

IsRead(r) == reading = "send" \/ (reading = "PMR" /\ r = "SCR")

\* A register whose file was accepted is what readbitstream makes of its bits.
ReadIsEncoded ==
  \A r \in Registers : IsRead(r) => Len(bits[r]) = LEN[r] /\ conf[r] = Encoded(bits[r])

BoardKnown == reading = "configured" => \A r \in Registers : Len(bits[r]) = LEN[r]

ConfInv ==
  /\ ConfTypeOK /\ ReadAsWritten /\ SecondUntouched /\ NothingLeft
  /\ ReadIsEncoded /\ BoardKnown /\ BoardHasBits

LEMMA EncodedIsBuffer == \A text \in Seq(BOOLEAN) : Encoded(text) \in Buffers
  <1> SUFFICES ASSUME NEW text \in Seq(BOOLEAN) PROVE Encoded(text) \in Buffers
    OBVIOUS
  <1>1. ASSUME NEW p \in Nat PROVE BITS - 1 - (p % BITS) \in 0 .. BITS - 1
    <2>1. BITS \in Nat \ {0}
      BY BITSAssumption
    <2>2. (p % BITS) \in 0 .. BITS - 1
      BY <2>1, Division
    <2> QED
      BY <2>1, <2>2
  <1> QED
    BY <1>1 DEF Encoded, Buffers

LEMMA ZeroIsBuffer == Zero \in Buffers
  BY DEF Zero, Buffers

LEMMA TakenIsText ==
  ASSUME NEW text \in Seq(BOOLEAN), NEW c
  PROVE  Taken(text, c) \in Seq(BOOLEAN)
  <1>1. (c = "1") \in BOOLEAN
    OBVIOUS
  <1>2. Append(text, c = "1") \in Seq(BOOLEAN)
    BY <1>1
  <1> QED
    BY <1>2 DEF Taken

LEMMA ConfInitInv == ConfInit => ConfInv
  <1> SUFFICES ASSUME ConfInit PROVE ConfInv
    OBVIOUS
  <1>1. ConfTypeOK
    <2>1. <<>> \in Seq(BOOLEAN)
      OBVIOUS
    <2>2. bits \in [Registers -> Seq(BOOLEAN)]
      BY <2>1 DEF ConfInit
    <2>3. conf \in [Registers -> Buffers] /\ board \in [Registers -> Buffers]
      BY ZeroIsBuffer DEF ConfInit
    <2>4. reading \in Registers /\ skip \in BOOLEAN /\ clean \in BOOLEAN /\ ptr \in Nat
      BY DEF ConfInit
    <2>5. ascii \in Seq(BOOLEAN)
      BY <2>1 DEF ConfInit
    <2> QED
      BY <2>2, <2>3, <2>4, <2>5 DEF ConfTypeOK
  <1> QED
    BY <1>1 DEF ConfInit, ConfInv, ReadAsWritten, SecondUntouched, NothingLeft, ReadIsEncoded, IsRead,
                BoardKnown, BoardHasBits

\* What a board gets from the tool.
LEMMA ConfiguredBit ==
  ASSUME ConfTypeOK, ReadIsEncoded, configu, NEW r \in Registers, NEW i \in 0 .. LEN[r] - 1
  PROVE  ConfigGetBit(board'[r], LEN[r], i) <=> bits[r][i + 1]
  <1> DEFINE y == ByteOf(LEN[r], i)
  <1>1. /\ y \in 0 .. MAXPACK - 1 /\ y \in 0 .. Bytes(r) - 1
        /\ Bytes("SCR") \in Nat /\ Bytes("PMR") \in Nat
    BY Places, Sizes
  <1>2. board'[r][y] = ConfBuffer[Start(r) + y]
    BY <1>1 DEF configu
  <1>3. ConfBuffer[Start(r) + y] = conf[r][y]
    <2>1. CASE r = "SCR"
      BY <1>1, <2>1 DEF ConfBuffer, Start
    <2>2. CASE r = "PMR"
      <3>1. Bytes("SCR") + y \in 0 .. Bytes("SCR") + Bytes("PMR") - 1
        BY <1>1, <2>2
      <3>2. ~(Bytes("SCR") + y < Bytes("SCR")) /\ (Bytes("SCR") + y) - Bytes("SCR") = y
        BY <1>1, <2>2
      <3> QED
        BY <2>2, <3>1, <3>2 DEF ConfBuffer, Start
    <2> QED
      BY <2>1, <2>2
  <1>4. conf[r] = Encoded(bits[r]) /\ Len(bits[r]) = LEN[r] /\ bits[r] \in Seq(BOOLEAN)
    BY DEF configu, ReadIsEncoded, IsRead, ConfTypeOK
  <1>5. ConfigGetBit(Encoded(bits[r]), LEN[r], i) <=> bits[r][i + 1]
    BY <1>4, EncodedBit
  <1> QED
    BY <1>2, <1>3, <1>4, <1>5 DEF ConfigGetBit

LEMMA ConfNextInv == ConfInv /\ [ConfNext]_confvars => ConfInv'
  <1> SUFFICES ASSUME ConfInv, [ConfNext]_confvars PROVE ConfInv'
    OBVIOUS
  <1> USE DEF ConfInv
  <1>1. ASSUME NEW c \in {"0", "1", "space", "apostrophe", "newline", "letter"}, ReadChar(c)
        PROVE  ConfInv'
    <2> DEFINE isText == IsText(c)
               endOfPiece == c = "newline" \/ ptr + 1 = LINE
               read == IF isText \/ c = "space" THEN ascii ELSE Taken(ascii, c)
               proper == /\ clean
                         /\ c = "letter" => skip
                         /\ endOfPiece => c = "newline" /\ skip
    <2>1. /\ reading \in Registers /\ reading' = reading /\ conf' = conf /\ board' = board
          /\ ascii' = IF endOfPiece /\ ~isText THEN Taken(read, "NUL") ELSE read
          /\ ptr' = IF endOfPiece THEN 0 ELSE ptr + 1
          /\ skip' = (isText /\ ~endOfPiece)
          /\ clean' = proper
          /\ bits' = [bits EXCEPT ![reading] =
                        IF ~proper THEN <<>>
                        ELSE IF c \in {"0", "1"} /\ ~skip THEN Taken(@, c) ELSE @]
      BY <1>1, Zenon DEF ReadChar
    <2>2. read \in Seq(BOOLEAN) /\ Taken(read, "NUL") \in Seq(BOOLEAN)
      BY TakenIsText DEF ConfTypeOK
    <2>3. Taken(bits[reading], c) \in Seq(BOOLEAN) /\ bits[reading] \in Seq(BOOLEAN)
      BY <2>1, TakenIsText DEF ConfTypeOK
    <2>4. ConfTypeOK'
      <3>1. skip' \in BOOLEAN /\ clean' \in BOOLEAN
        BY <2>1, Zenon
      <3>2. ascii' \in Seq(BOOLEAN)
        BY <2>1, <2>2
      <3>3. bits' \in [Registers -> Seq(BOOLEAN)]
        <4>1. PICK t \in Seq(BOOLEAN) : bits' = [bits EXCEPT ![reading] = t]
          <5>1. <<>> \in Seq(BOOLEAN)
            OBVIOUS
          <5>2. bits' = [bits EXCEPT ![reading] =
                           IF ~proper THEN <<>>
                           ELSE IF c \in {"0", "1"} /\ ~skip THEN Taken(bits[reading], c)
                           ELSE bits[reading]]
            BY <2>1
          <5> QED
            BY <2>3, <5>1, <5>2
        <4> QED
          BY <4>1 DEF ConfTypeOK
      <3> QED
        BY <2>1, <3>1, <3>2, <3>3 DEF ConfTypeOK
    <2>5. ReadAsWritten'
      <3> SUFFICES ASSUME proper PROVE ascii' = bits'[reading]
        BY <2>1 DEF ReadAsWritten
      <3>1. ascii = bits[reading]
        BY <2>1 DEF ReadAsWritten
      <3>2. endOfPiece => isText
        BY DEF IsText
      <3>3. bits'[reading] = IF c \in {"0", "1"} /\ ~skip THEN Taken(bits[reading], c)
                             ELSE bits[reading]
        BY <2>1 DEF ConfTypeOK
      <3>4. ~(isText \/ c = "space") <=> c \in {"0", "1"} /\ ~skip
        BY DEF IsText
      <3> QED
        BY <2>1, <3>1, <3>2, <3>3, <3>4
    <2>6. SecondUntouched' /\ NothingLeft'
      BY <2>1 DEF SecondUntouched, NothingLeft, ConfTypeOK
    <2>7. ReadIsEncoded'
      BY <2>1 DEF ReadIsEncoded, IsRead, ConfTypeOK
    <2>8. BoardKnown' /\ BoardHasBits'
      BY <2>1 DEF BoardKnown, BoardHasBits
    <2> QED
      BY <2>4, <2>5, <2>6, <2>7, <2>8
  <1>2. CASE EndOfFile
    <2> DEFINE text == IF ptr > 0 /\ ~skip THEN Taken(ascii, "NUL") ELSE ascii
               proper == clean /\ (ptr > 0 => skip)
    <2>1. /\ reading \in Registers /\ board' = board
          /\ conf' = [conf EXCEPT ![reading] = Encoded(text)]
          /\ reading' = IF Len(text) # LEN[reading] THEN "refused"
                        ELSE IF reading = "SCR" THEN "PMR" ELSE "send"
          /\ bits' = IF proper THEN bits ELSE [bits EXCEPT ![reading] = text]
          /\ ascii' = <<>> /\ ptr' = 0 /\ skip' = FALSE /\ clean' = TRUE
      BY <1>2 DEF EndOfFile
    <2>2. text \in Seq(BOOLEAN)
      BY TakenIsText DEF ConfTypeOK
    <2>3. ConfTypeOK'
      <3>1. PICK buffer \in Buffers : conf' = [conf EXCEPT ![reading] = buffer]
        BY <2>1, <2>2, EncodedIsBuffer
      <3>2. conf' \in [Registers -> Buffers]
        BY <3>1 DEF ConfTypeOK
      <3>3. bits' \in [Registers -> Seq(BOOLEAN)]
        BY <2>1, <2>2 DEF ConfTypeOK
      <3>4. ascii' \in Seq(BOOLEAN) /\ ptr' \in Nat
        BY <2>1
      <3>5. skip' \in BOOLEAN /\ clean' \in BOOLEAN
        BY <2>1
      <3>6. reading' \in Registers \cup {"send", "refused"}
        BY <2>1
      <3> QED
        BY <2>1, <3>2, <3>3, <3>4, <3>5, <3>6 DEF ConfTypeOK
    <2>4. bits'[reading] = text
      <3>1. CASE proper
        BY <2>1, <3>1 DEF ReadAsWritten
      <3>2. CASE ~proper
        BY <2>1, <3>2 DEF ConfTypeOK
      <3> QED
        BY <3>1, <3>2
    <2>5. \A r \in Registers \ {reading} : bits'[r] = bits[r] /\ conf'[r] = conf[r]
      BY <2>1 DEF ConfTypeOK
    <2>6. conf'[reading] = Encoded(text)
      BY <2>1 DEF ConfTypeOK
    <2>7. ReadAsWritten' /\ SecondUntouched' /\ NothingLeft'
      BY <2>1, <2>5 DEF ReadAsWritten, SecondUntouched, NothingLeft
    <2>8. ReadIsEncoded'
      BY <2>1, <2>4, <2>5, <2>6 DEF ReadIsEncoded, IsRead
    <2>9. BoardKnown' /\ BoardHasBits'
      BY <2>1 DEF BoardKnown, BoardHasBits
    <2> QED
      BY <2>3, <2>7, <2>8, <2>9
  <1>3. CASE Again
    <2>1. reading' = "SCR" /\ bits' = [r \in Registers |-> <<>>] /\ board' = [r \in Registers |-> Zero]
          /\ conf' = [r \in Registers |-> Zero] /\ UNCHANGED <<ascii, ptr, skip, clean>>
          /\ reading \in {"refused", "configured"}
      BY <1>3 DEF Again
    <2>2. ConfTypeOK'
      <3>1. <<>> \in Seq(BOOLEAN)
        OBVIOUS
      <3>2. bits' \in [Registers -> Seq(BOOLEAN)]
        BY <2>1, <3>1
      <3>3. conf' \in [Registers -> Buffers] /\ board' \in [Registers -> Buffers]
        BY <2>1, ZeroIsBuffer
      <3> QED
        BY <2>1, <3>2, <3>3 DEF ConfTypeOK
    <2>3. ascii = <<>>
      BY <2>1 DEF NothingLeft
    <2>4. ReadAsWritten' /\ SecondUntouched' /\ NothingLeft'
      BY <2>1, <2>3 DEF ReadAsWritten, SecondUntouched, NothingLeft
    <2>5. ReadIsEncoded' /\ BoardKnown' /\ BoardHasBits'
      BY <2>1 DEF ReadIsEncoded, IsRead, BoardKnown, BoardHasBits
    <2> QED
      BY <2>2, <2>4, <2>5
  <1>4. CASE configu
    <2>1. /\ reading' = "configured" /\ UNCHANGED <<ascii, ptr, skip, clean, bits>>
          /\ board' = [r \in Registers |->
                         [y \in 0 .. MAXPACK - 1 |->
                            IF y < Bytes(r) THEN ConfBuffer[Start(r) + y] ELSE board[r][y]]]
          /\ conf' = [r \in Registers |-> Zero]
      BY <1>4 DEF configu
    <2>2. board' \in [Registers -> Buffers]
      <3> SUFFICES ASSUME NEW r \in Registers, NEW y \in 0 .. MAXPACK - 1, y < Bytes(r)
                   PROVE  ConfBuffer[Start(r) + y] \in SUBSET (0 .. BITS - 1)
        BY <2>1 DEF ConfTypeOK, Buffers
      <3>1. /\ Bytes("SCR") \in Nat /\ Bytes("PMR") \in Nat /\ MAXPACK \in Nat
            /\ Bytes("SCR") < MAXPACK /\ Bytes("PMR") < MAXPACK
        BY Sizes
      <3>2. PICK z \in 0 .. MAXPACK - 1, q \in Registers : ConfBuffer[Start(r) + y] = conf[q][z]
        <4>1. CASE r = "SCR"
          <5>1. y \in 0 .. Bytes("SCR") + Bytes("PMR") - 1 /\ Start(r) + y = y /\ y < Bytes("SCR")
            BY <3>1, <4>1 DEF Start
          <5>2. ConfBuffer[y] = conf["SCR"][y]
            BY <5>1 DEF ConfBuffer
          <5> QED
            BY <5>1, <5>2
        <4>2. CASE r = "PMR"
          <5>1. /\ Bytes("SCR") + y \in 0 .. Bytes("SCR") + Bytes("PMR") - 1
                /\ ~(Bytes("SCR") + y < Bytes("SCR")) /\ (Bytes("SCR") + y) - Bytes("SCR") = y
                /\ Start(r) = Bytes("SCR")
            BY <3>1, <4>2 DEF Start
          <5>2. ConfBuffer[Bytes("SCR") + y] = conf["PMR"][y]
            BY <5>1 DEF ConfBuffer
          <5> QED
            BY <5>1, <5>2
        <4> QED
          BY <4>1, <4>2
      <3> QED
        BY <3>2 DEF ConfTypeOK, Buffers
    <2>3. ConfTypeOK'
      BY <2>1, <2>2, ZeroIsBuffer DEF ConfTypeOK
    <2>4. BoardKnown'
      BY <1>4, <2>1 DEF configu, BoardKnown, ReadIsEncoded, IsRead
    <2>5. BoardHasBits'
      <3> SUFFICES ASSUME NEW r \in Registers, NEW i \in 0 .. LEN[r] - 1
                   PROVE  ConfigGetBit(board'[r], LEN[r], i) = bits'[r][i + 1]
        BY DEF BoardHasBits, ConfigGetBit, ByteOf, Mask
      <3>1. ConfigGetBit(board'[r], LEN[r], i) <=> bits[r][i + 1]
        BY <1>4, ConfiguredBit
      <3>2. bits[r][i + 1] \in BOOLEAN
        <4>1. Len(bits[r]) = LEN[r] /\ bits[r] \in Seq(BOOLEAN)
          BY <1>4 DEF configu, ReadIsEncoded, IsRead, ConfTypeOK
        <4>2. i + 1 \in 1 .. Len(bits[r])
          BY <4>1, Sizes
        <4> QED
          BY <4>1, <4>2
      <3> QED
        BY <2>1, <3>1, <3>2 DEF ConfigGetBit
    <2>6. ReadAsWritten' /\ SecondUntouched' /\ NothingLeft' /\ ReadIsEncoded'
      BY <1>4, <2>1 DEF configu, ReadAsWritten, SecondUntouched, NothingLeft, ReadIsEncoded, IsRead
    <2> QED
      BY <2>3, <2>4, <2>5, <2>6
  <1>5. ASSUME NEW r \in Registers, NEW value \in BOOLEAN, NEW i \in 0 .. LEN[r] - 1,
               SetBit(r, i, value)
        PROVE  ConfInv'
    <2> DEFINE new == ConfigSetBit(board[r], LEN[r], i, value)
    <2>1. /\ reading = "configured" /\ UNCHANGED <<reading, ascii, ptr, skip, conf, clean>>
          /\ board' = [board EXCEPT ![r] = new]
          /\ bits' = [bits EXCEPT ![r][i + 1] = value]
      BY <1>5 DEF SetBit
    <2>2. /\ board[r] \in Buffers /\ bits[r] \in Seq(BOOLEAN) /\ Len(bits[r]) = LEN[r]
          /\ i + 1 \in 1 .. Len(bits[r])
      BY <2>1, Sizes DEF ConfTypeOK, BoardKnown
    <2>3. new \in Buffers
      BY <2>2, SetBitGives
    <2>4. PICK text \in Seq(BOOLEAN) : text = [bits[r] EXCEPT ![i + 1] = value]
      <3>1. PICK s \in Seq(BOOLEAN), n \in Nat :
              s = bits[r] /\ n = i + 1 /\ n \in 1 .. Len(s)
        BY <2>2
      <3>2. [s EXCEPT ![n] = value] \in Seq(BOOLEAN)
        BY <3>1, ExceptSeq
      <3> QED
        BY <3>1, <3>2
    <2>5. /\ Len(text) = LEN[r]
          /\ \A j \in 0 .. LEN[r] - 1 : text[j + 1] = IF i = j THEN value ELSE bits[r][j + 1]
      BY <2>2, <2>4, Sizes
    <2>6. bits' = [bits EXCEPT ![r] = text]
      BY <2>1, <2>4 DEF ConfTypeOK
    <2>7. /\ bits'[r] = text /\ board'[r] = new
          /\ \A q \in Registers \ {r} : bits'[q] = bits[q] /\ board'[q] = board[q]
      BY <2>1, <2>6 DEF ConfTypeOK
    <2>8. ConfTypeOK'
      <3>1. board' \in [Registers -> Buffers]
        BY <2>1, <2>3 DEF ConfTypeOK
      <3>2. bits' \in [Registers -> Seq(BOOLEAN)]
        BY <2>6 DEF ConfTypeOK
      <3> QED
        BY <2>1, <3>1, <3>2 DEF ConfTypeOK
    <2>9. BoardKnown'
      BY <2>1, <2>5, <2>7 DEF BoardKnown
    <2>10. BoardHasBits'
      <3> SUFFICES ASSUME NEW q \in Registers, NEW j \in 0 .. LEN[q] - 1
                   PROVE  ConfigGetBit(board'[q], LEN[q], j) = bits'[q][j + 1]
        BY DEF BoardHasBits, ConfigGetBit, ByteOf, Mask
      <3>1. ConfigGetBit(board[q], LEN[q], j) = bits[q][j + 1]
        BY <2>1 DEF BoardHasBits
      <3>2. CASE q # r
        BY <2>7, <3>1, <3>2
      <3>3. CASE q = r
        <4>1. ConfigGetBit(new, LEN[r], j)
                <=> IF i = j THEN value ELSE ConfigGetBit(board[r], LEN[r], j)
          BY <2>2, <3>3, SetBitGives
        <4>2. ConfigGetBit(new, LEN[r], j) \in BOOLEAN
          BY DEF ConfigGetBit
        <4>3. text[j + 1] = IF i = j THEN value ELSE bits[r][j + 1]
          BY <2>5, <3>3
        <4>4. CASE i = j
          BY <2>7, <3>3, <4>1, <4>2, <4>3, <4>4
        <4>5. CASE i # j
          BY <2>7, <3>1, <3>3, <4>1, <4>2, <4>3, <4>5 DEF ConfigGetBit
        <4> QED
          BY <4>4, <4>5
      <3> QED
        BY <3>2, <3>3
    <2>11. ReadAsWritten' /\ SecondUntouched' /\ NothingLeft' /\ ReadIsEncoded'
      BY <2>1 DEF ReadAsWritten, SecondUntouched, NothingLeft, ReadIsEncoded, IsRead
    <2> QED
      BY <2>8, <2>9, <2>10, <2>11
  <1>6. CASE UNCHANGED confvars
    BY <1>6 DEF confvars, ConfTypeOK, ReadAsWritten, SecondUntouched, NothingLeft, ReadIsEncoded, IsRead,
                BoardKnown, BoardHasBits
  <1> QED
    BY <1>1, <1>2, <1>3, <1>4, <1>5, <1>6 DEF ConfNext

\* readbitstream takes exactly the bits before the apostrophes of a proper file,
\* however long its lines are and at whatever place fgets cuts them.
THEOREM BitsReadAsWritten == ConfSpec => []ReadAsWritten
  <1>1. ConfInv => ReadAsWritten
    BY DEF ConfInv
  <1> QED
    BY <1>1, ConfInitInv, ConfNextInv, PTL DEF ConfSpec

\* From the accepted files through the tool's buffers, the request, the driver's
\* buffers and any number of bits set afterwards, every bit stays the one that was
\* read or set last: for bytes and registers of any size that fit in MAXPACKLEN.
THEOREM BoardKeepsBits == ConfSpec => []BoardHasBits
  <1>1. ConfInv => BoardHasBits
    BY DEF ConfInv
  <1> QED
    BY <1>1, ConfInitInv, ConfNextInv, PTL DEF ConfSpec

-----------------------------------------------------------------------------
(* Recursive functions.                                                     *)

\* A set of numbers has a least one; this is all the induction that is used.
LEMMA Least ==
  ASSUME NEW T, T \subseteq Nat, T # {}
  PROVE  \E n \in T : \A m \in T : n <= m
  <1>1. PICK n \in T : \A m \in T : ~(<<m, n>> \in OpToRel(<, Nat))
    BY NatLessThanWellFounded, WFMin
  <1>2. \A m \in T : ~(m < n)
    BY <1>1 DEF OpToRel
  <1> QED
    BY <1>2

LEMMA Induction ==
  ASSUME NEW T, 0 \in T, \A n \in Nat : n \in T => n + 1 \in T
  PROVE  \A n \in Nat : n \in T
  <1> SUFFICES ASSUME Nat \ T # {} PROVE FALSE
    OBVIOUS
  <1>1. PICK n \in Nat \ T : \A m \in Nat \ T : n <= m
    BY Least, Nat \ T \subseteq Nat
  <1>2. n # 0 /\ n - 1 \in Nat
    BY <1>1
  <1>3. n - 1 \in T
    BY <1>1, <1>2
  <1>4. n - 1 + 1 \in T
    BY <1>2, <1>3
  <1> QED
    BY <1>1, <1>4

\* Recursion over the numbers defines a function.
Repeats(f, V, v, G) ==
  f \in [Nat -> V] /\ f[0] = v /\ \A n \in Nat : f[n + 1] = G[n][f[n]]

LEMMA Recursion ==
  ASSUME NEW V, NEW v, v \in V, NEW G, G \in [Nat -> [V -> V]]
  PROVE  \E f : Repeats(f, V, v, G)
  <1> DEFINE Part(f, n) == /\ f \in [0 .. n -> V] /\ f[0] = v
                           /\ \A m \in 0 .. n - 1 : f[m + 1] = G[m][f[m]]
  <1>1. \A n \in Nat : \E f : Part(f, n)
    <2> DEFINE T == {n \in Nat : \E f : Part(f, n)}
    <2>1. 0 \in T
      <3>1. Part([i \in 0 .. 0 |-> v], 0)
        OBVIOUS
      <3> QED
        BY <3>1
    <2>2. ASSUME NEW n \in Nat, n \in T PROVE n + 1 \in T
      <3>1. PICK f : Part(f, n)
        BY <2>2
      <3> DEFINE g == [i \in 0 .. n + 1 |-> IF i = n + 1 THEN G[n][f[n]] ELSE f[i]]
      <3>2. g \in [0 .. n + 1 -> V] /\ g[0] = v
        BY <3>1
      <3>3. ASSUME NEW m \in 0 .. (n + 1) - 1 PROVE g[m + 1] = G[m][g[m]]
        BY <3>1
      <3>4. Part(g, n + 1)
        BY <3>2, <3>3
      <3> HIDE DEF g, Part
      <3> QED
        BY <3>4
    <2> HIDE DEF T
    <2>3. \A n \in Nat : n \in T
      BY <2>1, <2>2, Induction
    <2> QED
      BY <2>3 DEF T
  <1>2. ASSUME NEW n \in Nat, NEW f, NEW g, Part(f, n), Part(g, n + 1)
        PROVE  f[n] = g[n]
    <2> DEFINE T == {i \in Nat : i <= n => f[i] = g[i]}
    <2>1. 0 \in T
      BY <1>2
    <2>2. ASSUME NEW i \in Nat, i \in T PROVE i + 1 \in T
      <3>1. i + 1 <= n => /\ f[i + 1] = G[i][f[i]] /\ g[i + 1] = G[i][g[i]]
        BY <1>2
      <3> QED
        BY <2>2, <3>1
    <2> HIDE DEF T
    <2>3. n \in T
      BY <2>1, <2>2, Induction
    <2> QED
      BY <2>3 DEF T
  <1> DEFINE c(n) == CHOOSE f : Part(f, n)
             F == [n \in Nat |-> c(n)[n]]
  <1>3. \A n \in Nat : Part(c(n), n)
    <2> HIDE DEF Part
    <2> QED
      BY <1>1
  <1> HIDE DEF c
  <1>4. F \in [Nat -> V]
    BY <1>3
  <1>5. F[0] = v
    BY <1>3
  <1>6. ASSUME NEW n \in Nat PROVE F[n + 1] = G[n][F[n]]
    <2>1. Part(c(n), n) /\ Part(c(n + 1), n + 1)
      BY <1>3
    <2>2. c(n)[n] = c(n + 1)[n]
      <3> HIDE DEF Part
      <3> QED
        BY <2>1, <1>2
    <2>3. c(n + 1)[n + 1] = G[n][c(n + 1)[n]]
      BY <2>1
    <2> QED
      BY <2>2, <2>3
  <1> HIDE DEF F
  <1> QED
    BY <1>4, <1>5, <1>6 DEF Repeats

LEMMA PowerDef ==
  /\ Power \in [Nat -> Nat \ {0}] /\ Power[0] = 1
  /\ \A n \in Nat : Power[n + 1] = 2 * Power[n]
  <1> DEFINE V == Nat \ {0}
             G == [n \in Nat |-> [x \in V |-> 2 * x]]
  <1>1. 1 \in V
    OBVIOUS
  <1>2. G \in [Nat -> [V -> V]]
    OBVIOUS
  <1>3. PICK f : Repeats(f, V, 1, G)
    <2> HIDE DEF G, V
    <2> QED
      BY <1>1, <1>2, Recursion, Zenon
  <1>4. ASSUME NEW n \in Nat, n # 0 PROVE f[n] = 2 * f[n - 1]
    <2>1. n - 1 \in Nat /\ (n - 1) + 1 = n
      BY <1>4
    <2>2. f[(n - 1) + 1] = G[n - 1][f[n - 1]]
      BY <1>3, <2>1 DEF Repeats
    <2> QED
      BY <1>3, <2>1, <2>2 DEF Repeats
  <1>5. f = [n \in Nat |-> IF n = 0 THEN 1 ELSE 2 * f[n - 1]]
    BY <1>3, <1>4 DEF Repeats
  <1>6. Power = [n \in Nat |-> IF n = 0 THEN 1 ELSE 2 * Power[n - 1]]
    BY <1>5, Zenon DEF Power
  <1>7. Power[0] = 1
    BY <1>6
  <1>8. \A n \in Nat : Power[n + 1] = 2 * Power[n]
    BY <1>6
  <1>9. \A n \in Nat : n \in {m \in Nat : Power[m] \in V}
    <2> DEFINE T == {m \in Nat : Power[m] \in V}
    <2>1. 0 \in T
      BY <1>7
    <2>2. \A n \in Nat : n \in T => n + 1 \in T
      BY <1>8
    <2> HIDE DEF T
    <2> QED
      BY <2>1, <2>2, Induction DEF T
  <1>10. \A n \in Nat : Power[n] \in V
    BY <1>9
  <1>11. Power \in [Nat -> V]
    BY <1>6, <1>10
  <1> QED
    BY <1>7, <1>8, <1>11

\* The sums of the digits of a word.
Sums(sum, w) ==
  /\ sum \in [Nat -> Nat] /\ sum[0] = 0
  /\ \A k \in Nat : sum[k + 1] = sum[k] + (IF k \in w THEN Power[k] ELSE 0)

LEMMA NumberIs ==
  ASSUME NEW w
  PROVE  \E sum : Sums(sum, w) /\ Number(w) = sum[WORD]
  <1> DEFINE G == [k \in Nat |-> [x \in Nat |-> x + (IF k \in w THEN Power[k] ELSE 0)]]
             sum == CHOOSE s : s = [k \in Nat |-> IF k = 0 THEN 0
                       ELSE s[k - 1] + (IF k - 1 \in w THEN Power[k - 1] ELSE 0)]
  <1>1. 0 \in Nat
    OBVIOUS
  <1>2. G \in [Nat -> [Nat -> Nat]]
    BY PowerDef
  <1>3. PICK f : Repeats(f, Nat, 0, G)
    <2> HIDE DEF G
    <2> QED
      BY <1>1, <1>2, Recursion, Zenon
  <1>4. ASSUME NEW n \in Nat, n # 0
        PROVE  f[n] = f[n - 1] + (IF n - 1 \in w THEN Power[n - 1] ELSE 0)
    <2>1. n - 1 \in Nat /\ (n - 1) + 1 = n
      BY <1>4
    <2>2. f[(n - 1) + 1] = G[n - 1][f[n - 1]]
      BY <1>3, <2>1 DEF Repeats
    <2>3. f[n - 1] \in Nat
      BY <1>3, <2>1 DEF Repeats
    <2> QED
      BY <2>1, <2>2, <2>3
  <1>5. f = [k \in Nat |-> IF k = 0 THEN 0
                           ELSE f[k - 1] + (IF k - 1 \in w THEN Power[k - 1] ELSE 0)]
    BY <1>3, <1>4 DEF Repeats
  <1>6. sum = [k \in Nat |-> IF k = 0 THEN 0
                             ELSE sum[k - 1] + (IF k - 1 \in w THEN Power[k - 1] ELSE 0)]
    BY <1>5, Zenon
  <1>7. Number(w) = sum[WORD]
    BY Zenon DEF Number
  <1> HIDE DEF sum
  <1>8. sum[0] = 0
    BY <1>6
  <1>9. \A k \in Nat : sum[k + 1] = sum[k] + (IF k \in w THEN Power[k] ELSE 0)
    BY <1>6
  <1>10. \A n \in Nat : n \in {m \in Nat : sum[m] \in Nat}
    <2> DEFINE T == {m \in Nat : sum[m] \in Nat}
    <2>1. 0 \in T
      BY <1>8
    <2>2. \A n \in Nat : n \in T => n + 1 \in T
      BY <1>9, PowerDef
    <2> HIDE DEF T
    <2> QED
      BY <2>1, <2>2, Induction DEF T
  <1>11. sum \in [Nat -> Nat]
    BY <1>6, <1>10
  <1> QED
    BY <1>7, <1>8, <1>9, <1>11 DEF Sums

\* The bits GrayToBin computes.
LEMMA BinaryIs ==
  ASSUME NEW n
  PROVE  /\ Binary(n) \in [Nat -> BOOLEAN] /\ Binary(n)[0] = (WORD - 1 \in n)
         /\ \A i \in Nat : Binary(n)[i + 1] =
              IF WORD - 1 - (i + 1) \in n THEN ~Binary(n)[i] ELSE Binary(n)[i]
  <1> DEFINE v == WORD - 1 \in n
             G == [i \in Nat |-> [x \in BOOLEAN |->
                     IF WORD - 1 - (i + 1) \in n THEN ~x ELSE x]]
             b == CHOOSE b : b = [i \in Nat |->
                     IF i = 0 THEN WORD - 1 \in n
                     ELSE IF WORD - 1 - i \in n THEN ~b[i - 1] ELSE b[i - 1]]
  <1>1. v \in BOOLEAN
    OBVIOUS
  <1>2. G \in [Nat -> [BOOLEAN -> BOOLEAN]]
    OBVIOUS
  <1>3. PICK f : Repeats(f, BOOLEAN, v, G)
    <2> HIDE DEF G, v
    <2> QED
      BY <1>1, <1>2, Recursion, Zenon
  <1>4. ASSUME NEW i \in Nat, i # 0
        PROVE  f[i] = IF WORD - 1 - i \in n THEN ~f[i - 1] ELSE f[i - 1]
    <2>1. i - 1 \in Nat /\ (i - 1) + 1 = i
      BY <1>4
    <2>2. f[(i - 1) + 1] = G[i - 1][f[i - 1]]
      BY <1>3, <2>1 DEF Repeats
    <2>3. f[i - 1] \in BOOLEAN
      BY <1>3, <2>1 DEF Repeats
    <2> QED
      BY <2>1, <2>2, <2>3, Zenon
  <1>5. f = [i \in Nat |-> IF i = 0 THEN WORD - 1 \in n
                           ELSE IF WORD - 1 - i \in n THEN ~f[i - 1] ELSE f[i - 1]]
    BY <1>3, <1>4 DEF Repeats
  <1>6. b = [i \in Nat |-> IF i = 0 THEN WORD - 1 \in n
                           ELSE IF WORD - 1 - i \in n THEN ~b[i - 1] ELSE b[i - 1]]
    BY <1>5, Zenon
  <1>7. Binary(n) = b
    BY Zenon DEF Binary
  <1> HIDE DEF b
  <1>8. b[0] = (WORD - 1 \in n)
    BY <1>6
  <1>9. \A i \in Nat : b[i + 1] = IF WORD - 1 - (i + 1) \in n THEN ~b[i] ELSE b[i]
    BY <1>6
  <1>10. \A i \in Nat : i \in {m \in Nat : b[m] \in BOOLEAN}
    <2> DEFINE T == {m \in Nat : b[m] \in BOOLEAN}
    <2>3. b[0] \in BOOLEAN
      <3>1. (WORD - 1 \in n) \in BOOLEAN
        OBVIOUS
      <3> QED
        BY <1>8, <3>1, Zenon
    <2>4. ASSUME NEW i \in Nat, b[i] \in BOOLEAN PROVE b[i + 1] \in BOOLEAN
      <3>1. CASE WORD - 1 - (i + 1) \in n
        <4>1. b[i + 1] = ~b[i]
          BY <1>9, <3>1, Zenon
        <4> QED
          BY <4>1, Zenon
      <3>2. CASE WORD - 1 - (i + 1) \notin n
        <4>1. b[i + 1] = b[i]
          BY <1>9, <3>2, Zenon
        <4> QED
          BY <2>4, <4>1, Zenon
      <3> QED
        BY <3>1, <3>2
    <2>1. 0 \in T
      BY <2>3
    <2>2. \A i \in Nat : i \in T => i + 1 \in T
      BY <2>4
    <2> HIDE DEF T
    <2> QED
      BY <2>1, <2>2, Induction DEF T
  <1>11. b \in [Nat -> BOOLEAN]
    BY <1>6, <1>10
  <1> QED
    BY <1>7, <1>8, <1>9, <1>11, Zenon

\* The words Time() computes.
LEMMA FoldedIs ==
  ASSUME NEW n, n \in Words
  PROVE  \E temp \in [Nat -> Words] :
           /\ temp[0] = n /\ Folded(n) = temp[LOG]
           /\ \A k \in Nat :
                temp[k + 1] = Xor(temp[k], ShiftedRight(temp[k], Power[LOG - (k + 1)]))
  <1> DEFINE G == [k \in Nat |-> [x \in Words |->
                     Xor(x, ShiftedRight(x, Power[LOG - (k + 1)]))]]
             temp == CHOOSE t : t = [k \in Nat |-> IF k = 0 THEN n
                       ELSE Xor(t[k - 1], ShiftedRight(t[k - 1], Power[LOG - k]))]
  <1>1. \A s : \A x \in Words : Xor(x, ShiftedRight(x, s)) \in Words
    BY DEF Xor, ShiftedRight, Words
  <1>2. G \in [Nat -> [Words -> Words]]
    <2> HIDE DEF Words
    <2> QED
      BY <1>1
  <1>3. PICK f : Repeats(f, Words, n, G)
    <2> HIDE DEF G
    <2> QED
      BY <1>2, Recursion, Zenon
  <1>4. ASSUME NEW k \in Nat, k # 0
        PROVE  f[k] = Xor(f[k - 1], ShiftedRight(f[k - 1], Power[LOG - k]))
    <2>1. k - 1 \in Nat /\ (k - 1) + 1 = k
      BY <1>4
    <2>2. f[(k - 1) + 1] = G[k - 1][f[k - 1]]
      BY <1>3, <2>1 DEF Repeats
    <2>3. f[k - 1] \in Words
      BY <1>3, <2>1 DEF Repeats
    <2> QED
      BY <2>1, <2>2, <2>3, Zenon
  <1>5. f = [k \in Nat |-> IF k = 0 THEN n
                           ELSE Xor(f[k - 1], ShiftedRight(f[k - 1], Power[LOG - k]))]
    BY <1>3, <1>4 DEF Repeats
  <1>6. temp = [k \in Nat |-> IF k = 0 THEN n
                              ELSE Xor(temp[k - 1], ShiftedRight(temp[k - 1], Power[LOG - k]))]
    BY <1>5, Zenon
  <1>7. Folded(n) = temp[LOG]
    BY Zenon DEF Folded
  <1> HIDE DEF temp
  <1>8. temp[0] = n
    BY <1>6
  <1>9. \A k \in Nat : temp[k + 1] = Xor(temp[k], ShiftedRight(temp[k], Power[LOG - (k + 1)]))
    BY <1>6
  <1>10. \A k \in Nat : k \in {m \in Nat : temp[m] \in Words}
    <2> DEFINE T == {m \in Nat : temp[m] \in Words}
    <2>1. 0 \in T
      BY <1>8
    <2>2. \A k \in Nat : k \in T => k + 1 \in T
      BY <1>1, <1>9
    <2> HIDE DEF T
    <2> QED
      BY <2>1, <2>2, Induction DEF T
  <1>11. temp \in [Nat -> Words]
    BY <1>6, <1>10
  <1> QED
    BY <1>7, <1>8, <1>9, <1>11

-----------------------------------------------------------------------------
(* Decoding.                                                                *)

LEMMA Widths ==
  /\ WORD \in Nat /\ WRAP \in Nat \ {0}
  /\ LOG \in Nat /\ RAW \in Nat /\ RAW >= 3 /\ RAW <= WORD - 2 /\ DRIFT \in Nat /\ DRIFT < WRAP
  <1>1. WORD \in Nat
    BY WidthAssumption, PowerDef DEF WORD
  <1>2. RAW \in Nat /\ RAW >= 3 /\ RAW <= WORD - 2
    BY <1>1, WidthAssumption
  <1>3. WRAP \in Nat \ {0}
    BY <1>2, PowerDef DEF WRAP
  <1> QED
    BY <1>1, <1>2, <1>3, WidthAssumption, DriftAssumption

\* A word of m bits is less than the m-th power of two.
LEMMA NumberBound ==
  ASSUME NEW w, NEW m \in Nat, m <= WORD, w \subseteq 0 .. m - 1
  PROVE  Number(w) \in 0 .. Power[m] - 1
  <1>0. PICK sum : Sums(sum, w) /\ Number(w) = sum[WORD]
    BY NumberIs
  <1>1. /\ sum \in [Nat -> Nat] /\ sum[0] = 0 /\ Number(w) = sum[WORD]
        /\ \A k \in Nat : sum[k + 1] = sum[k] + (IF k \in w THEN Power[k] ELSE 0)
    BY <1>0 DEF Sums
  <1>2. \A k \in Nat : k \in {n \in Nat : sum[n] < Power[n]}
    <2> DEFINE T == {n \in Nat : sum[n] < Power[n]}
    <2>1. 0 \in T
      BY <1>1, PowerDef
    <2>2. ASSUME NEW k \in Nat, k \in T PROVE k + 1 \in T
      <3>1. sum[k] \in Nat /\ Power[k] \in Nat
        BY <1>1, PowerDef
      <3>2. sum[k + 1] = sum[k] + Power[k] \/ sum[k + 1] = sum[k] + 0
        BY <1>1
      <3>3. Power[k + 1] = 2 * Power[k]
        BY PowerDef
      <3> QED
        BY <2>2, <3>1, <3>2, <3>3
    <2> HIDE DEF T
    <2> QED
      BY <2>1, <2>2, Induction DEF T
  <1>3. \A k \in Nat : k \in {n \in Nat : n >= m => sum[n] = sum[m]}
    <2> DEFINE T == {n \in Nat : n >= m => sum[n] = sum[m]}
    <2>1. 0 \in T
      OBVIOUS
    <2>2. ASSUME NEW k \in Nat, k \in T PROVE k + 1 \in T
      <3>1. CASE k >= m
        <4>1. k \notin w
          BY <3>1
        <4> QED
          BY <1>1, <2>2, <3>1, <4>1
      <3>2. CASE k < m
        BY <3>2
      <3> QED
        BY <3>1, <3>2
    <2> HIDE DEF T
    <2> QED
      BY <2>1, <2>2, Induction DEF T
  <1>4. WORD \in Nat
    BY Widths
  <1>5. sum[WORD] = sum[m]
    BY <1>3, <1>4
  <1>6. sum[m] < Power[m] /\ sum[m] \in Nat /\ Power[m] \in Nat
    BY <1>1, <1>2, PowerDef
  <1> QED
    BY <1>1, <1>5, <1>6

\* A word is given, from place m on, by where neighbours differ.
LEMMA SameAbove ==
  ASSUME NEW m \in Nat, NEW a \in Words, NEW c \in Words,
         \A p \in m .. WORD - 1 : (p \in a <=> p + 1 \in a) <=> (p \in c <=> p + 1 \in c)
  PROVE  \A p \in m .. WORD - 1 : p \in a <=> p \in c
  <1> DEFINE T == {q \in Nat : q <= WORD - 1 - m /\ ~(WORD - 1 - q \in a <=> WORD - 1 - q \in c)}
  <1>1. WORD \in Nat
    BY Widths
  <1>2. T = {}
    <2> SUFFICES ASSUME T # {} PROVE FALSE
      OBVIOUS
    <2>1. PICK q \in T : \A r \in T : q <= r
      <3>1. T \subseteq Nat
        OBVIOUS
      <3> HIDE DEF T
      <3> QED
        BY <3>1, Least
    <2>2. PICK p \in m .. WORD - 1 : p = WORD - 1 - q
      BY <1>1
    <2>3. p + 1 \in a <=> p + 1 \in c
      <3>1. CASE q = 0
        <4>1. p + 1 = WORD
          BY <1>1, <2>2, <3>1
        <4>2. WORD \notin a /\ WORD \notin c
          BY <1>1 DEF Words
        <4> QED
          BY <4>1, <4>2
      <3>2. CASE q # 0
        <4>1. q - 1 \in Nat /\ ~(q <= q - 1) /\ q - 1 <= WORD - 1 - m
          BY <1>1, <3>2
        <4>2. q - 1 \notin T
          BY <2>1, <4>1
        <4>3. WORD - 1 - (q - 1) = p + 1
          BY <1>1, <2>2
        <4> QED
          BY <4>1, <4>2, <4>3
      <3> QED
        BY <3>1, <3>2
    <2>4. p \in a <=> p \in c
      BY <2>2, <2>3
    <2> QED
      BY <2>2, <2>4
  <1>3. ASSUME NEW p \in m .. WORD - 1 PROVE p \in a <=> p \in c
    <2>1. WORD - 1 - p \in Nat /\ WORD - 1 - p <= WORD - 1 - m
          /\ WORD - 1 - (WORD - 1 - p) = p
      BY <1>1
    <2>2. WORD - 1 - p \notin T
      BY <1>2
    <2> HIDE DEF T
    <2>3. ~(WORD - 1 - p \in T) => (WORD - 1 - (WORD - 1 - p) \in a <=> WORD - 1 - (WORD - 1 - p) \in c)
      BY <2>1 DEF T
    <2> QED
      BY <2>1, <2>2, <2>3
  <1> QED
    BY <1>3

\* What the Gray code of a number has at a place: whether the number's digits
\* at the place and the next one differ.
Decodes(g, n) == \A p \in 0 .. WORD - 1 : p \in n <=> (p \in g <=> p + 1 \notin g)

LEMMA GrayToBinDecodes ==
  ASSUME NEW n \in Words
  PROVE  GrayToBin(n) \in Words /\ Decodes(GrayToBin(n), n)
  <1> DEFINE g == GrayToBin(n)
  <1>1. PICK b : b = Binary(n)
    OBVIOUS
  <1>2. g = {p \in 0 .. WORD - 1 : b[WORD - 1 - p]}
    BY <1>1 DEF GrayToBin
  <1>3. /\ b \in [Nat -> BOOLEAN] /\ b[0] = (WORD - 1 \in n)
        /\ \A i \in Nat : b[i + 1] = IF WORD - 1 - (i + 1) \in n THEN ~b[i] ELSE b[i]
    BY <1>1, BinaryIs, Zenon
  <1>4. WORD \in Nat
    BY Widths
  <1> HIDE DEF g
  <1>5. ASSUME NEW p \in 0 .. WORD - 1 PROVE p \in n <=> (p \in g <=> p + 1 \notin g)
    <2>1. PICK i \in Nat : i = WORD - 1 - p
      BY <1>4
    <2>2. p \in g <=> b[i]
      BY <1>2, <2>1
    <2>3. CASE i = 0
      <3>1. p = WORD - 1 /\ p + 1 \notin g
        BY <1>2, <1>4, <2>1, <2>3
      <3>2. b[i] <=> p \in n
        BY <1>3, <2>3, <3>1, Zenon
      <3> QED
        BY <2>2, <3>1, <3>2
    <2>4. CASE i # 0
      <3>1. PICK j \in Nat : i = j + 1
        BY <2>4
      <3>2. p + 1 \in 0 .. WORD - 1 /\ WORD - 1 - (p + 1) = j /\ WORD - 1 - (j + 1) = p
        BY <1>4, <2>1, <3>1
      <3>3. p + 1 \in g <=> b[j]
        BY <1>2, <3>2
      <3>4. b[j + 1] = IF p \in n THEN ~b[j] ELSE b[j]
        BY <1>3, <3>2, Zenon
      <3>5. p \in n => (b[i] <=> ~b[j])
        BY <3>1, <3>4, Zenon
      <3>6. p \notin n => (b[i] <=> b[j])
        BY <3>1, <3>4, Zenon
      <3> QED
        BY <2>2, <3>3, <3>5, <3>6, Zenon
    <2> QED
      BY <2>3, <2>4
  <1>6. g \in Words
    BY <1>2 DEF Words
  <1> QED
    BY <1>5, <1>6 DEF Decodes, g

LEMMA FoldedDecodes ==
  ASSUME NEW n \in Words
  PROVE  Folded(n) \in Words /\ Decodes(Folded(n), n)
  <1>1. PICK temp \in [Nat -> Words] :
           /\ temp[0] = n /\ Folded(n) = temp[LOG]
           /\ \A k \in Nat :
                temp[k + 1] = Xor(temp[k], ShiftedRight(temp[k], Power[LOG - (k + 1)]))
    BY FoldedIs
  <1>2. WORD \in Nat /\ LOG \in Nat
    BY Widths
  <1> DEFINE Far(k) == \A p \in 0 .. WORD - 1 :
               p \in n <=> (p \in temp[k] <=> p + Power[LOG - k] \notin temp[k])
             T == {k \in Nat : k <= LOG => Far(k)}
  <1>3. 0 \in T
    <2>1. ASSUME NEW p \in 0 .. WORD - 1 PROVE p + Power[LOG - 0] \notin temp[0]
      <3>1. Power[LOG - 0] = WORD
        BY <1>2 DEF WORD
      <3>2. p + WORD \notin n
        BY <1>2 DEF Words
      <3> QED
        BY <1>1, <3>1, <3>2
    <2> QED
      BY <1>1, <2>1
  <1>4. ASSUME NEW k \in Nat, k \in T PROVE k + 1 \in T
    <2> SUFFICES ASSUME k + 1 <= LOG PROVE Far(k + 1)
      OBVIOUS
    <2>1. PICK s \in Nat : s = Power[LOG - (k + 1)] /\ Power[LOG - k] = s + s
      <3>1. LOG - (k + 1) \in Nat /\ (LOG - (k + 1)) + 1 = LOG - k
        BY <1>2
      <3>2. PICK s \in Nat : s = Power[LOG - (k + 1)]
        BY <3>1, PowerDef
      <3>3. Power[(LOG - (k + 1)) + 1] = 2 * Power[LOG - (k + 1)]
        BY <3>1, PowerDef
      <3> QED
        BY <3>1, <3>2, <3>3
    <2>2. PICK t \in Words : t = temp[k]
      OBVIOUS
    <2>3. PICK u \in Words : u = temp[k + 1]
      OBVIOUS
    <2>4. u = Xor(t, ShiftedRight(t, s))
      BY <1>1, <2>1, <2>2, <2>3
    <2>5. \A p \in 0 .. WORD - 1 : p \in n <=> (p \in t <=> p + (s + s) \notin t)
      BY <1>2, <1>4, <2>1, <2>2
    <2>6. \A p \in 0 .. WORD - 1 : p \in u <=> (p \in t <=> p + s \notin t)
      BY <2>4 DEF Xor, ShiftedRight
    <2>7. ASSUME NEW p \in 0 .. WORD - 1 PROVE p \in n <=> (p \in u <=> p + s \notin u)
      <3>1. CASE p + s \in 0 .. WORD - 1
        <4>1. p + s \in u <=> (p + s \in t <=> p + s + s \notin t)
          BY <2>6, <3>1
        <4>2. p + s + s = p + (s + s)
          OBVIOUS
        <4> QED
          BY <2>5, <2>6, <4>1, <4>2
      <3>2. CASE p + s \notin 0 .. WORD - 1
        <4>1. p + s \notin u /\ p + s \notin t
          BY <3>2 DEF Words
        <4>2. p + (s + s) \notin 0 .. WORD - 1
          BY <1>2, <3>2
        <4>3. p + (s + s) \notin t
          BY <4>2 DEF Words
        <4> QED
          BY <2>5, <2>6, <4>1, <4>3
      <3> QED
        BY <3>1, <3>2
    <2> QED
      BY <2>1, <2>3, <2>7
  <1> HIDE DEF T
  <1>5. LOG \in T
    BY <1>2, <1>3, <1>4, Induction
  <1>6. Far(LOG)
    BY <1>2, <1>5 DEF T
  <1>7. LOG - LOG = 0 /\ Power[0] = 1
    BY <1>2, PowerDef
  <1> QED
    BY <1>1, <1>2, <1>6, <1>7 DEF Decodes

\* The code of a time: its bits but for the lowest two.
LEMMA CodeOf ==
  ASSUME NEW t \in Times
  PROVE  /\ ShiftedRight(t, 2) \in Words
         /\ \A p \in ShiftedRight(t, 2) : p < RAW - 2
  BY Widths DEF ShiftedRight, Words, Times

\* Both decoders give the number with that Gray code.
LEMMA SameNumber ==
  ASSUME NEW t \in Times, NEW n, n = ShiftedRight(t, 2)
  PROVE  /\ GrayToBin(n) = Folded(n)
         /\ Folded(n) \subseteq 0 .. RAW - 3
         /\ Decodes(Folded(n), n)
  <1>0. n \in Words
    BY CodeOf
  <1>1. PICK g \in Words : g = GrayToBin(n) /\ Decodes(g, n)
    BY <1>0, GrayToBinDecodes
  <1>2. PICK f \in Words : f = Folded(n) /\ Decodes(f, n)
    BY <1>0, FoldedDecodes
  <1>3. WORD \in Nat /\ RAW \in Nat /\ RAW >= 3
    BY Widths
  <1>4. \A p \in 0 .. WORD - 1 : p \in g <=> p \in f
    <2>1. \A p \in 0 .. WORD - 1 : (p \in g <=> p + 1 \in g) <=> (p \in f <=> p + 1 \in f)
      BY <1>1, <1>2 DEF Decodes
    <2>2. 0 \in Nat
      OBVIOUS
    <2> QED
      BY <2>1, <2>2, SameAbove
  <1>5. g = f
    BY <1>4 DEF Words
  <1>6. \A p \in RAW - 2 .. WORD - 1 : p \in f <=> p \in {}
    <2>1. ASSUME NEW p \in RAW - 2 .. WORD - 1
          PROVE  (p \in f <=> p + 1 \in f) <=> (p \in {} <=> p + 1 \in {})
      <3>1. p \notin n /\ p \in 0 .. WORD - 1
        BY <1>3, CodeOf
      <3> QED
        BY <1>2, <3>1 DEF Decodes
    <2>2. RAW - 2 \in Nat
      BY <1>3
    <2>3. {} \in Words
      BY DEF Words
    <2> QED
      BY <2>1, <2>2, <2>3, SameAbove
  <1>7. f \subseteq 0 .. RAW - 3
    BY <1>3, <1>6 DEF Words
  <1> QED
    BY <1>1, <1>2, <1>5, <1>7

LEMMA TimeIsWord ==
  ASSUME NEW t \in Times
  PROVE  Time(t) \in Times
  <1>1. Folded(ShiftedRight(t, 2)) \subseteq 0 .. RAW - 3
    BY SameNumber
  <1> QED
    BY <1>1, Widths DEF Time, Times, ShiftedLeft, Low

\* The driver gives times from DRIFT on to less than a turn of the clock later.
LEMMA DriverTimeBound ==
  ASSUME NEW t \in Times
  PROVE  /\ DriverTime(t) = Number(Time(t)) + DRIFT
         /\ DriverTime(t) \in DRIFT .. DRIFT + WRAP - 1
  <1>1. DriverTime(t) = Number(Time(t)) + DRIFT
    BY SameNumber DEF DriverTime, Time
  <1>2. Time(t) \subseteq 0 .. RAW - 1 /\ RAW \in Nat /\ RAW <= WORD
    BY TimeIsWord, Widths DEF Times
  <1>3. Number(Time(t)) \in 0 .. WRAP - 1
    BY <1>2, NumberBound DEF WRAP
  <1> QED
    BY <1>1, <1>3, Widths

\* The Gray code of the time is what the board sent.
LEMMA CodeOfTime ==
  ASSUME NEW t \in Times, NEW f, f = ShiftedRight(Time(t), 2)
  PROVE  Xor(f, ShiftedRight(f, 1)) = ShiftedRight(t, 2)
  <1>1. PICK n \in Words : n = ShiftedRight(t, 2)
    BY CodeOf
  <1>2. PICK g : g = Folded(n)
    OBVIOUS
  <1>3. g \subseteq 0 .. RAW - 3 /\ Decodes(g, n)
    BY <1>1, <1>2, SameNumber
  <1>4. f = g
    BY <1>1, <1>2, <1>3, Widths DEF Time, ShiftedRight, ShiftedLeft, Low
  <1>5. \A p : p \in Xor(g, ShiftedRight(g, 1)) <=> p \in n
    <2>1. ASSUME NEW p \in 0 .. WORD - 1
          PROVE  p \in Xor(g, ShiftedRight(g, 1)) <=> (p \in g <=> p + 1 \notin g)
      BY DEF Xor, ShiftedRight
    <2>2. ASSUME NEW p, p \notin 0 .. WORD - 1
          PROVE  p \notin Xor(g, ShiftedRight(g, 1)) /\ p \notin n
      <3>1. g \subseteq 0 .. WORD - 1
        BY <1>3, Widths
      <3>2. ShiftedRight(g, 1) \subseteq 0 .. WORD - 1
        BY DEF ShiftedRight
      <3>3. n \subseteq 0 .. WORD - 1
        BY DEF Words
      <3> QED
        BY <2>2, <3>1, <3>2, <3>3 DEF Xor
    <2> QED
      BY <1>3, <2>1, <2>2 DEF Decodes
  <1> QED
    BY <1>1, <1>4, <1>5

-----------------------------------------------------------------------------
(* The order of events.                                                     *)

Accepted == [time : Nat, ref : BOOLEAN, over : BOOLEAN]

\* FillFragment's times are those of the event that was accepted last, if that
\* was no reference.
TimeInv ==
  /\ raw \in Times
  /\ n_wraparounds \in Nat /\ last_time \in Nat /\ corrected \in Nat
  /\ last # NoEvent =>
       /\ last \in Accepted /\ last.time \in DRIFT .. DRIFT + WRAP - 1
       /\ ~last.ref => /\ last_time = last.time
                       /\ corrected = last.time + n_wraparounds * WRAP

LEMMA SentIs ==
  ASSUME NEW t \in Times, NEW ref \in BOOLEAN, NEW over \in BOOLEAN
  PROVE  /\ Sent(t, ref, over) \in Accepted
         /\ Sent(t, ref, over).time \in DRIFT .. DRIFT + WRAP - 1
  BY DriverTimeBound, Widths DEF Sent, Accepted

LEMMA AcceptTimeInv ==
  ASSUME TimeInv, NEW t \in Times, NEW this \in Accepted,
         this.time \in DRIFT .. DRIFT + WRAP - 1, raw' = t, Accept(this)
  PROVE  TimeInv'
  <1>1. Wraps(this) \in Nat
    BY DEF Wraps, TimeInv
  <1>2. PICK w \in Nat : w = Wraps(this)
    BY <1>1
  <1>3. w * WRAP \in Nat
    BY Widths
  <1>4. Corrected(this) = this.time + w * WRAP
    BY <1>2 DEF Corrected
  <1>5. this.time \in Nat /\ this.ref \in BOOLEAN
    BY DEF Accepted
  <1>6. Corrected(this) \in Nat
    BY <1>3, <1>4, <1>5
  <1>7. /\ last' = this /\ corrected' = Corrected(this)
        /\ last_time' = IF this.ref THEN 0 ELSE this.time
        /\ n_wraparounds' = IF this.ref THEN 0 ELSE w
    BY <1>2 DEF Accept
  <1>8. n_wraparounds' \in Nat /\ last_time' \in Nat /\ corrected' \in Nat
    BY <1>5, <1>6, <1>7
  <1>9. ~this.ref => last_time' = this.time /\ corrected' = this.time + n_wraparounds' * WRAP
    BY <1>4, <1>7
  <1> QED
    BY <1>7, <1>8, <1>9 DEF TimeInv

LEMMA TimeInvInit == TimeInit => TimeInv
  BY DEF TimeInit, TimeInv, Times

LEMMA TimeInvNext == TimeInv /\ [TimeNext]_timevars => TimeInv'
  <1> SUFFICES ASSUME TimeInv, [TimeNext]_timevars PROVE TimeInv'
    OBVIOUS
  <1>1. ASSUME NEW t \in Times, NEW ref \in BOOLEAN, NEW over \in BOOLEAN,
               FirstEvent(t, ref, over) \/ NextEvent(t, ref, over)
        PROVE  TimeInv'
    BY <1>1, SentIs, AcceptTimeInv DEF FirstEvent, NextEvent
  <1>2. CASE EndOfPoll
    BY <1>2 DEF EndOfPoll, TimeInv
  <1>3. CASE UNCHANGED timevars
    BY <1>3 DEF timevars, TimeInv
  <1> QED
    BY <1>1, <1>2, <1>3 DEF TimeNext

LEMMA TimeInvHolds == TimeSpec => []TimeInv
  BY TimeInvInit, TimeInvNext, PTL DEF TimeSpec

\* The driver's decoder and the reader's give an event the same time, but for
\* the driver's correction, and it is the time whose Gray code the board sent.
THEOREM DecodingIsRight == TimeSpec => []DecodersAgree
  <1>1. TimeInv => DecodersAgree
    BY DriverTimeBound, CodeOfTime DEF TimeInv, DecodersAgree
  <1> QED
    BY <1>1, TimeInvHolds, PTL

\* The step of an accepted event behind an event.
LEMMA StepInOrder ==
  ASSUME TimeInv, NEW t \in Times, NEW ref \in BOOLEAN, NEW over \in BOOLEAN,
         NextEvent(t, ref, over), ~last.ref, ~(last'.ref /\ last'.over)
  PROVE  corrected' >= corrected
  <1>1. PICK this \in Accepted : this = Sent(t, ref, over) /\ this.time \in DRIFT .. DRIFT + WRAP - 1
    BY SentIs
  <1>2. last' = this /\ corrected' = this.time + Wraps(this) * WRAP /\ InOrder(this) /\ last # NoEvent
    BY <1>1 DEF NextEvent, Accept, Corrected
  <1>3. /\ last_time = last.time /\ last.time \in DRIFT .. DRIFT + WRAP - 1
        /\ corrected = last.time + n_wraparounds * WRAP /\ n_wraparounds \in Nat
    BY <1>2 DEF TimeInv
  <1>4. PICK n \in Nat : n = n_wraparounds
    BY <1>3
  <1>5. PICK a \in Int, c \in Int : a = last.time /\ c = this.time /\ a < c + WRAP
    BY <1>1, <1>3, Widths
  <1>6. (n + 1) * WRAP = n * WRAP + WRAP /\ n * WRAP \in Int /\ WRAP \in Int
    BY Widths
  <1>7. CASE c < a
    <2>1. this.over /\ ~this.ref
      BY <1>2, <1>5, <1>7 DEF InOrder
    <2>2. Wraps(this) = n + 1
      BY <1>3, <1>4, <1>5, <1>7, <2>1 DEF Wraps
    <2>3. corrected' = c + (n * WRAP + WRAP)
      BY <1>2, <1>5, <1>6, <2>2
    <2>4. corrected = a + n * WRAP
      BY <1>3, <1>4, <1>5
    <2> QED
      BY <1>5, <1>6, <2>3, <2>4
  <1>8. CASE c >= a
    <2>1. Wraps(this) = n
      BY <1>3, <1>4, <1>5, <1>8 DEF Wraps
    <2>2. corrected' = c + n * WRAP
      BY <1>2, <1>5, <2>1
    <2>3. corrected = a + n * WRAP
      BY <1>3, <1>4, <1>5
    <2> QED
      BY <1>5, <1>6, <1>8, <2>2, <2>3
  <1> QED
    BY <1>5, <1>7, <1>8

\* Within a poll corrected times do not go back, but at the references named.
THEOREM CorrectedTimesInOrder == TimeSpec => CorrectedInOrder
  <1>1. TimeInv /\ [TimeNext]_timevars =>
          [(last # NoEvent /\ last' # NoEvent /\ ~last.ref /\ ~(last'.ref /\ last'.over))
             => corrected' >= corrected]_timevars
    <2> SUFFICES ASSUME TimeInv, TimeNext, last # NoEvent, last' # NoEvent, ~last.ref,
                        ~(last'.ref /\ last'.over)
                 PROVE  corrected' >= corrected
      OBVIOUS
    <2>1. ~EndOfPoll
      BY DEF EndOfPoll
    <2>2. PICK t \in Times, ref \in BOOLEAN, over \in BOOLEAN :
            FirstEvent(t, ref, over) \/ NextEvent(t, ref, over)
      BY <2>1 DEF TimeNext
    <2>3. NextEvent(t, ref, over)
      BY <2>2 DEF FirstEvent
    <2> QED
      BY <2>3, StepInOrder
  <1> QED
    BY <1>1, TimeInvHolds, PTL DEF TimeSpec, CorrectedInOrder
=============================================================================
