------------------------------- MODULE ConfBits -------------------------------
(***************************************************************************)
(* From the text of a configuration file to the bits of a register: the    *)
(* configuration tool reads two files (FEBCONF), the driver keeps what it  *)
(* is sent for each board (FEBDRV::configu), and bits are written and read *)
(* one by one in its buffers (ConfigSetBit, ConfigGetBit).                 *)
(*                                                                         *)
(* A byte is the set of the positions of its ones.  A line of a file has   *)
(* bits, perhaps with spaces between them, then an apostrophe and text.    *)
(***************************************************************************)
EXTENDS Naturals, Sequences

CONSTANTS
  BITS,     \* bits of a byte (8)
  LEN,      \* bits of each register (1144 and 224)
  LINE,     \* characters fgets reads at once (127)
  MAXPACK   \* MAXPACKLEN

Registers == {"SCR", "PMR"}

ASSUME BITSAssumption == BITS \in Nat \ {0}
ASSUME LENAssumption ==
  LEN \in [Registers -> Nat] /\ \A r \in Registers : LEN[r] > 0 /\ LEN[r] % BITS = 0
ASSUME LINEAssumption == LINE \in Nat \ {0}
ASSUME MAXPACKAssumption == MAXPACK \in Nat /\ \A r \in Registers : LEN[r] < MAXPACK

VARIABLES
  reading,  \* the file being read, "send", or what came of it
  ascii,    \* the bits read: which are ones
  ptr,      \* characters of this piece of a line
  skip,     \* whether the rest of it is text
  conf,     \* bufSCR and bufPMR of the tool
  board,    \* bufSCR and bufPMR of the driver, for a board
  clean,    \* history: the file has an apostrophe in every line, which is read at once
  bits      \* history: the bits of each register as somebody wrote them

confvars == <<reading, ascii, ptr, skip, conf, board, clean, bits>>

-----------------------------------------------------------------------------
(* Bits and bytes.                                                          *)

\* Mutant: a mask that counts from the other end.
Mask_Reversed(i) == i % BITS
Mask(i) == BITS - 1 - (i % BITS)
ByteOf(bitlen, i) == (bitlen - 1 - i) \div BITS
Buffers == [0 .. MAXPACK - 1 -> SUBSET (0 .. BITS - 1)]

ConfigSetBit(buffer, bitlen, i, value) ==
  [buffer EXCEPT ![ByteOf(bitlen, i)] = (@ \ {Mask(i)}) \cup IF value THEN {Mask(i)} ELSE {}]

ConfigGetBit(buffer, bitlen, i) == Mask(i) \in buffer[ByteOf(bitlen, i)]

\* The second half of readbitstream.
Encoded(text) ==
  [y \in 0 .. MAXPACK - 1 |->
     {BITS - 1 - (p % BITS) : p \in {q \in 0 .. Len(text) - 1 :
                                     text[q + 1] /\ y = (Len(text) - q - 1) \div BITS}}]

Zero == [y \in 0 .. MAXPACK - 1 |-> {}]

ConfInit ==
  /\ reading = "SCR" /\ ascii = <<>> /\ ptr = 0 /\ skip = FALSE
  /\ conf = [r \in Registers |-> Zero] /\ board = conf
  /\ clean = TRUE /\ bits = [r \in Registers |-> <<>>]

-----------------------------------------------------------------------------
(* readbitstream.                                                           *)

\* Any character that is neither a space nor an apostrophe is taken for a bit,
\* and so is the end of a line.  Only "1" will be a one.
Taken(text, c) == IF Len(text) < MAXPACK THEN Append(text, c = "1") ELSE text

\* Mutant: the text of a line is read, too.
IsText_Never(c) == FALSE
IsText(c) == skip \/ c = "apostrophe"

\* fgets ends a piece of a line at its newline, or when it is full.
ReadChar(c) ==
  LET isText == IsText(c)
      endOfPiece == c = "newline" \/ ptr + 1 = LINE
      read == IF isText \/ c = "space" THEN ascii ELSE Taken(ascii, c)
      proper == /\ clean
                /\ c = "letter" => skip
                /\ endOfPiece => c = "newline" /\ skip
  IN /\ reading \in Registers
     /\ ascii' = IF endOfPiece /\ ~isText THEN Taken(read, "NUL") ELSE read
     /\ ptr' = IF endOfPiece THEN 0 ELSE ptr + 1
     /\ skip' = (isText /\ ~endOfPiece)
     /\ clean' = proper
     /\ bits' = [bits EXCEPT ![reading] =
                   IF ~proper THEN <<>>
                   ELSE IF c \in {"0", "1"} /\ ~skip THEN Taken(@, c) ELSE @]
     /\ UNCHANGED <<reading, conf, board>>

\* The end of the file: the register is encoded, and its length must be right.
EndOfFile ==
  LET text == IF ptr > 0 /\ ~skip THEN Taken(ascii, "NUL") ELSE ascii
      proper == clean /\ (ptr > 0 => skip)
  IN /\ reading \in Registers
     /\ conf' = [conf EXCEPT ![reading] = Encoded(text)]
     /\ reading' = IF Len(text) # LEN[reading] THEN "refused"
                   ELSE IF reading = "SCR" THEN "PMR" ELSE "send"
     /\ bits' = IF proper THEN bits ELSE [bits EXCEPT ![reading] = text]
     /\ ascii' = <<>> /\ ptr' = 0 /\ skip' = FALSE /\ clean' = TRUE
     /\ UNCHANGED board

\* The tool is run again, after a refused file or for another board.
Again ==
  /\ reading \in {"refused", "configured"}
  /\ reading' = "SCR"
  /\ conf' = [r \in Registers |-> Zero] /\ board' = conf'
  /\ bits' = [r \in Registers |-> <<>>]
  /\ UNCHANGED <<ascii, ptr, skip, clean>>

-----------------------------------------------------------------------------
(* The driver.                                                              *)

\* GetConfBuffer puts the bytes of both registers one after the other, and
\* configu takes them apart.
Bytes(r) == LEN[r] \div BITS
ConfBuffer == [y \in 0 .. Bytes("SCR") + Bytes("PMR") - 1 |->
                 IF y < Bytes("SCR") THEN conf["SCR"][y] ELSE conf["PMR"][y - Bytes("SCR")]]

Start(r) == IF r = "SCR" THEN 0 ELSE Bytes("SCR")

configu ==
  /\ reading = "send"
  /\ board' = [r \in Registers |->
                 [y \in 0 .. MAXPACK - 1 |->
                    IF y < Bytes(r) THEN ConfBuffer[Start(r) + y] ELSE board[r][y]]]
  /\ reading' = "configured"
  /\ conf' = [r \in Registers |-> Zero]  \* the tool has ended
  /\ UNCHANGED <<ascii, ptr, skip, clean, bits>>

\* One bit of a board's buffers is changed.
SetBit(r, i, value) ==
  /\ reading = "configured" /\ i < LEN[r]
  /\ board' = [board EXCEPT ![r] = ConfigSetBit(@, LEN[r], i, value)]
  /\ bits' = [bits EXCEPT ![r][i + 1] = value]
  /\ UNCHANGED <<reading, ascii, ptr, skip, conf, clean>>

ConfNext ==
  \/ \E c \in {"0", "1", "space", "apostrophe", "newline", "letter"} : ReadChar(c)
  \/ EndOfFile
  \/ Again
  \/ configu
  \/ \E r \in Registers, value \in BOOLEAN : \E i \in 0 .. LEN[r] - 1 : SetBit(r, i, value)

ConfSpec == ConfInit /\ [][ConfNext]_confvars

-----------------------------------------------------------------------------
(* Properties.                                                              *)

\* What readbitstream has read of a file with an apostrophe in every line are the
\* bits that stand before the apostrophes, whatever is in the text behind them;
\* fgets cutting a line changes nothing as long as the file is proper.
ReadAsWritten == reading \in Registers /\ clean => ascii = bits[reading]

\* Whatever the two files were, once the driver has accepted them ConfigGetBit
\* gives for every bit of both registers the one that was read from the file or
\* set last: setting a bit leaves all others alone.
BoardHasBits == reading = "configured" =>
  \A r \in Registers : \A i \in 0 .. LEN[r] - 1 :
    ConfigGetBit(board[r], LEN[r], i) = bits[r][i + 1]
=============================================================================
