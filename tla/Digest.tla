------------------------------- MODULE Digest -------------------------------
(***************************************************************************)
(* calResponse: the three strings whose MD5 sums make up the answer to the *)
(* camera's challenge, written one after the other into the same zeroed    *)
(* buffer, and the MD5 code that cuts each into blocks.                    *)
(*                                                                         *)
(* A byte is a pair <<where it comes from, its number>>.  A sum is known   *)
(* by the blocks that went into it: MD5Transform only collects them.       *)
(***************************************************************************)
EXTENDS Integers, Sequences, SequencesExt

CONSTANTS
  BLOCK,        \* bytes of a block: 64
  BITS,         \* bits of a byte, as far as the count goes: 8
  COUNTS,       \* values of a word of the count: 2^32
  BUFFER,       \* bytes of md5_buffer: 1024
  TextLengths   \* the lengths the strings may have

(* The strings fit md5_buffer with a null byte after them, which           *)
(* calResponse does not check.                                             *)
ASSUME DigestConstants ==
  /\ BLOCK \in Nat /\ BLOCK >= 2 /\ BITS \in Nat \ {0}
  /\ COUNTS \in Nat \ {0} /\ COUNTS % (BITS * BLOCK) = 0
  /\ BUFFER \in Nat \ {0} /\ TextLengths \subseteq 0 .. BUFFER - 1

VARIABLES
  md5_buffer,
  lengths,      \* of the three strings
  summed        \* what was hashed for each so far: [text, blocks]

digestVars == <<md5_buffer, lengths, summed>>

Strings == <<"user:realm:passwd", "method:url", "sum:nonce:sum">>
Null    == <<"null", 0>>
Text(k) == [i \in 1 .. lengths[k] |-> <<Strings[k], i>>]

-----------------------------------------------------------------------------
(* The MD5 code.  The count is two words, the low one first; of the buffer *)
(* only the bytes the next call can still use are kept.                    *)

MD5Init == [count |-> <<0, 0>>, buffer |-> <<>>, blocks |-> <<>>]

(* The first blocks of the data go through the transformation.             *)
MD5Transform(blocks, data, many) ==
  blocks \o [k \in 1 .. many |-> SubSeq(data, (k - 1) * BLOCK + 1, k * BLOCK)]

(* Mutant: the last block is left when nothing follows it. *)
MD5Update_Short(c, input) ==
  LET index == (c.count[1] \div BITS) % BLOCK
      size  == Len(input) * BITS
      low   == (c.count[1] + size) % COUNTS
      carry == IF low < size % COUNTS THEN 1 ELSE 0
      data  == SubSeq(c.buffer, 1, index) \o input
      many  == (Len(data) - 1) \div BLOCK
  IN  [count  |-> <<low, (c.count[2] + carry + size \div COUNTS) % COUNTS>>,
       buffer |-> SubSeq(data, many * BLOCK + 1, Len(data)),
       blocks |-> MD5Transform(c.blocks, data, many)]

(* Where the buffer is filled to is read off the count, modulo a block.    *)
MD5Update(c, input) ==
  LET index == (c.count[1] \div BITS) % BLOCK
      size  == Len(input) * BITS
      low   == (c.count[1] + size) % COUNTS
      carry == IF low < size % COUNTS THEN 1 ELSE 0
      data  == SubSeq(c.buffer, 1, index) \o input
      many  == Len(data) \div BLOCK
  IN  [count  |-> <<low, (c.count[2] + carry + size \div COUNTS) % COUNTS>>,
       buffer |-> SubSeq(data, many * BLOCK + 1, Len(data)),
       blocks |-> MD5Transform(c.blocks, data, many)]

PADDING == [i \in 1 .. BLOCK |-> <<"pad", IF i = 1 THEN 128 ELSE 0>>]

(* The count as bytes; a word of it is a byte here.                        *)
MD5Encode(count) == <<<<"count", count[1]>>, <<"count", count[2]>>>>

(* Room is left for the two words of the count.                            *)
PadLen(index) == IF index < BLOCK - 2 THEN BLOCK - 2 - index
                                      ELSE 2 * BLOCK - 2 - index

MD5Final(c) ==
  LET padlen == PadLen((c.count[1] \div BITS) % BLOCK)
  IN  MD5Update(MD5Update(c, SubSeq(PADDING, 1, padlen)), MD5Encode(c.count))

(* The length of a string is counted up to its first null byte; the one    *)
(* calResponse passes is not used.                                         *)
Strlen(buffer) == SelectInSeq(buffer, LAMBDA b : b = Null) - 1

getMd5(buffer) ==
  LET str == SubSeq(buffer, 1, Strlen(buffer))
  IN  [text |-> str, blocks |-> MD5Final(MD5Update(MD5Init, str)).blocks]

-----------------------------------------------------------------------------
(* Mutant: the buffer is not zeroed. *)
Zeroed_Not == [i \in 1 .. BUFFER |-> IF i < BUFFER THEN <<"garbage", i>> ELSE Null]

Zeroed == [i \in 1 .. BUFFER |-> Null]

DigestInit ==
  /\ md5_buffer = Zeroed
  /\ lengths \in [1 .. 3 -> TextLengths]
  /\ summed = <<>>

(* One of the strings is copied over the last one, from the start, and its *)
(* sum taken; nothing ends it.                                             *)
calResponse ==
  /\ Len(summed) < 3
  /\ LET text == Text(Len(summed) + 1) IN
       md5_buffer' = text \o SubSeq(md5_buffer, Len(text) + 1, BUFFER)
  /\ summed' = Append(summed, getMd5(md5_buffer'))
  /\ UNCHANGED lengths

DigestNext == calResponse
DigestSpec == DigestInit /\ [][DigestNext]_digestVars

-----------------------------------------------------------------------------
(* What MD5 asks for: the text, one bit, zeros to the last two words of a  *)
(* block, the number of bits of the text.                                  *)
PaddedText(text) ==
  LET zeros == (2 * BLOCK - 3 - (Len(text) % BLOCK)) % BLOCK
      bits  == Len(text) * BITS
  IN  text \o <<<<"pad", 128>>>> \o [i \in 1 .. zeros |-> <<"pad", 0>>]
           \o MD5Encode(<<bits % COUNTS, (bits \div COUNTS) % COUNTS>>)

(* The blocks that go into a sum are those of the padded text, for texts   *)
(* that end anywhere in a block and whose count carries into its second    *)
(* word: MD5Update finds its place in the buffer from the count alone.     *)
SumOfPaddedText ==
  \A k \in DOMAIN summed :
    FlattenSeq(summed[k].blocks) = PaddedText(summed[k].text)

(* getMd5 looks for the null byte itself (md5.cpp:175), so a sum is that of*)
(* its own string only if no longer one was in the buffer before; a longer *)
(* one always leaves its end in the sum, as when user, realm and password  *)
(* are longer than method and URL, and the camera refuses the answer.      *)
SumOfItsString ==
  \A k \in DOMAIN summed :
    (summed[k].text = Text(k)) <=> (\A j \in 1 .. k : lengths[j] <= lengths[k])

(* A sum is the MD5 sum of a text, and of the text that was asked for      *)
(* where getMd5 (md5.cpp:175) can tell its end.                            *)
SumsComputed == SumOfPaddedText /\ SumOfItsString
=============================================================================
