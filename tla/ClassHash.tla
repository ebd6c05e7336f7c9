------------------------------ MODULE ClassHash -------------------------------
(***************************************************************************)
(* serialize and encode (civetkern/src/util/util.cpp): the id of a class   *)
(* path, from the indexes of its words.  The 32 bits of a hash are eight   *)
(* digits of base 16, so that shifting by four bits and adding what was    *)
(* shifted out is a rotation.                                              *)
(***************************************************************************)
EXTENDS Integers, Sequences, SequencesExt, Bitwise

\* The eight hexadecimal digits of n.
Digits(n) == [d \in 1 .. 8 |-> (n \div 16^(8 - d)) % 16]

\* serialize, for one word: the masks of the upper bytes are shifted and the words are
\* not, so that three bytes are 0 and the last is the low byte of the index.
Bytes(w) == <<0, 0, 0, w % 256>>

\* The digits of a byte as a char of 32 bits, which is signed.
Char(byte) ==
  [d \in 1 .. 8 |-> IF d < 7 /\ byte >= 128 THEN 15 ELSE Digits(byte)[d]]

\* hash = (hash << 4) ^ (hash >> 28) ^ str[idx]
Mix(h, byte) ==
  LET r == Tail(h) \o <<Head(h)>>
      c == Char(byte)
  IN  [d \in 1 .. 8 |-> r[d] ^^ c[d]]

\* The number a hash is, modulo the greatest of its width (createHash).
encode(p) ==
  LET key == FlattenSeq([n \in DOMAIN p |-> Bytes(p[n])])
      h == FoldLeft(Mix, Digits(Len(key)), key)
  IN  IF ToSet(h) = {15} THEN 0 ELSE FoldLeft(LAMBDA sum, digit : 16 * sum + digit, 0, h)
===============================================================================
