----------------------------- MODULE TaggedPtr -----------------------------
(***************************************************************************)
(* TaggedPtr<D> of src/src/lockfree/tagged_ptr.cc: a pointer and a tag     *)
(* packed into one word, the pointer in its low bits.  PtrMod is 2^48 and  *)
(* TagMod 2^16 in the code; shifts by 48 and 16 bits are products,         *)
(* quotients and remainders.                                               *)
(***************************************************************************)
EXTENDS Integers

CONSTANTS
  PtrMod,   \* number of values of the pointer half, 2^ptr_bit_size()
  TagMod    \* number of values of the tag half, 2^tag_bit_size()

ASSUME WordAssumption == PtrMod \in Nat \ {0} /\ TagMod \in Nat \ {0}

Words == 0 .. PtrMod * TagMod - 1

RawPtr(v) == v % PtrMod
RawTag(v) == v \div PtrMod

\* An address that does not fit loses its upper bits; so does a number that is
\* converted to the type of the tag.
FromPair(ptr, tag) == (ptr % PtrMod) + PtrMod * (tag % TagMod)
=============================================================================
