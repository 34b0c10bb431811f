------------------------------ MODULE CString -------------------------------
(***************************************************************************)
(* The routines of src/src/cstdlib/string.c: strncpy and strncmp (used by *)
(* the name server), memcpy (message transfer in the kernel and           *)
(* io_server's Putstr), and memchr, memcmp and memset, which nothing      *)
(* calls yet.                                                             *)
(*                                                                         *)
(* A byte array is a sequence of byte values: C's a[i] is a[i + 1] here.  *)
(* char is unsigned on the ARM EABI the kernel is built for, so the bytes *)
(* strncmp subtracts are 0..255, as are the unsigned char bytes of the    *)
(* mem* routines.  A returned pointer into an array is its offset, and    *)
(* NULL is NullPtr.                                                       *)
(***************************************************************************)
EXTENDS Integers, Sequences

NullPtr == -1

\* The (unsigned char) conversion of an int: its low eight bits.
UChar(ch) == ch % 256

\* strncpy's first loop: the number of bytes copied, i.e. the offset of
\* the first NUL of src among its first count bytes, or count.
RECURSIVE CopyLen(_, _, _)
CopyLen(src, count, i) ==
    IF i < count /\ src[i + 1] # 0 THEN CopyLen(src, count, i + 1) ELSE i

\* strncpy: src up to its NUL, then NULs, in the first count bytes of dest.
\* dest is not terminated when src has no NUL among its first count bytes.
strncpy(dest, src, count) ==
    [i \in DOMAIN dest |->
        IF i > count THEN dest[i]
        ELSE IF i <= CopyLen(src, count, 0) THEN src[i] ELSE 0]

\* Mutant: the loop does not stop at the terminator of lhs.
RECURSIVE strncmp_no_nul_stop(_, _, _, _)
strncmp_no_nul_stop(lhs, rhs, count, i) ==
    IF i = count THEN 0
    ELSE LET ret == lhs[i + 1] - rhs[i + 1] IN
         IF ret # 0 THEN ret ELSE strncmp_no_nul_stop(lhs, rhs, count, i + 1)

\* strncmp's loop from offset i: the difference of the first differing
\* bytes, 0 if lhs ends first at the same place, or 0 after count bytes.
RECURSIVE StrncmpFrom(_, _, _, _)
StrncmpFrom(lhs, rhs, count, i) ==
    IF i = count THEN 0
    ELSE LET ret == lhs[i + 1] - rhs[i + 1] IN
         IF ret # 0 \/ lhs[i + 1] = 0 THEN ret
         ELSE StrncmpFrom(lhs, rhs, count, i + 1)

strncmp(lhs, rhs, count) == StrncmpFrom(lhs, rhs, count, 0)

\* memchr: the offset of the first of count bytes equal to (unsigned
\* char)ch, or NULL.
RECURSIVE MemchrFrom(_, _, _, _)
MemchrFrom(ptr, ch, count, i) ==
    IF i = count THEN NullPtr
    ELSE IF ptr[i + 1] = UChar(ch) THEN i
    ELSE MemchrFrom(ptr, ch, count, i + 1)

memchr(ptr, ch, count) == MemchrFrom(ptr, ch, count, 0)

\* memcmp: -1, 1 or 0 by the first differing byte of count.
RECURSIVE MemcmpFrom(_, _, _, _)
MemcmpFrom(lhs, rhs, count, i) ==
    IF i = count THEN 0
    ELSE IF lhs[i + 1] < rhs[i + 1] THEN -1
    ELSE IF lhs[i + 1] > rhs[i + 1] THEN 1
    ELSE MemcmpFrom(lhs, rhs, count, i + 1)

memcmp(lhs, rhs, count) == MemcmpFrom(lhs, rhs, count, 0)

\* memset: the first count bytes of dest become (unsigned char)ch.
memset(dest, ch, count) ==
    [i \in DOMAIN dest |-> IF i <= count THEN UChar(ch) ELSE dest[i]]

\* memcpy: the first count bytes of dest become those of src.
memcpy(dest, src, count) ==
    [i \in DOMAIN dest |-> IF i <= count THEN src[i] ELSE dest[i]]
=============================================================================
