---------------------------- MODULE SizeClasses -----------------------------
(***************************************************************************)
(* The size classes of the allocator of TinySTL/alloc.h: allocate(n) and   *)
(* deallocate(p, n) both find the free list of n with M_freelist_index(n), *)
(* and a new block for n bytes has M_round_up(n) bytes.                    *)
(*                                                                         *)
(* "x & ~(a - 1)" is modelled for the powers of two that M_align returns:  *)
(* it clears the remainder of x by a.                                      *)
(***************************************************************************)
EXTENDS Integers

CONSTANT ESmallObjectBytes   \* above, allocate() goes to malloc()

ASSUME SizeAssumption == ESmallObjectBytes \in Nat \ {0} /\ ESmallObjectBytes <= 4096

EFreeListsNumber == 56

Sizes == 1 .. ESmallObjectBytes

VARIABLE bytes   \* the size the caller asks for; the caller tries each in turn

SizeInit == bytes = 1
SizeNext == bytes' = IF bytes = ESmallObjectBytes THEN 1 ELSE bytes + 1

M_align(n) ==
    CASE n <= 128               -> 8
      [] 128 < n /\ n <= 256    -> 16
      [] 256 < n /\ n <= 512    -> 32
      [] 512 < n /\ n <= 1024   -> 64
      [] 1024 < n /\ n <= 2048  -> 128
      [] 2048 < n               -> 256

M_round_up(n) == ((n + M_align(n) - 1) \div M_align(n)) * M_align(n)

\* Fault: the sizes above 256 start one list too early.
Fault_Index(n) ==
    CASE n <= 128               -> ((n + 8 - 1) \div 8) - 1
      [] 128 < n /\ n <= 256    -> 15 + ((n + 16 - 129) \div 16)
      [] 256 < n /\ n <= 512    -> 22 + ((n + 32 - 257) \div 32)
      [] 512 < n /\ n <= 1024   -> 31 + ((n + 64 - 513) \div 64)
      [] 1024 < n /\ n <= 2048  -> 39 + ((n + 128 - 1025) \div 128)
      [] 2048 < n               -> 47 + ((n + 256 - 2049) \div 256)

M_freelist_index(n) ==
    CASE n <= 128               -> ((n + 8 - 1) \div 8) - 1
      [] 128 < n /\ n <= 256    -> 15 + ((n + 16 - 129) \div 16)
      [] 256 < n /\ n <= 512    -> 23 + ((n + 32 - 257) \div 32)
      [] 512 < n /\ n <= 1024   -> 31 + ((n + 64 - 513) \div 64)
      [] 1024 < n /\ n <= 2048  -> 39 + ((n + 128 - 1025) \div 128)
      [] 2048 < n               -> 47 + ((n + 256 - 2049) \div 256)

-----------------------------------------------------------------------------
(* Properties *)

\* The size of the blocks of list i, counted from the other end: 16 sizes in
\* steps of 8, then eight in steps of 16, of 32, of 64, of 128 and of 256.
BlockSize(i) ==
    CASE i < 16            -> 8 * (i + 1)
      [] 16 <= i /\ i < 24 -> 128 + 16 * (i - 15)
      [] 24 <= i /\ i < 32 -> 256 + 32 * (i - 23)
      [] 32 <= i /\ i < 40 -> 512 + 64 * (i - 31)
      [] 40 <= i /\ i < 48 -> 1024 + 128 * (i - 39)
      [] 48 <= i           -> 2048 + 256 * (i - 47)

\* What M_round_up and M_freelist_index say of a size belongs together: the list
\* exists, and all its blocks have the size that a request for n bytes is rounded
\* up to, so a block freed with one size serves any request of its list.
ClassFits(n) ==
    /\ M_freelist_index(n) \in 0 .. EFreeListsNumber - 1
    /\ M_round_up(n) = BlockSize(M_freelist_index(n))
    /\ n <= M_round_up(n)

SizeClassFits == ClassFits(bytes)
=============================================================================
