---------------------------- MODULE Superblocks ----------------------------
(***************************************************************************)
(* Superblocks, size classes and descriptors.  An address is a number:     *)
(* superblock s covers the words s * SBSIZE up to (s + 1) * SBSIZE - 1,    *)
(* descriptor s describes it, and 0 is the null pointer, which is why      *)
(* superblock 0 is never used.                                             *)
(***************************************************************************)
EXTENDS Integers, Sequences

CONSTANTS Threads,     \* threads of the application
          SBSIZE,      \* words of a superblock
          BlockSize,   \* BlockSize[c]: words of a block of size class c
          ExpandSbs,   \* SB_REGION_EXPAND_SIZE / SBSIZE
          RegionSbs,   \* superblocks the mapped file has room for
          LargeSbs     \* superblocks that large requests may need

Classes == DOMAIN BlockSize
block_num(c) == SBSIZE \div BlockSize[c]

ASSUME SuperblocksAssumption ==
  /\ SBSIZE \in Nat \ {0}
  /\ BlockSize \in Seq(Nat \ {0})
  /\ \A c \in Classes : BlockSize[c] \in 1..SBSIZE /\ block_num(c) >= 2
  /\ ExpandSbs \in Nat /\ ExpandSbs >= 2
  /\ RegionSbs \in Nat /\ RegionSbs >= ExpandSbs
  /\ LargeSbs \subseteq (Nat \ {0})

Sbs == 0..(RegionSbs - 1)

NoHeap == -1     \* heap is the null CrossPtr
LargeHeap == 0   \* heap is &heaps[0]

Descriptor == [heap |-> NoHeap, block_size |-> 0, maxcount |-> 0]
SmallDescriptor(c) ==
  [heap |-> c, block_size |-> BlockSize[c], maxcount |-> block_num(c)]
LargeDescriptor(n) ==
  [heap |-> LargeHeap, block_size |-> n * SBSIZE, maxcount |-> 1]

desc_lookup(p) == p \div SBSIZE
sb_lookup(d) == d * SBSIZE

\* The blocks of superblock s, whose descriptor is d.
BlocksOf(d, s) == {sb_lookup(s) + i * d.block_size : i \in 0..(d.maxcount - 1)}

-----------------------------------------------------------------------------
(* Places.  A superblock is free, in the partial list of a class, full (in *)
(* no list), part of the large block that begins at d, or in the hand of   *)
(* the thread that has to initialise it, list it or retire it.             *)

Avail == <<"avail", 0>>
Full == <<"full", 0>>
Partial(c) == <<"partial", c>>
Large(d) == <<"large", d>>
Hand(t) == <<"hand", t>>
PlacesOfSbs == {Avail, Full} \cup {Partial(c) : c \in Classes}
              \cup {Large(d) : d \in Sbs} \cup {Hand(t) : t \in Threads}

(* A block is in the free list of its superblock, in a bin of a thread, in *)
(* the run that a flush has taken from a bin, pending (it is pushed when   *)
(* the flush ends) or with the user.                                       *)

User == <<"user", 0>>
Free(s) == <<"free", s>>
Bin(t, c) == <<"bin", <<t, c>>>>
Run(t) == <<"run", t>>
Pending(t) == <<"pending", t>>
PlacesOfBlocks == {User} \cup {Free(s) : s \in Sbs}
                 \cup {Bin(t, c) : t \in Threads, c \in Classes}
                 \cup {Run(t) : t \in Threads} \cup {Pending(t) : t \in Threads}
=============================================================================
