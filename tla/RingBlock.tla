----------------------------- MODULE RingBlock -----------------------------
(***************************************************************************)
(* The ring block buffer (kernel/utilities/ringblk_buf.c): blocks of any   *)
(* size cut out of one buffer in ring order and described by a fixed set   *)
(* of descriptors.  Addresses are offsets from the start of the buffer; the *)
(* difference of two is an rt_size_t and never negative.                   *)
(*                                                                         *)
(* Clients put blocks they have allocated, free blocks they hold and ask   *)
(* for blocks of at least one byte.                                        *)
(***************************************************************************)
EXTENDS IpcWait

CONSTANTS rbb,           \* the object
          buf_size, blk_max_num,
          BlkSize,       \* sizes clients ask for
          SizeModulus,   \* 2^32: an rt_size_t counts modulo this
          MaxEnd         \* bound of the model: blocks are followed up to this offset

SizeLimit == 2 ^ 24        \* rt_rbb_blk_alloc asserts that a block is smaller

ASSUME RingBlockAssumption == buf_size \in Nat \ {0} /\ blk_max_num \in Nat \ {0}
ASSUME BlkSizeAssumption == BlkSize \subseteq 1 .. SizeLimit - 1
ASSUME MaxEndAssumption ==
    /\ MaxEnd \in Nat /\ SizeModulus \in Nat
    /\ buf_size <= MaxEnd /\ 2 * MaxEnd <= SizeModulus

VARIABLES blk,           \* blk_set: status, buf and size of each descriptor
          blk_list,      \* blocks in use, oldest first
          blk_queue,     \* what rt_rbb_blk_queue_get has filled in and is not yet
                         \* freed: the first descriptor and how many
          outgrown       \* history: a block larger than the buffer has been granted
                         \* since the list was last empty

rbbvars == <<blk, blk_list, blk_queue, outgrown>>

Blk == 0 .. blk_max_num - 1

NoQueue == [blocks |-> 0, blk_num |-> 0]

rt_rbb_init ==
    /\ blk = [b \in Blk |-> [status |-> "UNUSED", buf |-> 0, size |-> 0]]
    /\ blk_list = << >>
    /\ blk_queue = NoQueue
    /\ outgrown = FALSE

RbbCalls(t) == CallsOn(t, rbb) /\ UNCHANGED <<kvars, alive, on, timeout>>

-----------------------------------------------------------------------------
After(b) == blk[b].buf + blk[b].size

\* Bytes from address x up to address y, as the code computes them.
Gap(x, y) == (y - x) % SizeModulus

\* Slip: the size of the last block is left out of the gap before the first.
PlacesOverTail(size) ==
    LET head == Head(blk_list)
        tail == Last(blk_list)
    IN  IF blk_list = << >> THEN {0}
        ELSE IF blk[head].buf <= blk[tail].buf
          THEN IF Gap(After(tail), buf_size) >= size THEN {After(tail)}
               ELSE IF blk[head].buf >= size THEN {0} ELSE {}
          ELSE IF Gap(blk[tail].buf, blk[head].buf) >= size THEN {After(tail)} ELSE {}

\* Where a block of size fits, if anywhere: behind the last block, or at the
\* start of the buffer while the blocks do not wrap.  A block alone is given the
\* start of the buffer whatever its size, and blocks after one that ends outside
\* follow it there, the gap to the end of the buffer being a huge number.
Places(size) ==
    LET head == Head(blk_list)
        tail == Last(blk_list)
    IN  IF blk_list = << >> THEN {0}
        ELSE IF blk[head].buf <= blk[tail].buf
          THEN IF Gap(After(tail), buf_size) >= size THEN {After(tail)}
               ELSE IF blk[head].buf >= size THEN {0} ELSE {}
          ELSE IF Gap(After(tail), blk[head].buf) >= size THEN {After(tail)} ELSE {}

\* find_empty_blk_in_set: the first descriptor not in use.
Unused == {b \in Blk : blk[b].status = "UNUSED"}
find_empty_blk_in_set == CHOOSE b \in Unused : \A c \in Unused : b <= c

Grows(size) == size > buf_size \/ (outgrown /\ blk_list # << >>)

rt_rbb_blk_alloc(t, size) ==
    /\ RbbCalls(t)
    /\ Unused # {} /\ Len(blk_list) < blk_max_num
    /\ \E at \in Places(size) :
          /\ at + size <= MaxEnd
          /\ blk' = [blk EXCEPT ![find_empty_blk_in_set] =
                        [status |-> "INITED", buf |-> at, size |-> size]]
          /\ blk_list' = Append(blk_list, find_empty_blk_in_set)
    /\ outgrown' = Grows(size)
    /\ UNCHANGED <<blk_queue, fault>>

rt_rbb_blk_put(t, b) ==
    /\ RbbCalls(t)
    /\ blk[b].status = "INITED"
    /\ blk' = [blk EXCEPT ![b].status = "PUT"]
    /\ UNCHANGED <<blk_list, blk_queue, outgrown, fault>>

\* Positions of the blocks that have been put.
PutAt == {i \in 1 .. Len(blk_list) : blk[blk_list[i]].status = "PUT"}
FirstPut == CHOOSE i \in PutAt : \A j \in PutAt : i <= j

rt_rbb_blk_get(t) ==
    /\ RbbCalls(t)
    /\ PutAt # {}
    /\ blk' = [blk EXCEPT ![blk_list[FirstPut]].status = "GET"]
    /\ UNCHANGED <<blk_list, blk_queue, outgrown, fault>>

\* The fields of a descriptor that is not in use are dead.
UnusedBlk == [status |-> "UNUSED", buf |-> 0, size |-> 0]

rt_rbb_blk_free(t, b) ==
    /\ RbbCalls(t)
    /\ b \in ToSet(blk_list)
    /\ blk_list' = RemoveFirst(blk_list, b)
    /\ blk' = [blk EXCEPT ![b] = UnusedBlk]
    /\ UNCHANGED <<blk_queue, outgrown, fault>>

-----------------------------------------------------------------------------
TotalSize(s) == FoldLeft(LAMBDA n, b : n + blk[b].size, 0, s)

\* Whether rt_rbb_blk_queue_get, having begun with the block at position i, goes
\* on to the one at n: it is put, at no lower address and still within length.
Continues(i, n, length) ==
    /\ blk[blk_list[n]].status = "PUT"
    /\ blk[blk_list[n - 1]].buf <= blk[blk_list[n]].buf
    /\ TotalSize(SubSeq(blk_list, i, n)) <= length

\* The last block it takes; the first one is taken in any case.
QueueEnd(i, length) ==
    CHOOSE j \in i .. Len(blk_list) :
        /\ \A n \in i + 1 .. j : Continues(i, n, length)
        /\ j < Len(blk_list) => ~Continues(i, j + 1, length)

\* The blocks leave the list, and with it the region that is in use.
rt_rbb_blk_queue_get(t, length) ==
    /\ RbbCalls(t)
    /\ blk_queue.blk_num = 0 /\ PutAt # {}
    /\ LET i    == FirstPut
           j    == QueueEnd(i, length)
           took == {blk_list[n] : n \in i .. j}
       IN  /\ blk' = [b \in Blk |-> IF b \in took THEN [blk[b] EXCEPT !.status = "GET"]
                                                  ELSE blk[b]]
           /\ blk_list' = SubSeq(blk_list, 1, i - 1) \o
                          SubSeq(blk_list, j + 1, Len(blk_list))
           /\ blk_queue' = [blocks |-> blk_list[i], blk_num |-> j - i + 1]
    /\ UNCHANGED <<outgrown, fault>>

\* A turn of the loop of rt_rbb_blk_queue_free; other calls may come between two
\* turns.  The loop frees blk_num descriptors from the first one on in the set,
\* whichever blocks they describe; one past the set or not in use fails the
\* assertion of rt_rbb_blk_free.
rt_rbb_blk_queue_free(t) ==
    LET b == blk_queue.blocks
    IN  /\ RbbCalls(t)
        /\ blk_queue.blk_num > 0
        /\ IF b \notin Blk \ Unused
             THEN fault' = TRUE /\ UNCHANGED rbbvars
             ELSE /\ blk' = [blk EXCEPT ![b] = UnusedBlk]
                  /\ blk_list' = RemoveFirst(blk_list, b)
                  /\ blk_queue' = IF blk_queue.blk_num = 1 THEN NoQueue
                                  ELSE [blocks |-> b + 1, blk_num |-> blk_queue.blk_num - 1]
                  /\ UNCHANGED <<outgrown, fault>>

RingBlockCall(t) ==
    \/ \E size \in BlkSize : rt_rbb_blk_alloc(t, size)
    \/ \E b \in Blk : rt_rbb_blk_put(t, b) \/ rt_rbb_blk_free(t, b)
    \/ rt_rbb_blk_get(t)
    \/ \E length \in 0 .. MaxEnd : rt_rbb_blk_queue_get(t, length)
    \/ rt_rbb_blk_queue_free(t)
-----------------------------------------------------------------------------
(* Properties.                                                             *)

RingBlockTypeOK ==
    /\ blk \in [Blk -> [status : {"UNUSED", "INITED", "PUT", "GET"},
                        buf : 0 .. MaxEnd, size : 0 .. MaxEnd]]
    /\ blk_list \in Seq(Blk)
    /\ blk_queue \in [blocks : 0 .. blk_max_num, blk_num : 0 .. blk_max_num]
    /\ outgrown \in BOOLEAN

\* Blocks in the list do not overlap, and lie inside the buffer unless one larger
\* than the buffer was granted since the list was last empty, in whichever order
\* blocks were allocated, freed and taken out around the wrap.
BlocksDisjoint ==
    \A i, j \in 1 .. Len(blk_list) :
        /\ outgrown \/ After(blk_list[i]) <= buf_size
        /\ i < j => \/ After(blk_list[i]) <= blk[blk_list[j]].buf
                    \/ After(blk_list[j]) <= blk[blk_list[i]].buf
=============================================================================
