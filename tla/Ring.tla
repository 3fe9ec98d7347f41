-------------------------------- MODULE Ring --------------------------------
(***************************************************************************)
(* The buffers of coro::channel (channel.hpp).  The class template has     *)
(* three bodies: for a capacity that is a power of two the indices count   *)
(* on for ever and are masked, for any other capacity they wrap at the     *)
(* capacity and the elements are counted, and a channel without capacity   *)
(* has a std::optional for its one element.                                *)
(***************************************************************************)
EXTENDS Naturals, Sequences

CONSTANTS SizeMax,   \* number of values of a size_t: 2^64 in the code
          empty_slot \* what is left in a slot that was moved from

HasSingleBit(n) == \E k \in 0..n : n = 2^k

Slots(capacity) == IF capacity = 0 THEN 1 ELSE capacity

RingInit(capacity) ==
    [m_head |-> 0, m_tail |-> 0, m_num |-> 0,
     m_array |-> [k \in 0..(Slots(capacity) - 1) |-> empty_slot]]

empty(b, capacity) ==
    IF HasSingleBit(capacity) THEN b.m_head = b.m_tail ELSE b.m_num = 0

full(b, capacity) ==
    IF HasSingleBit(capacity)
    THEN (b.m_tail + SizeMax - b.m_head) % SizeMax = capacity
    ELSE b.m_num = Slots(capacity)

\* m_head or m_tail as an index of m_array.
Index(k, capacity) == IF HasSingleBit(capacity) THEN k % capacity ELSE k

\* Mutant of Advance: the index of the counted buffer wraps one too late.
Advance_late(k, capacity) ==
    CASE capacity = 0           -> k
      [] HasSingleBit(capacity) -> (k + 1) % SizeMax
      [] OTHER                  -> IF k + 1 > capacity THEN 0 ELSE k + 1

Advance(k, capacity) ==
    CASE capacity = 0           -> k
      [] HasSingleBit(capacity) -> (k + 1) % SizeMax
      [] OTHER                  -> IF k + 1 >= capacity THEN 0 ELSE k + 1

\* Only the masked buffer has no count of its elements.
Count(b, n, capacity) == IF HasSingleBit(capacity) THEN b.m_num ELSE n

push(b, value, capacity) ==
    [b EXCEPT !.m_array[Index(b.m_tail, capacity)] = value,
              !.m_tail = Advance(b.m_tail, capacity),
              !.m_num = Count(b, @ + 1, capacity)]

front(b, capacity) == b.m_array[Index(b.m_head, capacity)]

pop(b, capacity) ==
    [b EXCEPT !.m_array[Index(b.m_head, capacity)] = empty_slot,
              !.m_head = Advance(b.m_head, capacity),
              !.m_num = Count(b, @ - 1, capacity)]

\* The elements in the order in which they will be popped.
Length(b, capacity) ==
    IF HasSingleBit(capacity) THEN (b.m_tail + SizeMax - b.m_head) % SizeMax
                              ELSE b.m_num

Contents(b, capacity) ==
    [k \in 1..Length(b, capacity) |->
        b.m_array[(b.m_head + k - 1) % Slots(capacity)]]
=============================================================================
