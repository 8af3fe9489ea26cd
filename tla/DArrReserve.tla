---------------------------- MODULE DArrReserve ----------------------------
(***************************************************************************)
(* What darr_reserve_cap is for: the calls of DArr, and beside each array  *)
(* the length it was promised room for, whichever blocks it has been in    *)
(* since.                                                                  *)
(***************************************************************************)
EXTENDS DArr

VARIABLE promised       \* the longest each array was made for, has been, or
                        \* had room reserved for; 0 without an array

reserveVars == <<memory, self, ret, promised>>

Additions == Reserves \union 0..MaxLen

\* A call that adds n items to the array of h, or reserves room for n.
Adding(h, n) ==
    \/ n = 1 /\ \E item \in Item : Push(h, item)
    \/ n = 1 /\ \E i \in 0..(MaxLen - 1) : PushOwn(h, i)
    \/ n \in Reserves /\ ReserveCap(h, n)
    \/ \E items \in Slices : n = Len(items) /\ AppendSlice(h, items)
    \/ \E g \in Handle : IsLive(g) /\ n = Arr(g).len /\ AppendArray(h, g)

\* A call that returns OK makes its promise.
Promise(h, n) ==
    promised' = IF ret' = "OK" THEN [promised EXCEPT ![h] = n] ELSE promised

ReserveInit == Init /\ promised = [h \in Handle |-> 0]

ReserveNext ==
    \E h \in Handle :
       \/ \E alloc \in Allocators :
            \/ \E cap \in Caps : New(h, cap, alloc) /\ Promise(h, cap)
            \/ \E items \in Slices :
                 NewFromSlice(h, items, alloc) /\ Promise(h, Len(items))
            \/ \E g \in Handle : CopyDataIn(h, g, alloc) /\ Promise(h, Arr(g).len)
            \/ ReallocateIn(h, alloc) /\ UNCHANGED promised
       \/ \E n \in Additions :
            Adding(h, n) /\ Promise(h, Larger(promised[h], Arr(h).len + n))
       \/ Pop(h) /\ UNCHANGED promised
       \/ Free(h) /\ Promise(h, 0)

ReserveSpec == ReserveInit /\ [][ReserveNext]_reserveVars

-----------------------------------------------------------------------------

\* A reservation lasts: up to the length an array was promised room for, no
\* call that adds to it fails, stops the program, or moves it to another
\* block, whatever was popped, pushed and reallocated since.  So one of its
\* own items can be pushed, and the array appended to itself.
ReserveIsKept ==
    [][\A h \in Live, n \in Additions :
          Arr(h).len + n <= promised[h] /\ Adding(h, n)
             => ret' = "OK" /\ self' = self]_reserveVars
=============================================================================
