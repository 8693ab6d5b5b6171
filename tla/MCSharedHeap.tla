---------------------------- MODULE MCSharedHeap ----------------------------
(* Programs for SharedHeap: two allocations, a global barrier, a use, one    *)
(* more allocation, another barrier, another use; or two local barriers, of  *)
(* which one is destroyed as soon as its cores have waited at it.            *)
EXTENDS SharedHeap

SmallSizes == [l \in {0, 1} |-> 4 + l]

None == [call |-> "barrier", arena |-> <<0, 0>>, size |-> 1, align |-> 1,
         block |-> 0, core |-> 0]

Alloc(call, owner, level, size, align) ==
  [None EXCEPT !.call = call, !.arena = <<owner, level>>, !.size = size, !.align = align]

Use(call, block, core) == [None EXCEPT !.call = call, !.block = block, !.core = core]

Allocations ==
  {Alloc("alloc", 0, 0, 1, 1), Alloc("alloc", 0, 0, 1, 2), Alloc("calloc", 0, 0, 2, 1),
   Alloc("calloc", 1, 1, 1, 1), Alloc("lbarrier", 0, 0, BarrierSize, 1),
   Alloc("lbarrier", 1, 1, BarrierSize, 1)}

Uses1 == {Use("write", 1, 0), Use("write", 2, 1), Use("lwait", 1, 0), Use("lwait", 2, 0)}
Uses2 == {Use("write", 1, 1), Use("write", 5, 0), Use("lwait", 1, 0), Use("lwait", 5, 0),
          Use("ldestroy", 2, 1)}

SmallPrograms ==
  {p \in {<<a, b, None, u, d, None, v>> : a \in Allocations, b \in Allocations,
                                          d \in Allocations, u \in Uses1, v \in Uses2} :
     Sound(p)}
  \cup
  {p \in {<<a, b, None, w, Use("ldestroy", w.block, c), d>> :
             a \in Allocations, b \in Allocations, w \in Uses1, c \in Cores,
             d \in Allocations} :
     Sound(p)}
=============================================================================
