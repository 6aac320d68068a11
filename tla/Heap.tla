--------------------------------- MODULE Heap ---------------------------------
(***************************************************************************)
(* What an allocator promises its application: malloc returns a block that *)
(* nobody holds, and a block keeps its contents until it is freed.         *)
(***************************************************************************)
CONSTANT Block      \* everything malloc may return

VARIABLES
  held,             \* the blocks the application holds
  damaged           \* those that have lost their contents

Init == held = {} /\ damaged = {}

Malloc(b) ==
  /\ b \notin held
  /\ held' = held \cup {b}
  /\ UNCHANGED damaged

Free(b) ==
  /\ b \in held
  /\ held' = held \ {b}
  /\ UNCHANGED damaged

Next == \E b \in Block : Malloc(b) \/ Free(b)

Spec == Init /\ [][Next]_<<held, damaged>>
===============================================================================
