------------------------------ MODULE BoxList ------------------------------
(***************************************************************************)
(* The list of boxes, linked and sorted by name (utils/utility_funcs.c:    *)
(* newBox_b, insertion_sort, find_box and remove_box), used by one thread  *)
(* that passes either the address of a head, as the functions are written  *)
(* for, or NULL, as the broker and the manager do (their head is a box *   *)
(* that stays NULL).  Each iteration of a loop is a step; names are ranks, *)
(* compared as strcmp compares the strings.  The other fields of a box     *)
(* are not read by these functions and are left out.                       *)
(***************************************************************************)
EXTENDS Integers, FiniteSets

CONSTANTS Box,          \* the addresses newBox_b may return
          NULL,
          Name          \* ranks of box names

ASSUME BoxAssumption == NULL \notin Box /\ Name \subseteq Int

VARIABLES
  head,                 \* *head
  next, box_name,       \* the fields of every box
  created,              \* what newBox_b returned; no box is ever freed
  op, pc,               \* the last function called, and where it is
  aux,                  \* current of insertion_sort, aux of the others, during a call
  arg,                  \* the new box, or the name that was passed
  result                \* what the last call returned

vars == <<head, next, box_name, created, op, pc, aux, arg, result>>
list == <<head, next, box_name, created>>

Init ==
  /\ head = NULL /\ created = {}
  /\ next = [b \in Box |-> NULL]
  /\ box_name = [b \in Box |-> CHOOSE n \in Name : TRUE]
  /\ op = "none" /\ pc = "idle" /\ aux = NULL /\ arg = NULL /\ result = NULL

Call(function, argument) ==
  /\ pc = "idle"
  /\ op' = function /\ arg' = argument

InLoop(function) ==
  /\ pc = "loop" /\ op = function
  /\ UNCHANGED <<op, arg>>

Enter == pc' = "loop" /\ aux' = head /\ UNCHANGED result
SkipOne ==                                     \* mutant: aux->next->next
  /\ aux' = IF next[aux] = NULL THEN NULL ELSE next[next[aux]]
  /\ UNCHANGED <<pc, result>>
Advance == aux' = next[aux] /\ UNCHANGED <<pc, result>>
Return(v) == pc' = "idle" /\ result' = v /\ aux' = NULL
Crash == pc' = "crashed" /\ result' = NULL /\ aux' = NULL     \* NULL is dereferenced

-----------------------------------------------------------------------------
(* newBox_b and insertion_sort *)

newBox_b(new, name) ==
  /\ Call("newBox_b", new) /\ new \notin created
  /\ created' = created \cup {new}
  /\ box_name' = [box_name EXCEPT ![new] = name]
  /\ next' = [next EXCEPT ![new] = NULL]
  /\ Return(new)
  /\ UNCHANGED head

\* The new box goes before the first one whose name is not smaller, or last.
Backwards(b, name) == b # NULL => box_name[b] <= name   \* mutant: the order is reversed
NotBefore(b, name) == b # NULL => box_name[b] >= name

\* Its callers insert the box that they have just created.  A head that is NULL
\* is dereferenced.
insertion_sort(new) ==
  /\ op = "newBox_b" /\ result = new
  /\ Call("insertion_sort", new)
  /\ UNCHANGED <<box_name, created>>
  /\ \/ /\ NotBefore(head, box_name[new])
        /\ next' = [next EXCEPT ![new] = head]
        /\ head' = new
        /\ Return(new)
     \/ /\ ~NotBefore(head, box_name[new])
        /\ Enter
        /\ UNCHANGED <<head, next>>
     \/ Crash /\ UNCHANGED <<head, next>>

\* mutant: current->next is assigned first
LinkSwapped(new) == [next EXCEPT ![aux] = new, ![new] = new]
LinkAfterAux(new) == [next EXCEPT ![new] = next[aux], ![aux] = new]

InsertStep ==
  /\ InLoop("insertion_sort")
  /\ UNCHANGED <<head, box_name, created>>
  /\ \/ /\ ~NotBefore(next[aux], box_name[arg])
        /\ Advance
        /\ UNCHANGED next
     \/ /\ NotBefore(next[aux], box_name[arg])
        /\ next' = LinkAfterAux(arg)
        /\ Return(arg)

-----------------------------------------------------------------------------
(* find_box *)

\* Given NULL it returns NULL, given the address of a head it looks at the list.
find_box(name) ==
  /\ Call("find_box", name)
  /\ Return(NULL) \/ Enter
  /\ UNCHANGED list

\* strcmp is not 0, and so the box is "found", when the names differ.
FindStep ==
  /\ InLoop("find_box")
  /\ UNCHANGED list
  /\ \/ aux = NULL /\ Return(NULL)
     \/ aux # NULL /\ box_name[aux] # arg /\ Return(aux)
     \/ aux # NULL /\ box_name[aux] = arg /\ Advance

-----------------------------------------------------------------------------
(* remove_box *)

\* A head that is NULL is dereferenced, and the first box of an empty list too.
remove_box(name) ==
  /\ Call("remove_box", name)
  /\ UNCHANGED <<next, box_name, created>>
  /\ \/ Crash /\ UNCHANGED head
     \/ head # NULL /\ box_name[head] = name /\ head' = next[head] /\ Return(TRUE)
     \/ head # NULL /\ box_name[head] # name /\ Enter /\ UNCHANGED head

\* Nothing in the loop moves aux: it only ever looks at the second box.
RemoveStep ==
  /\ InLoop("remove_box")
  /\ UNCHANGED <<head, box_name, created>>
  /\ \/ /\ next[aux] = NULL
        /\ Crash
        /\ UNCHANGED next
     \/ /\ next[aux] # NULL /\ box_name[next[aux]] = arg
        /\ next' = [next EXCEPT ![aux] = next[next[aux]]]
        /\ Return(TRUE)
     \/ /\ next[aux] # NULL /\ box_name[next[aux]] # arg
        /\ UNCHANGED <<next, pc, aux, result>>

-----------------------------------------------------------------------------
(* The specification *)

LoopStep == InsertStep \/ FindStep \/ RemoveStep

Next ==
  \/ LoopStep
  \/ \E new \in Box, name \in Name : newBox_b(new, name)
  \/ \E new \in Box : insertion_sort(new)
  \/ \E name \in Name : find_box(name) \/ remove_box(name)

Spec == Init /\ [][Next]_vars

\* The thread that called a function runs until it returns.
FairSpec == Spec /\ WF_vars(LoopStep)

-----------------------------------------------------------------------------
(* Properties *)

\* The boxes that next leads to from start, itself included: those in every set
\* that has start and keeps the way on from each of its boxes.
Closed(S, nxt) == \A b \in S : nxt[b] \in S \cup {NULL}
Reach(start, nxt, all) ==
  {b \in all : \A S \in SUBSET all : start \in S \cup {NULL} /\ Closed(S, nxt) => b \in S}
From(start) == Reach(start, next, created)
Listed == From(head)

\* Pointers are NULL or point to boxes that were created, and a loop that is
\* entered has a box to look at.
TypeOK ==
  /\ created \subseteq Box
  /\ head \in created \cup {NULL}
  /\ \A b \in created : next[b] \in created \cup {NULL} /\ box_name[b] \in Name
  /\ pc \in {"idle", "loop", "crashed"}
  /\ aux \in created \cup {NULL}
  /\ pc = "loop" /\ op # "find_box" => aux # NULL

\* The list is in the order of the names at every step, also between the
\* iterations of an insertion; and so is the way on from a box that was
\* removed, which is never freed.
Sorted == \A b \in created : next[b] # NULL => box_name[b] <= box_name[next[b]]

\* insertion_sort adds the box it is given, remove_box takes away one box of
\* the name it is given, and neither loses another one, wherever in the list
\* the pointers change.
OthersKept ==
  \/ Listed' = Listed
  \/ /\ op' = "insertion_sort" /\ pc' = "idle"
     /\ arg' \notin Listed /\ Listed' = Listed \cup {arg'}
  \/ /\ op' = "remove_box" /\ pc' = "idle"
     /\ \E b \in Listed : box_name[b] = arg' /\ Listed' = Listed \ {b}
KeepsTheOthers == [][OthersKept]_vars

\* No box leads back to itself, whatever was inserted and removed, in the middle
\* of an insertion too: every walk along next comes to an end.
NoCycle == \A b \in created : b \notin From(next[b])

\* The loops of insertion_sort and find_box come to an end for every list that
\* these functions build, with equal names too: the list has no cycle.
LoopsEnd == pc = "loop" /\ op # "remove_box" ~> pc # "loop"

\* "Function that removes an element in list of boxes": it returns.
RemoveReturns == op = "remove_box" /\ pc = "loop" ~> pc # "loop"
=============================================================================
