--------------------------- MODULE BoxListProofs ---------------------------
(***************************************************************************)
(* Theorems about BoxList, for lists of any length and any names.          *)
(***************************************************************************)
EXTENDS BoxList, FiniteSetTheorems, TLAPS

\* The box that insertion_sort is given, or that newBox_b returned.
New == IF op = "newBox_b" THEN result ELSE arg

\* What makes Sorted inductive: newBox_b and insertion_sort have a box that
\* was created, and an insertion only passes boxes with smaller names.
Ordered ==
  /\ TypeOK /\ Sorted
  /\ DOMAIN next = Box /\ DOMAIN box_name = Box
  /\ op = "newBox_b" \/ (op = "insertion_sort" /\ pc = "loop") => New \in created
  /\ op = "insertion_sort" /\ pc = "loop" => box_name[aux] < box_name[arg]

\* The names of created boxes are integers, and NULL is none of the boxes.
LEMMA NamesAreIntegers ==
  ASSUME TypeOK
  PROVE  /\ NULL \notin created
         /\ \A b \in created : b \in Box /\ box_name[b] \in Int
BY BoxAssumption DEF TypeOK

\* A new box is last in no list and first in none.
LEMMA NewBoxOrdered ==
  ASSUME Ordered, NEW new \in Box, NEW name \in Name, newBox_b(new, name)
  PROVE  Ordered'
<1> USE BoxAssumption
<1>1. /\ next' = [next EXCEPT ![new] = NULL] /\ box_name' = [box_name EXCEPT ![new] = name]
      /\ created' = created \cup {new} /\ new \notin created
      /\ op' = "newBox_b" /\ pc' = "idle" /\ result' = new /\ head' = head /\ aux' = NULL
  BY DEF newBox_b, Call, Return
<1>2. /\ \A b \in created : next'[b] = next[b] /\ box_name'[b] = box_name[b]
      /\ next'[new] = NULL /\ box_name'[new] = name
      /\ DOMAIN next' = Box /\ DOMAIN box_name' = Box
  BY <1>1 DEF Ordered, TypeOK
<1>3. TypeOK'
  BY <1>1, <1>2 DEF Ordered, TypeOK
<1>4. Sorted'
  <2>1. \A b \in created : next[b] # NULL => next[b] \in created
    BY DEF Ordered, TypeOK
  <2> QED
    BY <1>1, <1>2, <2>1 DEF Ordered, Sorted
<1> QED
  BY <1>1, <1>2, <1>3, <1>4 DEF Ordered, New

\* Linking a box into the list, or out of it, keeps it sorted: what changes is
\* the way on from two boxes at most.
LEMMA InsertOrdered ==
  ASSUME Ordered, NEW new \in Box, insertion_sort(new)
  PROVE  Ordered'
<1> USE BoxAssumption
<1>1. /\ new \in created /\ op' = "insertion_sort" /\ arg' = new
      /\ created' = created /\ box_name' = box_name
  BY DEF insertion_sort, Call, Ordered, New
<1>2. CASE /\ NotBefore(head, box_name[new])
           /\ next' = [next EXCEPT ![new] = head]
           /\ head' = new
           /\ Return(new)
  <2>1. /\ pc' = "idle" /\ aux' = NULL /\ DOMAIN next' = Box
        /\ next'[new] = head /\ \A b \in created : b # new => next'[b] = next[b]
    BY <1>1, <1>2 DEF Return, Ordered, TypeOK
  <2>2. TypeOK'
    BY <1>1, <1>2, <2>1 DEF Ordered, TypeOK
  <2>3. Sorted'
    BY <1>1, <1>2, <2>1 DEF Ordered, Sorted, NotBefore
  <2> QED
    BY <1>1, <2>1, <2>2, <2>3 DEF Ordered
<1>3. CASE /\ ~NotBefore(head, box_name[new])
           /\ Enter
           /\ UNCHANGED <<head, next>>
  <2>1. head # NULL /\ head \in created /\ aux' = head /\ pc' = "loop"
    BY <1>3 DEF NotBefore, Enter, Ordered, TypeOK
  <2>2. box_name[head] < box_name[new]
    BY <1>1, <1>3, <2>1, NamesAreIntegers DEF NotBefore, Ordered
  <2>3. TypeOK'
    BY <1>1, <1>3, <2>1 DEF Ordered, TypeOK
  <2> QED
    BY <1>1, <1>3, <2>1, <2>2, <2>3 DEF Ordered, Sorted, New
<1>4. CASE Crash /\ UNCHANGED <<head, next>>
  BY <1>1, <1>4 DEF Crash, Ordered, TypeOK, Sorted, New
<1> QED
  BY <1>2, <1>3, <1>4 DEF insertion_sort

LEMMA InsertStepOrdered ==
  ASSUME Ordered, InsertStep
  PROVE  Ordered'
<1> USE BoxAssumption
<1>1. /\ op = "insertion_sort" /\ pc = "loop" /\ UNCHANGED <<op, arg, head, box_name, created>>
      /\ arg \in created /\ aux \in created /\ box_name[aux] < box_name[arg]
  BY DEF InsertStep, InLoop, Ordered, New, TypeOK
<1>2. CASE ~NotBefore(next[aux], box_name[arg]) /\ Advance /\ UNCHANGED next
  <2>1. next[aux] # NULL /\ next[aux] \in created /\ aux' = next[aux] /\ pc' = pc
    BY <1>1, <1>2 DEF NotBefore, Advance, Ordered, TypeOK
  <2>2. box_name[next[aux]] < box_name[arg]
    BY <1>1, <1>2, <2>1, NamesAreIntegers DEF NotBefore, Ordered
  <2>3. TypeOK'
    BY <1>1, <1>2, <2>1 DEF Ordered, TypeOK
  <2> QED
    BY <1>1, <1>2, <2>1, <2>2, <2>3 DEF Ordered, Sorted, New
<1>3. CASE /\ NotBefore(next[aux], box_name[arg])
           /\ next' = LinkAfterAux(arg)
           /\ Return(arg)
  <2>1. aux # arg
    BY <1>1, NamesAreIntegers DEF Ordered
  <2>2. /\ pc' = "idle" /\ aux' = NULL /\ DOMAIN next' = Box
        /\ next'[arg] = next[aux] /\ next'[aux] = arg
        /\ \A b \in created : b \notin {arg, aux} => next'[b] = next[b]
    BY <1>1, <1>3, <2>1 DEF Return, LinkAfterAux, Ordered, TypeOK
  <2>3. TypeOK'
    BY <1>1, <2>2 DEF Ordered, TypeOK
  <2>4. box_name[aux] <= box_name[arg]
    BY <1>1, NamesAreIntegers DEF Ordered
  <2>5. Sorted'
    BY <1>1, <1>3, <2>2, <2>4 DEF Ordered, Sorted, NotBefore
  <2> QED
    BY <1>1, <2>2, <2>3, <2>5 DEF Ordered
<1> QED
  BY <1>2, <1>3 DEF InsertStep

LEMMA RemoveOrdered ==
  ASSUME Ordered, RemoveStep \/ \E name \in Name : remove_box(name)
  PROVE  Ordered'
<1> USE BoxAssumption
<1>1. op' = "remove_box" /\ UNCHANGED <<box_name, created>>
  BY DEF RemoveStep, InLoop, remove_box, Call
<1>2. CASE /\ UNCHANGED next /\ head' \in created \cup {NULL}
           /\ \/ pc' \in {"idle", "crashed"} /\ aux' = NULL
              \/ pc' = "loop" /\ aux' \in created
  <2>1. TypeOK'
    BY <1>1, <1>2 DEF Ordered, TypeOK
  <2> QED
    BY <1>1, <1>2, <2>1 DEF Ordered, Sorted
<1>3. CASE /\ RemoveStep /\ next[aux] # NULL
           /\ next' = [next EXCEPT ![aux] = next[next[aux]]] /\ Return(TRUE)
  <2>1. aux \in created /\ next[aux] \in created /\ head' = head
    BY <1>3 DEF RemoveStep, InLoop, Ordered, TypeOK
  <2>2. /\ pc' = "idle" /\ aux' = NULL /\ DOMAIN next' = Box
        /\ next'[aux] = next[next[aux]] /\ \A b \in created : b # aux => next'[b] = next[b]
    BY <1>3, <2>1 DEF Return, Ordered, TypeOK
  <2>3. TypeOK'
    BY <1>1, <2>1, <2>2 DEF Ordered, TypeOK
  <2>4. next'[aux] # NULL => box_name[aux] <= box_name[next'[aux]]
    <3>1. next'[aux] # NULL => next'[aux] \in created
      BY <2>1, <2>2 DEF Ordered, TypeOK
    <3> QED
      BY <1>3, <2>1, <2>2, <3>1, NamesAreIntegers DEF Ordered, Sorted
  <2>5. Sorted'
    BY <1>1, <2>2, <2>4 DEF Ordered, Sorted
  <2> QED
    BY <1>1, <2>2, <2>3, <2>5 DEF Ordered
<1>4. ASSUME NEW name \in Name, remove_box(name)
      PROVE  Ordered'
  BY <1>2, <1>4 DEF remove_box, Return, Crash, Enter, Ordered, TypeOK
<1>5. CASE RemoveStep
  BY <1>2, <1>3, <1>5 DEF RemoveStep, InLoop, Return, Crash, Ordered, TypeOK
<1> QED
  BY <1>4, <1>5

LEMMA OrderedStep == Ordered /\ [Next]_vars => Ordered'
<1> SUFFICES ASSUME Ordered, [Next]_vars PROVE Ordered'
  OBVIOUS
<1>1. ASSUME UNCHANGED list, op' = "find_box",
             \/ pc' \in {"idle", "loop"} /\ aux' \in created \cup {NULL}
      PROVE  Ordered'
  BY <1>1 DEF Ordered, TypeOK, Sorted, list
<1>2. CASE \E name \in Name : find_box(name)
  BY <1>1, <1>2 DEF find_box, Call, Enter, Return, Ordered, TypeOK
<1>3. CASE FindStep
  BY <1>1, <1>3 DEF FindStep, InLoop, Return, Advance, Ordered, TypeOK
<1>4. CASE UNCHANGED vars
  BY <1>4 DEF Ordered, TypeOK, Sorted, New, vars
<1> QED
  BY <1>2, <1>3, <1>4, NewBoxOrdered, InsertOrdered, InsertStepOrdered, RemoveOrdered
  DEF Next, LoopStep

LEMMA OrderedAlways == Spec => []Ordered
<1>1. Init => Ordered
  BY BoxAssumption DEF Init, Ordered, TypeOK, Sorted
<1> QED
  BY <1>1, OrderedStep, PTL DEF Spec

-----------------------------------------------------------------------------
(* What next leads to *)

\* Pointers lead to boxes or to NULL, and each set of boxes has one that leads
\* out of it.  NoCycle says the second for the sets that next walks through.
Pointers(nxt, all) == NULL \notin all /\ Closed(all, nxt)
Ends(nxt, all) == \A S \in SUBSET all : S # {} => \E b \in S : nxt[b] \notin S

\* Reach is the least set that is closed and has the start.
LEMMA ReachClosed ==
  ASSUME NEW start, NEW nxt, NEW all, Pointers(nxt, all), start \in all \cup {NULL}
  PROVE  /\ Reach(start, nxt, all) \in SUBSET all
         /\ start \in Reach(start, nxt, all) \cup {NULL}
         /\ Closed(Reach(start, nxt, all), nxt)
BY DEF Reach, Closed, Pointers

LEMMA ReachWithin ==
  ASSUME NEW start, NEW nxt, NEW all, NEW S \in SUBSET all,
         start \in S \cup {NULL}, Closed(S, nxt)
  PROVE  Reach(start, nxt, all) \subseteq S
BY DEF Reach

LEMMA ReachLeast ==
  ASSUME NEW start, NEW nxt, NEW all, NEW R \in SUBSET all,
         start \in R \cup {NULL}, Closed(R, nxt),
         \A S \in SUBSET all : start \in S \cup {NULL} /\ Closed(S, nxt) => R \subseteq S
  PROVE  Reach(start, nxt, all) = R
BY DEF Reach

LEMMA ReachNothing ==
  ASSUME NEW nxt, NEW all
  PROVE  Reach(NULL, nxt, all) = {}
<1>1. Closed({}, nxt)
  BY DEF Closed
<1> QED
  BY <1>1, ReachWithin

\* A box leads to itself and to where the next one leads.
LEMMA ReachStep ==
  ASSUME NEW nxt, NEW all, Pointers(nxt, all), NEW b \in all
  PROVE  Reach(b, nxt, all) = {b} \cup Reach(nxt[b], nxt, all)
<1> DEFINE R == {b} \cup Reach(nxt[b], nxt, all)
<1>1. nxt[b] \in all \cup {NULL}
  BY DEF Pointers, Closed
<1>2. R \in SUBSET all /\ Closed(R, nxt)
  BY <1>1, ReachClosed DEF Closed
<1>3. ASSUME NEW S \in SUBSET all, b \in S \cup {NULL}, Closed(S, nxt)
      PROVE  R \subseteq S
  <2>1. b \in S /\ nxt[b] \in S \cup {NULL}
    BY <1>3 DEF Closed, Pointers
  <2> QED
    BY <1>3, <2>1, ReachWithin
<1> QED
  BY <1>2, <1>3, ReachLeast

\* Whoever is reached leads no further.
LEMMA ReachOn ==
  ASSUME NEW start, NEW nxt, NEW all, Pointers(nxt, all), start \in all \cup {NULL},
         NEW b \in Reach(start, nxt, all)
  PROVE  /\ b \in all
         /\ Reach(b, nxt, all) \subseteq Reach(start, nxt, all)
         /\ nxt[b] \in Reach(start, nxt, all) \cup {NULL}
BY ReachClosed, ReachWithin DEF Closed

\* If b led back to itself, no box that leads to b would lead out of these boxes.
LEMMA ReachOnce ==
  ASSUME NEW nxt, NEW all, Pointers(nxt, all), Ends(nxt, all), NEW b \in all
  PROVE  b \notin Reach(nxt[b], nxt, all)
<1> SUFFICES ASSUME b \in Reach(nxt[b], nxt, all) PROVE FALSE
  OBVIOUS
<1> DEFINE S == {c \in all : b \in Reach(c, nxt, all)}
<1>1. b \in S
  BY ReachStep
<1>2. ASSUME NEW c \in S PROVE nxt[c] \in S
  <2>1. b \in Reach(nxt[c], nxt, all)
    BY ReachStep
  <2>2. nxt[c] \in all
    BY <2>1, ReachNothing DEF Pointers, Closed
  <2> QED
    BY <2>1, <2>2
<1>3. PICK c \in S : nxt[c] \notin S
  BY <1>1 DEF Ends
<1> QED
  BY <1>2, <1>3

\* Of two boxes that are reached, one leads to the other.
LEMMA ReachLinear ==
  ASSUME NEW start, NEW nxt, NEW all, Pointers(nxt, all), start \in all \cup {NULL},
         NEW x \in Reach(start, nxt, all), NEW y \in Reach(start, nxt, all)
  PROVE  x \in Reach(y, nxt, all) \/ y \in Reach(x, nxt, all)
<1> DEFINE S == {b \in Reach(start, nxt, all) :
                   b \in Reach(y, nxt, all) \/ y \in Reach(b, nxt, all)}
<1>1. S \in SUBSET all /\ y \in all
  BY ReachOn
<1>2. start \in S \cup {NULL}
  BY ReachClosed
<1>3. ASSUME NEW b \in S PROVE nxt[b] \in S \cup {NULL}
  <2>1. b \in all /\ nxt[b] \in Reach(start, nxt, all) \cup {NULL}
    BY ReachOn
  <2>2. CASE b \in Reach(y, nxt, all)
    BY <1>1, <2>1, <2>2, ReachOn
  <2>3. CASE y \in Reach(b, nxt, all) /\ b \notin Reach(y, nxt, all)
    <3>1. y # b
      BY <1>1, <2>3, ReachStep
    <3> QED
      BY <2>1, <2>3, <3>1, ReachStep
  <2> QED
    BY <2>2, <2>3
<1>4. Closed(S, nxt)
  BY <1>3 DEF Closed
<1> QED
  BY <1>1, <1>2, <1>4, ReachWithin

\* A box of the list has one predecessor in it, and the first box has none.
LEMMA OnePredecessor ==
  ASSUME NEW start, NEW nxt, NEW all, Pointers(nxt, all), Ends(nxt, all),
         start \in all \cup {NULL},
         NEW x \in Reach(start, nxt, all), nxt[x] # NULL
  PROVE  /\ nxt[x] # start
         /\ \A y \in Reach(start, nxt, all) : nxt[y] = nxt[x] => x = y
<1>1. x \in all /\ x \notin Reach(nxt[x], nxt, all)
  BY ReachOn, ReachOnce
<1>2. ASSUME NEW y \in Reach(start, nxt, all), nxt[y] = nxt[x], x # y PROVE FALSE
  <2>1. y \in all /\ y \notin Reach(nxt[x], nxt, all)
    BY <1>2, ReachOn, ReachOnce
  <2> QED
    BY <1>1, <1>2, <2>1, ReachLinear, ReachStep
<1> QED
  BY <1>1, <1>2

-----------------------------------------------------------------------------
(* What the assignments of newBox_b, insertion_sort and remove_box do to it *)

\* newBox_b: another box, which is not in the list.
LEMMA AnotherBox ==
  ASSUME NEW start, NEW nxt, NEW all, Pointers(nxt, all), Ends(nxt, all),
         start \in all \cup {NULL},
         NEW n, n \notin all, n # NULL,
         NEW nxt2, nxt2[n] = NULL, \A b \in all : nxt2[b] = nxt[b]
  PROVE  /\ Reach(start, nxt2, all \cup {n}) = Reach(start, nxt, all)
         /\ Ends(nxt2, all \cup {n})
         /\ n # start /\ \A b \in all \cup {n} : nxt2[b] # n
<1>1. n # start /\ \A b \in all \cup {n} : nxt2[b] # n
  BY DEF Pointers, Closed
<1>2. Ends(nxt2, all \cup {n})
  <2> SUFFICES ASSUME NEW S \in SUBSET (all \cup {n}), S # {}
               PROVE  \E b \in S : nxt2[b] \notin S
    BY DEF Ends
  <2>1. CASE S \ {n} = {}
    BY <1>1, <2>1
  <2>2. CASE S \ {n} # {}
    <3>1. PICK b \in S \ {n} : nxt[b] \notin S \ {n}
      BY <2>2 DEF Ends
    <3> QED
      BY <1>1, <3>1
  <2> QED
    BY <2>1, <2>2
<1> DEFINE R == Reach(start, nxt, all)
<1>3. R \in SUBSET (all \cup {n}) /\ start \in R \cup {NULL} /\ Closed(R, nxt2)
  BY ReachClosed DEF Closed
<1>4. ASSUME NEW S \in SUBSET (all \cup {n}), start \in S \cup {NULL}, Closed(S, nxt2)
      PROVE  R \subseteq S
  <2>1. Closed(S \cap all, nxt)
    BY <1>4 DEF Closed, Pointers
  <2> QED
    BY <1>4, <2>1, ReachWithin
<1> QED
  BY <1>1, <1>2, <1>3, <1>4, ReachLeast

\* A box that nothing leads to is put in front of the list.
LEMMA LinkFirst ==
  ASSUME NEW start, NEW nxt, NEW all, Pointers(nxt, all), Ends(nxt, all),
         start \in all \cup {NULL},
         NEW n \in all, n # start, \A b \in all : nxt[b] # n,
         NEW nxt2, nxt2[n] = start, \A b \in all : b # n => nxt2[b] = nxt[b]
  PROVE  /\ Reach(n, nxt2, all) = Reach(start, nxt, all) \cup {n}
         /\ n \notin Reach(start, nxt, all)
         /\ Ends(nxt2, all)
<1> DEFINE R == Reach(start, nxt, all)
<1>1. n \notin R
  <2>1. Closed(all \ {n}, nxt)
    BY DEF Closed, Pointers
  <2> QED
    BY <2>1, ReachWithin
<1>2. Ends(nxt2, all)
  <2> SUFFICES ASSUME NEW S \in SUBSET all, S # {} PROVE \E b \in S : nxt2[b] \notin S
    BY DEF Ends
  <2>1. CASE S \ {n} = {}
    BY <2>1
  <2>2. CASE S \ {n} # {}
    <3>1. PICK b \in S \ {n} : nxt[b] \notin S \ {n}
      BY <2>2 DEF Ends
    <3> QED
      BY <3>1
  <2> QED
    BY <2>1, <2>2
<1>3. R \cup {n} \in SUBSET all /\ Closed(R \cup {n}, nxt2)
  BY ReachClosed DEF Closed
<1>4. ASSUME NEW S \in SUBSET all, n \in S \cup {NULL}, Closed(S, nxt2)
      PROVE  R \cup {n} \subseteq S
  <2>1. n \in S /\ start \in (S \ {n}) \cup {NULL}
    BY <1>4 DEF Closed, Pointers
  <2>2. Closed(S \ {n}, nxt)
    BY <1>4 DEF Closed, Pointers
  <2> QED
    BY <2>1, <2>2, ReachWithin
<1> QED
  BY <1>1, <1>2, <1>3, <1>4, ReachLeast

\* A box that nothing leads to is put behind one of the list.
LEMMA LinkBehind ==
  ASSUME NEW start, NEW nxt, NEW all, Pointers(nxt, all), Ends(nxt, all),
         start \in all \cup {NULL}, NEW a \in Reach(start, nxt, all),
         NEW n \in all, n # start, \A b \in all : nxt[b] # n,
         NEW nxt2, nxt2[n] = nxt[a], nxt2[a] = n,
         \A b \in all : b \notin {a, n} => nxt2[b] = nxt[b]
  PROVE  /\ Reach(start, nxt2, all) = Reach(start, nxt, all) \cup {n}
         /\ n \notin Reach(start, nxt, all)
         /\ Ends(nxt2, all)
<1> DEFINE R == Reach(start, nxt, all)
<1>1. n \notin R /\ a \in all
  <2>1. Closed(all \ {n}, nxt)
    BY DEF Closed, Pointers
  <2> QED
    BY <2>1, ReachWithin, ReachOn
<1>2. Ends(nxt2, all)
  <2> SUFFICES ASSUME NEW S \in SUBSET all, S # {} PROVE \E b \in S : nxt2[b] \notin S
    BY DEF Ends
  <2>1. CASE S \ {n} = {}
    BY <1>1, <2>1
  <2>2. CASE S \ {n} # {}
    <3>1. PICK b \in S \ {n} : nxt[b] \notin S \ {n}
      BY <2>2 DEF Ends
    <3>2. nxt[b] \notin S
      BY <3>1
    <3> QED
      BY <3>1, <3>2
  <2> QED
    BY <2>1, <2>2
<1>3. /\ R \cup {n} \in SUBSET all /\ start \in R \cup {n} \cup {NULL}
      /\ Closed(R \cup {n}, nxt2)
  BY ReachClosed DEF Closed
<1>4. ASSUME NEW S \in SUBSET all, start \in S \cup {NULL}, Closed(S, nxt2)
      PROVE  R \cup {n} \subseteq S
  <2>1. Closed(S \ {n}, nxt)
    <3> SUFFICES ASSUME NEW b \in S, b # n PROVE nxt[b] \in (S \ {n}) \cup {NULL}
      BY DEF Closed
    <3>1. CASE b = a
      BY <1>1, <1>4, <3>1 DEF Closed, Pointers
    <3>2. CASE b # a
      BY <1>4, <3>2 DEF Closed, Pointers
    <3> QED
      BY <3>1, <3>2
  <2>2. R \subseteq S \ {n}
    BY <1>4, <2>1, ReachWithin
  <2>3. n \in S
    BY <1>4, <2>2 DEF Closed, Pointers
  <2> QED
    BY <2>2, <2>3
<1> QED
  BY <1>1, <1>2, <1>3, <1>4, ReachLeast

\* The first box is taken out.
LEMMA UnlinkFirst ==
  ASSUME NEW nxt, NEW all, Pointers(nxt, all), Ends(nxt, all), NEW start \in all
  PROVE  /\ Reach(nxt[start], nxt, all) = Reach(start, nxt, all) \ {start}
         /\ start \in Reach(start, nxt, all)
BY ReachStep, ReachOnce

\* The box behind one of the list is taken out.
LEMMA UnlinkBehind ==
  ASSUME NEW start, NEW nxt, NEW all, Pointers(nxt, all), Ends(nxt, all),
         start \in all \cup {NULL}, NEW a \in Reach(start, nxt, all), nxt[a] # NULL,
         NEW nxt2, nxt2[a] = nxt[nxt[a]], \A b \in all : b # a => nxt2[b] = nxt[b]
  PROVE  /\ Reach(start, nxt2, all) = Reach(start, nxt, all) \ {nxt[a]}
         /\ nxt[a] \in Reach(start, nxt, all)
         /\ Ends(nxt2, all)
<1> DEFINE R == Reach(start, nxt, all)
           m == nxt[a]
<1> HIDE DEF m
<1>1. /\ a \in all /\ m \in R /\ m \in all /\ m # start
      /\ \A b \in R : nxt[b] = m => b = a
  BY ReachOn, OnePredecessor DEF m
<1>2. m # a /\ nxt[m] # m /\ nxt[a] = m /\ nxt2[a] = nxt[m]
  <2>1. \A b \in all : nxt[b] # b
    <3> SUFFICES ASSUME NEW b \in all, nxt[b] = b PROVE FALSE
      OBVIOUS
    <3>1. PICK c \in {b} : nxt[c] \notin {b}
      BY DEF Ends
    <3> QED
      BY <3>1
  <2> QED
    BY <1>1, <2>1 DEF m
<1>3. Ends(nxt2, all)
  <2> SUFFICES ASSUME NEW S \in SUBSET all, S # {} PROVE \E b \in S : nxt2[b] \notin S
    BY DEF Ends
  <2>1. CASE a \notin S
    BY <2>1 DEF Ends
  <2>2. CASE a \in S
    <3>1. PICK b \in S \cup {m} : nxt[b] \notin S \cup {m}
      BY <1>1 DEF Ends
    <3>2. b # a
      BY <1>2, <3>1
    <3>3. CASE b = m
      BY <1>2, <2>2, <3>1, <3>3
    <3>4. CASE b # m
      BY <3>1, <3>2, <3>4
    <3> QED
      BY <3>3, <3>4
  <2> QED
    BY <2>1, <2>2
<1>4. start \in (R \ {m}) \cup {NULL}
  BY <1>1, ReachClosed
<1>5. Closed(R \ {m}, nxt2)
  <2> SUFFICES ASSUME NEW b \in R, b # m PROVE nxt2[b] \in (R \ {m}) \cup {NULL}
    BY DEF Closed
  <2>1. nxt[b] \in R \cup {NULL} /\ nxt[m] \in R \cup {NULL} /\ b \in all
    BY <1>1, ReachOn
  <2> QED
    BY <1>1, <1>2, <2>1
<1>6. ASSUME NEW S \in SUBSET all, start \in S \cup {NULL}, Closed(S, nxt2)
      PROVE  R \ {m} \subseteq S
  <2>1. a \in S
    <3> SUFFICES ASSUME a \notin S PROVE FALSE
      OBVIOUS
    <3>1. Closed(S, nxt)
      BY <1>6 DEF Closed
    <3> QED
      BY <1>6, <3>1, ReachWithin
  <2>2. Closed(S \cup {m}, nxt)
    <3>1. nxt[m] \in S \cup {NULL}
      BY <1>2, <1>6, <2>1 DEF Closed
    <3> QED
      BY <1>2, <1>6, <3>1 DEF Closed
  <2>3. R \subseteq S \cup {m}
    BY <1>1, <1>6, <2>2, ReachWithin
  <2> QED
    BY <2>3
<1>7. R \ {m} \in SUBSET all
  BY ReachClosed
<1>8. Reach(start, nxt2, all) = R \ {m}
  BY <1>4, <1>5, <1>6, <1>7, ReachLeast
<1> QED
  BY <1>1, <1>3, <1>8 DEF m

-----------------------------------------------------------------------------
(* The list keeps its boxes *)

NothingLeadsTo(n) == n # head /\ \A b \in created : next[b] # n

\* What makes the list whole: nothing leads yet to the box that is to be
\* inserted, and a loop that changes a pointer stands on a box of the list.
Linked ==
  /\ Ordered
  /\ IsFiniteSet(created)
  /\ Ends(next, created)
  /\ op = "newBox_b" \/ (op = "insertion_sort" /\ pc = "loop") => NothingLeadsTo(New)
  /\ pc = "loop" /\ op \in {"insertion_sort", "remove_box"} => aux \in Listed

LEMMA LinkedPointers ==
  ASSUME Linked
  PROVE  /\ Pointers(next, created) /\ head \in created \cup {NULL}
         /\ Listed \subseteq created /\ head \in Listed \cup {NULL}
<1>1. Pointers(next, created) /\ head \in created \cup {NULL}
  BY BoxAssumption DEF Linked, Ordered, TypeOK, Pointers, Closed
<1> QED
  BY <1>1, ReachClosed DEF Listed, From

\* newBox_b leaves the list alone.
LEMMA NewBoxLinked ==
  ASSUME Linked, NEW new \in Box, NEW name \in Name, newBox_b(new, name), Ordered'
  PROVE  Linked' /\ Listed' = Listed
<1>1. /\ created' = created \cup {new} /\ new \notin created /\ new # NULL
      /\ head' = head /\ op' = "newBox_b" /\ pc' = "idle" /\ result' = new
      /\ next' = [next EXCEPT ![new] = NULL]
  BY BoxAssumption DEF newBox_b, Call, Return
<1>2. next'[new] = NULL /\ \A b \in created : next'[b] = next[b]
  BY <1>1 DEF Linked, Ordered
<1>3. /\ Reach(head, next', created \cup {new}) = Reach(head, next, created)
      /\ Ends(next', created \cup {new})
      /\ new # head /\ \A b \in created \cup {new} : next'[b] # new
  <2>1. /\ Pointers(next, created) /\ Ends(next, created) /\ head \in created \cup {NULL}
        /\ new \notin created /\ new # NULL
    BY <1>1, LinkedPointers DEF Linked
  <2> QED
    BY <1>2, <2>1, AnotherBox
<1>4. IsFiniteSet(created')
  BY <1>1, FS_AddElement DEF Linked
<1> QED
  BY <1>1, <1>3, <1>4 DEF Linked, Listed, From, NothingLeadsTo, New

\* insertion_sort puts the new box in front, or enters its loop at the head.
LEMMA InsertLinked ==
  ASSUME Linked, NEW new \in Box, insertion_sort(new), Ordered'
  PROVE  Linked' /\ OthersKept
<1>1. /\ new \in created /\ op' = "insertion_sort" /\ arg' = new
      /\ created' = created /\ box_name' = box_name
      /\ NothingLeadsTo(new)
  BY DEF insertion_sort, Call, Linked, Ordered, New
<1>2. CASE /\ NotBefore(head, box_name[new])
           /\ next' = [next EXCEPT ![new] = head]
           /\ head' = new
           /\ Return(new)
  <2>1. next'[new] = head /\ \A b \in created : b # new => next'[b] = next[b]
    BY <1>1, <1>2 DEF Linked, Ordered, TypeOK
  <2>2. /\ Reach(new, next', created) = Reach(head, next, created) \cup {new}
        /\ new \notin Reach(head, next, created)
        /\ Ends(next', created)
    <3>1. /\ Pointers(next, created) /\ Ends(next, created) /\ head \in created \cup {NULL}
          /\ new \in created /\ new # head /\ \A b \in created : next[b] # new
      BY <1>1, LinkedPointers DEF Linked, NothingLeadsTo
    <3> QED
      BY <2>1, <3>1, LinkFirst
  <2> QED
    BY <1>1, <1>2, <2>2 DEF Linked, OthersKept, Listed, From, Return
<1>3. CASE /\ ~NotBefore(head, box_name[new])
           /\ Enter
           /\ UNCHANGED <<head, next>>
  <2>1. head # NULL /\ aux' = head /\ pc' = "loop" /\ head' = head /\ next' = next
    BY <1>3 DEF NotBefore, Enter
  <2>2. Listed' = Listed /\ aux' \in Listed'
    BY <1>1, <2>1, LinkedPointers DEF Listed, From
  <2> QED
    BY <1>1, <2>1, <2>2 DEF Linked, OthersKept, NothingLeadsTo, New
<1>4. CASE Crash /\ UNCHANGED <<head, next>>
  BY <1>1, <1>4 DEF Crash, Linked, OthersKept, Listed, From
<1> QED
  BY <1>2, <1>3, <1>4 DEF insertion_sort

\* The loop goes on along the list, or puts the new box behind one of it.
LEMMA InsertStepLinked ==
  ASSUME Linked, InsertStep, Ordered'
  PROVE  Linked' /\ OthersKept
<1>1. /\ op = "insertion_sort" /\ pc = "loop" /\ UNCHANGED <<op, arg, head, box_name, created>>
      /\ arg \in created /\ aux \in Listed /\ aux \in created
      /\ NothingLeadsTo(arg)
      /\ box_name[aux] < box_name[arg]
  BY LinkedPointers DEF InsertStep, InLoop, Linked, Ordered, New
<1>2. CASE ~NotBefore(next[aux], box_name[arg]) /\ Advance /\ UNCHANGED next
  <2>1. next[aux] # NULL /\ aux' = next[aux] /\ pc' = pc /\ next' = next
    BY <1>2 DEF NotBefore, Advance
  <2>2. Listed' = Listed /\ aux' \in Listed'
    BY <1>1, <2>1, LinkedPointers, ReachOn DEF Listed, From
  <2> QED
    BY <1>1, <2>1, <2>2 DEF Linked, OthersKept, NothingLeadsTo, New
<1>3. CASE /\ NotBefore(next[aux], box_name[arg])
           /\ next' = LinkAfterAux(arg)
           /\ Return(arg)
  <2>1. aux # arg
    BY <1>1, NamesAreIntegers DEF Linked, Ordered
  <2>2. /\ next'[arg] = next[aux] /\ next'[aux] = arg
        /\ \A b \in created : b \notin {aux, arg} => next'[b] = next[b]
    BY <1>1, <1>3, <2>1 DEF LinkAfterAux, Linked, Ordered, TypeOK
  <2>3. /\ Reach(head, next', created) = Reach(head, next, created) \cup {arg}
        /\ arg \notin Reach(head, next, created)
        /\ Ends(next', created)
    <3>1. /\ Pointers(next, created) /\ Ends(next, created) /\ head \in created \cup {NULL}
          /\ aux \in Reach(head, next, created)
          /\ arg \in created /\ arg # head /\ \A b \in created : next[b] # arg
      BY <1>1, LinkedPointers DEF Linked, NothingLeadsTo, Listed, From
    <3> QED
      BY <2>2, <3>1, LinkBehind
  <2> QED
    BY <1>1, <1>3, <2>3 DEF Linked, OthersKept, Listed, From, Return
<1> QED
  BY <1>2, <1>3 DEF InsertStep

\* remove_box takes out the first box, or enters its loop at the head.
LEMMA RemoveLinked ==
  ASSUME Linked, NEW name \in Name, remove_box(name), Ordered'
  PROVE  Linked' /\ OthersKept
<1>1. op' = "remove_box" /\ arg' = name /\ UNCHANGED <<next, box_name, created>>
  BY DEF remove_box, Call
<1>2. CASE Crash /\ UNCHANGED head
  BY <1>1, <1>2 DEF Crash, Linked, OthersKept, Listed, From
<1>3. CASE head # NULL /\ box_name[head] = name /\ head' = next[head] /\ Return(TRUE)
  <2>1. /\ Reach(next[head], next, created) = Reach(head, next, created) \ {head}
        /\ head \in Reach(head, next, created)
    BY <1>3, LinkedPointers, UnlinkFirst DEF Linked
  <2> QED
    BY <1>1, <1>3, <2>1 DEF Linked, OthersKept, Listed, From, Return
<1>4. CASE head # NULL /\ box_name[head] # name /\ Enter /\ UNCHANGED head
  <2>1. Listed' = Listed /\ aux' \in Listed'
    BY <1>1, <1>4, LinkedPointers DEF Enter, Listed, From
  <2> QED
    BY <1>1, <1>4, <2>1 DEF Linked, OthersKept, Enter
<1> QED
  BY <1>2, <1>3, <1>4 DEF remove_box

\* The loop takes out the box behind aux, if it does anything.
LEMMA RemoveStepLinked ==
  ASSUME Linked, RemoveStep, Ordered'
  PROVE  Linked' /\ OthersKept
<1>1. /\ op = "remove_box" /\ pc = "loop" /\ UNCHANGED <<op, arg, head, box_name, created>>
      /\ aux \in Listed /\ aux \in created
  BY LinkedPointers DEF RemoveStep, InLoop, Linked
<1>2. CASE next[aux] = NULL /\ Crash /\ UNCHANGED next
  BY <1>1, <1>2 DEF Crash, Linked, OthersKept, Listed, From
<1>3. CASE /\ next[aux] # NULL /\ box_name[next[aux]] = arg
           /\ next' = [next EXCEPT ![aux] = next[next[aux]]]
           /\ Return(TRUE)
  <2>1. next'[aux] = next[next[aux]] /\ \A b \in created : b # aux => next'[b] = next[b]
    BY <1>1, <1>3 DEF Linked, Ordered, TypeOK
  <2>2. /\ Reach(head, next', created) = Reach(head, next, created) \ {next[aux]}
        /\ next[aux] \in Reach(head, next, created)
        /\ Ends(next', created)
    <3>1. /\ Pointers(next, created) /\ Ends(next, created) /\ head \in created \cup {NULL}
          /\ aux \in Reach(head, next, created) /\ next[aux] # NULL
      BY <1>1, <1>3, LinkedPointers DEF Linked, Listed, From
    <3> QED
      BY <2>1, <3>1, UnlinkBehind
  <2> QED
    BY <1>1, <1>3, <2>2 DEF Linked, OthersKept, Listed, From, Return
<1>4. CASE next[aux] # NULL /\ box_name[next[aux]] # arg /\ UNCHANGED <<next, pc, aux, result>>
  BY <1>1, <1>4 DEF Linked, OthersKept, Listed, From
<1> QED
  BY <1>2, <1>3, <1>4 DEF RemoveStep

\* find_box changes no pointer of a box.
LEMMA FindLinked ==
  ASSUME Linked, FindStep \/ (\E name \in Name : find_box(name)), Ordered'
  PROVE  Linked' /\ Listed' = Listed
<1>1. op' = "find_box" /\ UNCHANGED <<head, next, box_name, created>>
  BY DEF FindStep, InLoop, find_box, Call, list
<1> QED
  BY <1>1 DEF Linked, Listed, From

LEMMA LinkedStep == Linked /\ [Next]_vars => Linked' /\ [OthersKept]_vars
<1> SUFFICES ASSUME Linked, [Next]_vars
             PROVE  Linked' /\ (UNCHANGED vars \/ OthersKept)
  OBVIOUS
<1>1. Ordered'
  BY OrderedStep DEF Linked
<1>2. CASE UNCHANGED vars
  BY <1>1, <1>2 DEF Linked, Listed, From, NothingLeadsTo, New, vars
<1>3. CASE LoopStep
  BY <1>1, <1>3, FindLinked, InsertStepLinked, RemoveStepLinked DEF LoopStep, OthersKept
<1>4. CASE \/ \E new \in Box, name \in Name : newBox_b(new, name)
           \/ \E new \in Box : insertion_sort(new)
           \/ \E name \in Name : find_box(name) \/ remove_box(name)
  BY <1>1, <1>4, NewBoxLinked, InsertLinked, FindLinked, RemoveLinked DEF OthersKept
<1> QED
  BY <1>2, <1>3, <1>4 DEF Next

LEMMA LinkedAlways == Spec => []Linked
<1>1. Init => Linked
  <2>1. Init => Ordered
    BY BoxAssumption DEF Init, Ordered, TypeOK, Sorted
  <2> QED
    BY <2>1, FS_EmptySet DEF Init, Linked, Ends
<1> QED
  BY <1>1, LinkedStep, PTL DEF Spec

-----------------------------------------------------------------------------
\* No loop of insertion_sort or remove_box is entered, or gone round, with NULL,
\* and no pointer leads out of the boxes that newBox_b returned.
THEOREM BoxTypeCorrect == Spec => []TypeOK
<1>1. Ordered => TypeOK
  BY DEF Ordered
<1> QED
  BY <1>1, OrderedAlways, PTL

\* Insertions at the head, in the middle and at the end, and removals, keep the
\* list sorted, whatever its length and with equal names too.
THEOREM SortedCorrect == Spec => []Sorted
<1>1. Ordered => Sorted
  BY DEF Ordered
<1> QED
  BY <1>1, OrderedAlways, PTL

\* No insertion or removal loses a box of the list, or takes away another than
\* it was asked to, wherever the pointers change and with equal names too.
THEOREM KeepsTheOthersCorrect == Spec => KeepsTheOthers
<1>1. Linked /\ [Next]_vars => [OthersKept]_vars
  BY LinkedStep
<1> QED
  BY <1>1, LinkedAlways, PTL DEF Spec, KeepsTheOthers

\* Insertions and removals never make a cycle.
THEOREM NoCycleCorrect == Spec => []NoCycle
<1>1. Linked => NoCycle
  BY LinkedPointers, ReachOnce DEF Linked, NoCycle, From
<1> QED
  BY <1>1, LinkedAlways, PTL

\* The loops of insertion_sort and find_box move aux by "aux->next", and each
\* such step leaves fewer boxes to look at, a natural number of them: the loops end.
FewerAhead ==
  \A b \in created : /\ Cardinality(From(next[b])) \in Nat
                     /\ Cardinality(From(next[b])) < Cardinality(From(b))
THEOREM WalksEnd == Spec => []FewerAhead
<1>1. Linked => FewerAhead
  <2> SUFFICES ASSUME Linked, NEW b \in created
               PROVE  /\ Cardinality(From(next[b])) \in Nat
                      /\ Cardinality(From(next[b])) < Cardinality(From(b))
    BY DEF FewerAhead
  <2>1. From(b) = {b} \cup From(next[b]) /\ b \notin From(next[b])
    BY LinkedPointers, ReachStep, ReachOnce DEF Linked, From
  <2>2. From(next[b]) \in SUBSET created
    BY DEF From, Reach
  <2>3. IsFiniteSet(From(next[b]))
    BY <2>2, FS_Subset DEF Linked
  <2>4. Cardinality(From(b)) = Cardinality(From(next[b])) + 1
    BY <2>1, <2>3, FS_AddElement
  <2> QED
    BY <2>3, <2>4, FS_CardinalityType
<1> QED
  BY <1>1, LinkedAlways, PTL
=============================================================================
