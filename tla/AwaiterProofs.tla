--------------------------- MODULE AwaiterProofs ---------------------------
(***************************************************************************)
(* Nobody passes an event, a latch or a wait_group early, and an event or  *)
(* a latch submits and counts its waiters rightly and loses none but by    *)
(* the late read of m_next, whatever the number of waiters, notifiers and  *)
(* contexts, the size of the latch and the number of rounds.               *)
(***************************************************************************)
EXTENDS Latch, WaitGroup, FiniteSetTheorems, TLAPS

(* Events and latches.                                                     *)

\* The functions and the counter have their domains.
LatchType ==
    /\ m_state \in Waiter \cup {nullptr, set}
    /\ pc \in [Coro -> {"start", "load", "cas", "suspended", "ready", "finished",
                        "set", "submit", "next"}]
    /\ old_value \in [Waiter -> Waiter \cup {nullptr, set}]
    /\ m_count # no_latch => m_count \in Int

\* What the one that sets the event has done before.
Earned == value # {} /\ (m_count = no_latch \/ m_count <= 0)

\* The inductive invariant.  PassesOnlyWhenSet alone is not inductive: a set
\* event must stay set, although awaiters are pushed over what their coroutine
\* has read before, and a walk must not begin before the event is set.
LatchInv ==
    /\ LatchType
    /\ m_count # no_latch => value # {}
    /\ m_state = set => Earned
    /\ \A n \in Notifier : pc[n] = "set" => Earned
    /\ \A n \in Notifier : pc[n] \in {"submit", "next"} => m_state = set
    /\ \A w \in Waiter : pc[w] = "cas" => old_value[w] # set
    /\ \A w \in Waiter : pc[w] \in {"ready", "finished"} => m_state = set

\* An event and a latch are constructed with LatchInv: the event of a latch of
\* zero is set, and so may an event without a latch be.
LEMMA InitIsEarned == Init => LatchInv
<1> SUFFICES ASSUME Init PROVE LatchInv
  OBVIOUS
<1>1. CASE LatchInit
  <2>1. PICK count \in 0..MaxCount :
            /\ ListInit(IF count <= 0 THEN set ELSE nullptr, "start")
            /\ m_count = count
            /\ value = {set}
    BY <1>1 DEF LatchInit
  <2>2. m_count \in Int /\ m_count # no_latch /\ value # {}
    BY <2>1, LatchAssumption
  <2>3. m_state = set => m_count <= 0
    BY <2>1, EventAssumption DEF ListInit
  <2>4. m_state = set => Earned
    BY <2>2, <2>3 DEF Earned
  <2>5. LatchType /\ \A c \in Coro : pc[c] = "start"
    BY <2>1, <2>2 DEF ListInit, LatchType
  <2> QED BY <2>2, <2>4, <2>5 DEF LatchInv, Coro
<1>2. CASE EventInit /\ m_count = no_latch
  <2>1. PICK top \in {nullptr, set} :
            ListInit(top, "start") /\ value = {top} \ {nullptr}
    BY <1>2 DEF EventInit
  <2>2. m_state = set => Earned
    BY <1>2, <2>1, EventAssumption DEF ListInit, Earned
  <2>3. LatchType /\ \A c \in Coro : pc[c] = "start"
    BY <1>2, <2>1 DEF ListInit, LatchType
  <2> QED BY <1>2, <2>2, <2>3 DEF LatchInv, Coro
<1> QED BY <1>1, <1>2 DEF Init

\* No step of wait(), set(), count_down() or the walk over the waiters breaks
\* LatchInv.
LEMMA StepsKeepEarned == LatchInv /\ [Next]_vars => LatchInv'
<1> SUFFICES ASSUME LatchInv, [Next]_vars PROVE LatchInv'
  OBVIOUS
<1> USE EventAssumption, LatchAssumption, AwaiterListAssumption
<1>1. CASE UNCHANGED vars
  BY <1>1 DEF vars, eventVars, listVars, LatchInv, LatchType, Earned
<1>2. ASSUME NEW n \in Notifier, m_count # no_latch, count_down(n)
      PROVE  LatchInv'
  <2>1. m_count \in Int /\ m_count' = m_count - 1 /\ value # {} /\ value' = value
    BY <1>2 DEF count_down, LatchInv, LatchType
  <2>2. last_count_down(m_count) => Earned'
    BY <2>1 DEF last_count_down, Earned
  <2>3. Earned => Earned'
    BY <1>2, <2>1 DEF Earned
  <2>4. LatchType'
    BY <1>2, <2>1 DEF count_down, Goto, LatchInv, LatchType, Coro
  <2> QED BY <1>2, <2>1, <2>2, <2>3, <2>4
          DEF count_down, Goto, LatchInv, LatchType, Coro
<1>3. ASSUME NEW w \in Waiter, waitStep(w), UNCHANGED m_count
      PROVE  LatchInv'
  <2>0. Earned' <=> Earned
    BY <1>3 DEF waitStep, await_ready, register_awaiter, Earned
  <2>1. CASE await_ready(w)
    BY <1>3, <2>0, <2>1 DEF await_ready, Goto, LatchInv, LatchType, Coro
  <2>2. CASE register_awaiter(w)
    BY <1>3, <2>0, <2>2 DEF register_awaiter, Goto, LatchInv, LatchType, Coro
  <2> QED BY <1>3, <2>1, <2>2 DEF waitStep
<1>4. ASSUME NEW n \in Notifier, m_count = no_latch, return_value(n),
             UNCHANGED m_count
      PROVE  LatchInv'
  <2>1. Earned'
    BY <1>4 DEF return_value, Earned
  <2> QED BY <1>4, <2>1 DEF return_value, Goto, LatchInv, LatchType, Coro
<1>5. ASSUME NEW n \in Notifier, set_state(n), UNCHANGED m_count
      PROVE  LatchInv'
  <2>1. Earned /\ Earned'
    BY <1>5 DEF set_state, LatchInv, Earned
  <2> QED BY <1>5, <2>1 DEF set_state, detach, Goto, LatchInv, LatchType, Coro
<1>6. ASSUME NEW c \in Coro, listStep(c), UNCHANGED <<value, m_count>>
      PROVE  LatchInv'
  <2>0. Earned' <=> Earned
    BY <1>6 DEF Earned
  <2>1. ASSUME c \in Waiter, push(c) PROVE LatchInv'
    BY <1>6, <2>0, <2>1 DEF push, Goto, LatchInv, LatchType, Coro
  <2>2. ASSUME c \in Waiter, push_retry(c) PROVE LatchInv'
    BY <1>6, <2>0, <2>2 DEF push_retry, Goto, LatchInv, LatchType, Coro
  <2>3. ASSUME c \in Waiter, await_resume(c) PROVE LatchInv'
    BY <1>6, <2>0, <2>3 DEF await_resume, Goto, LatchInv, LatchType, Coro
  <2>4. ASSUME c \in Notifier, submit(c) PROVE LatchInv'
    BY <1>6, <2>0, <2>4 DEF submit, LatchInv, LatchType, Coro
  <2>5. ASSUME c \in Notifier, advance(c) PROVE LatchInv'
    BY <1>6, <2>0, <2>5 DEF advance, Goto, LatchInv, LatchType, Coro
  <2> QED BY <1>6, <2>1, <2>2, <2>3, <2>4, <2>5 DEF listStep
<1>7. ASSUME NEW c \in Coro, step(c) PROVE LatchInv'
  BY <1>2, <1>3, <1>4, <1>5, <1>6, <1>7 DEF step, waitStep
<1> QED BY <1>1, <1>7 DEF Next

\* For every number of coroutines and contexts nobody passes wait() before the
\* event is set and its value stored, or before the latch has been counted down.
THEOREM NobodyPassesEarly == Spec => []PassesOnlyWhenSet
<1>1. LatchInv => PassesOnlyWhenSet
  BY DEF LatchInv, PassesOnlyWhenSet, Earned
<1> QED BY <1>1, InitIsEarned, StepsKeepEarned, PTL DEF Spec
-----------------------------------------------------------------------------
(* The list of an event.                                                   *)

Released == {"ready", "finished"}
Walking == {"submit", "next"}

\* f[1], .., f[n], the first pushed first, is the list of awaiters that is to be
\* taken, or is being walked.  It links suspended coroutines, each once; unless a
\* walk has gone astray it has all of them, and none when the walk is over.
List(f, n) ==
    /\ n \in Nat /\ f \in [Nat -> Waiter \cup {nullptr}] /\ f[0] = nullptr
    /\ \A k \in 1..n : f[k] \in Waiter /\ m_next[f[k]] = f[k - 1] /\ pc[f[k]] = "suspended"
    /\ \A j, k \in 1..n : f[j] = f[k] => j = k
    /\ m_state # set => f[n] = m_state
    /\ \A g \in Notifier : pc[g] = "submit" => n > 0 /\ cur[g] = f[n]
    /\ \A g \in Notifier : pc[g] = "next" =>
         cur[g] \in Waiter /\ m_next[cur[g]] = f[n] /\ pc[cur[g]] \in Released
    /\ ~astray => \A w \in Waiter : pc[w] = "suspended" => \E k \in 1..n : f[k] = w
    /\ ~astray /\ m_state = set /\ (\A g \in Notifier : pc[g] \notin Walking) => n = 0

HasList == \E f, n : List(f, n)

\* What is about to be pushed is linked to the top that was read.
CasLinked == \A w \in Waiter : pc[w] = "cas" => m_next[w] = old_value[w]

\* One set() takes the list; all others find the event set.
OneWalker == \A g, h \in Notifier : pc[g] \in Walking /\ pc[h] \in Walking => g = h

\* Who is through with set(), or with the last count_down(), has set the event.
SetIsDone ==
    /\ m_count = no_latch =>
         \A g \in Notifier : pc[g] \notin {"start", "set"} => m_state = set
    /\ m_count # no_latch /\ m_count <= 0 =>
         m_state = set \/ \E g \in Notifier : pc[g] = "set"

ListTypes ==
    /\ m_next \in [Waiter -> Waiter \cup {nullptr}]
    /\ cur \in [Notifier -> Waiter \cup {nullptr, set}]

\* The inductive invariant for the list.
ListInv == LatchInv /\ ListTypes /\ CasLinked /\ OneWalker /\ SetIsDone /\ HasList

\* The sets are apart.
LEMMA EventNames ==
    /\ nullptr \notin Coro /\ set \notin Coro /\ set # nullptr
    /\ Waiter \subseteq Coro /\ Notifier \subseteq Coro /\ Waiter \cap Notifier = {}
  BY AwaiterListAssumption, EventAssumption DEF Coro

\* Initially the list is empty.
LEMMA InitList == Init => ListInv
<1> SUFFICES ASSUME Init PROVE ListInv
  OBVIOUS
<1>1. PICK top \in {nullptr, set} : ListInit(top, "start")
  BY DEF Init, LatchInit, EventInit
<1>2. /\ \A c \in Coro : pc[c] = "start"
      /\ m_state \in {nullptr, set} /\ astray = FALSE
  BY <1>1 DEF ListInit
<1>3. ListTypes /\ CasLinked /\ OneWalker
  BY <1>1, <1>2, EventNames DEF ListInit, ListTypes, CasLinked, OneWalker, Walking
<1>4. SetIsDone
  <2>1. CASE LatchInit
    <3>1. PICK count \in 0..MaxCount :
              ListInit(IF count <= 0 THEN set ELSE nullptr, "start") /\ m_count = count
      BY <2>1 DEF LatchInit
    <3>2. m_count # no_latch /\ (m_count <= 0 => m_state = set)
      BY <3>1, LatchAssumption DEF ListInit
    <3> QED BY <3>2 DEF SetIsDone
  <2>2. CASE m_count = no_latch
    BY <1>2, <2>2, EventNames DEF SetIsDone
  <2> QED BY <2>1, <2>2 DEF Init
<1>5. HasList
  <2> DEFINE f == [k \in Nat |-> nullptr]
  <2>1. List(f, 0)
    BY <1>2, EventNames DEF List
  <2> QED BY <2>1 DEF HasList
<1> QED BY <1>3, <1>4, <1>5, InitIsEarned DEF ListInv

\* A step that suspends or submits nobody and does not walk leaves the list as it is.
LEMMA ListStays ==
    ASSUME LatchInv, ListTypes, HasList, NEW c \in Coro, NEW l,
           pc' = [pc EXCEPT ![c] = l],
           pc[c] \notin {"suspended", "submit", "next"}, l \notin {"suspended", "submit", "next"},
           pc[c] \in Released => l \in Released,
           UNCHANGED <<m_state, cur, astray>>,
           \A w \in Waiter : pc[w] # "load" => m_next'[w] = m_next[w]
    PROVE  HasList'
<1>0. DOMAIN pc = Coro
  BY DEF LatchInv, LatchType
<1>1. PICK f, n : List(f, n)
  BY DEF HasList
<1>2. \A d \in Coro : /\ pc[d] = "suspended" <=> pc'[d] = "suspended"
                      /\ pc[d] = "submit" <=> pc'[d] = "submit"
                      /\ pc[d] = "next" <=> pc'[d] = "next"
                      /\ pc[d] \in Released => pc'[d] \in Released
  BY <1>0
<1>3. n \in Nat /\ f \in [Nat -> Waiter \cup {nullptr}] /\ f[0] = nullptr
  BY <1>1 DEF List
<1>4. \A k \in 1..n : f[k] \in Waiter /\ m_next'[f[k]] = f[k - 1] /\ pc'[f[k]] = "suspended"
  BY <1>1, <1>2, EventNames DEF List
<1>5. \A j, k \in 1..n : f[j] = f[k] => j = k
  BY <1>1 DEF List
<1>6. m_state' # set => f[n] = m_state'
  BY <1>1 DEF List
<1>7. \A g \in Notifier : pc'[g] = "submit" => n > 0 /\ cur'[g] = f[n]
  BY <1>1, <1>2, EventNames DEF List
<1>8. \A g \in Notifier : pc'[g] = "next" =>
         cur'[g] \in Waiter /\ m_next'[cur'[g]] = f[n] /\ pc'[cur'[g]] \in Released
  <2>1. ASSUME NEW g \in Notifier, pc[g] = "next"
        PROVE  cur[g] \in Waiter /\ m_next'[cur[g]] = f[n] /\ pc'[cur[g]] \in Released
    <3>1. cur[g] \in Waiter /\ m_next[cur[g]] = f[n] /\ pc[cur[g]] \in Released
      BY <1>1, <2>1 DEF List
    <3> QED BY <1>2, <3>1, EventNames DEF Released
  <2> QED BY <1>2, <2>1, EventNames
<1>9. ~astray' => \A w \in Waiter : pc'[w] = "suspended" => \E k \in 1..n : f[k] = w
  BY <1>1, <1>2, EventNames DEF List
<1>10. ~astray' /\ m_state' = set /\ (\A g \in Notifier : pc'[g] \notin Walking) => n = 0
  BY <1>1, <1>2, EventNames DEF List, Walking
<1>11. List(f, n)'
  BY <1>3, <1>4, <1>5, <1>6, <1>7, <1>8, <1>9, <1>10 DEF List
<1> QED BY <1>11 DEF HasList

\* A push puts the awaiter in front.
LEMMA ListPush ==
    ASSUME LatchInv, ListTypes, CasLinked, HasList, NEW w \in Waiter, push(w), UNCHANGED astray
    PROVE  HasList'
<1>0. /\ pc \in [Coro -> {"start", "load", "cas", "suspended", "ready", "finished",
                          "set", "submit", "next"}]
      /\ pc[w] = "cas" /\ pc' = [pc EXCEPT ![w] = "suspended"] /\ w \in Coro
      /\ m_state' = w /\ UNCHANGED <<m_next, cur>>
  BY EventNames DEF LatchInv, LatchType, push, Goto
<1>1. PICK f, n : List(f, n)
  BY DEF HasList
<1>2. m_state # set /\ m_next[w] = m_state /\ \A g \in Notifier : pc[g] \notin Walking
  BY <1>0 DEF push, CasLinked, LatchInv, Walking
<1>3. n \in Nat /\ f \in [Nat -> Waiter \cup {nullptr}] /\ f[0] = nullptr /\ f[n] = m_state
  BY <1>1, <1>2 DEF List
<1>4. PICK b \in [Nat -> Waiter \cup {nullptr}] :
          b[n + 1] = w /\ \A k \in 0..n : b[k] = f[k]
  <2>1. [f EXCEPT ![n + 1] = w] \in [Nat -> Waiter \cup {nullptr}]
    BY <1>3
  <2>2. [f EXCEPT ![n + 1] = w][n + 1] = w /\ \A k \in 0..n : [f EXCEPT ![n + 1] = w][k] = f[k]
    BY <1>3
  <2> QED BY <2>1, <2>2
<1>5. \A k \in 1..n : /\ f[k] \in Waiter /\ f[k] # w /\ m_next[f[k]] = f[k - 1]
                      /\ pc[f[k]] = "suspended" /\ pc'[f[k]] = "suspended"
  BY <1>0, <1>1, EventNames DEF List
<1>6. \A k \in 1..(n + 1) : b[k] \in Waiter /\ m_next[b[k]] = b[k - 1] /\ pc'[b[k]] = "suspended"
  <2>1. m_next[b[n + 1]] = b[n] /\ pc'[b[n + 1]] = "suspended"
    BY <1>0, <1>2, <1>3, <1>4
  <2>2. \A k \in 1..n : b[k] = f[k] /\ b[k - 1] = f[k - 1]
    BY <1>3, <1>4
  <2> QED BY <1>3, <1>4, <1>5, <2>1, <2>2
<1>7. \A j, k \in 1..(n + 1) : b[j] = b[k] => j = k
  <2>1. \A j, k \in 1..n : f[j] = f[k] => j = k
    BY <1>1 DEF List
  <2>2. \A k \in 1..n : b[k] = f[k] /\ b[k] # w
    BY <1>3, <1>4, <1>5
  <2> QED BY <1>3, <1>4, <2>1, <2>2
<1>8. \A g \in Notifier : pc'[g] \notin Walking
  BY <1>0, <1>2, EventNames DEF Walking
<1>9. ~astray' => \A v \in Waiter : pc'[v] = "suspended" => \E k \in 1..(n + 1) : b[k] = v
  <2>1. ASSUME ~astray, NEW v \in Waiter, v # w, pc'[v] = "suspended"
        PROVE  \E k \in 1..(n + 1) : b[k] = v
    <3>1. PICK k \in 1..n : f[k] = v
      BY <1>0, <1>1, <2>1, EventNames DEF List
    <3>2. k \in 1..(n + 1) /\ b[k] = v
      BY <1>3, <1>4, <3>1
    <3> QED BY <3>2
  <2>2. n + 1 \in 1..(n + 1) /\ b[n + 1] = w
    BY <1>3, <1>4
  <2> QED BY <2>1, <2>2
<1>10. n + 1 \in Nat /\ b[0] = nullptr /\ m_state' # set /\ b[n + 1] = m_state'
  BY <1>0, <1>3, <1>4, EventNames
<1>11. List(b, n + 1)'
  BY <1>0, <1>4, <1>6, <1>7, <1>8, <1>9, <1>10 DEF List, Walking
<1> QED BY <1>11 DEF HasList

\* set() takes the list, or finds the event set.
LEMMA ListDetach ==
    ASSUME LatchInv, ListTypes, HasList, NEW g \in Notifier, set_state(g), UNCHANGED astray
    PROVE  HasList'
<1>0. /\ pc \in [Coro -> {"start", "load", "cas", "suspended", "ready", "finished",
                          "set", "submit", "next"}]
      /\ pc[g] = "set" /\ g \in Coro /\ m_state' = set /\ m_next' = m_next
      /\ cur' = [cur EXCEPT ![g] = m_state] /\ cur \in [Notifier -> Waiter \cup {nullptr, set}]
      /\ pc' = [pc EXCEPT ![g] = IF m_state \in Waiter THEN "submit" ELSE "finished"]
  BY EventNames DEF LatchInv, LatchType, ListTypes, set_state, detach, Goto
<1>1. PICK f, n : List(f, n)
  BY DEF HasList
<1>2. n \in Nat /\ f \in [Nat -> Waiter \cup {nullptr}] /\ f[0] = nullptr
  BY <1>1 DEF List
<1>3. \A d \in Coro \ {g} : pc'[d] = pc[d]
  BY <1>0
<1>4. \A k \in 1..n : f[k] \in Waiter /\ m_next'[f[k]] = f[k - 1] /\ pc'[f[k]] = "suspended"
  BY <1>0, <1>1, <1>3, EventNames DEF List
<1>5. \A j, k \in 1..n : f[j] = f[k] => j = k
  BY <1>1 DEF List
<1>6. \A h \in Notifier : pc'[h] = "submit" => n > 0 /\ cur'[h] = f[n]
  <2>1. ASSUME pc'[g] = "submit" PROVE n > 0 /\ cur'[g] = f[n]
    <3>1. m_state \in Waiter /\ cur'[g] = m_state
      BY <1>0, <2>1
    <3>2. f[n] = m_state /\ f[n] # nullptr
      BY <1>1, <3>1, EventNames DEF List
    <3> QED BY <1>2, <3>1, <3>2
  <2>2. ASSUME NEW h \in Notifier, h # g, pc'[h] = "submit"
        PROVE  n > 0 /\ cur'[h] = f[n]
    BY <1>0, <1>1, <1>3, <2>2, EventNames DEF List
  <2> QED BY <2>1, <2>2
<1>7. \A h \in Notifier : pc'[h] = "next" =>
         cur'[h] \in Waiter /\ m_next'[cur'[h]] = f[n] /\ pc'[cur'[h]] \in Released
  <2>1. ASSUME NEW h \in Notifier, pc'[h] = "next"
        PROVE  cur'[h] \in Waiter /\ m_next'[cur'[h]] = f[n] /\ pc'[cur'[h]] \in Released
    <3>1. h # g /\ pc[h] = "next" /\ cur'[h] = cur[h]
      BY <1>0, <1>3, <2>1, EventNames
    <3>2. cur[h] \in Waiter /\ m_next[cur[h]] = f[n] /\ pc[cur[h]] \in Released
      BY <1>1, <3>1 DEF List
    <3> QED BY <1>0, <1>3, <3>1, <3>2, EventNames
  <2> QED BY <2>1
<1>8. ~astray' => \A w \in Waiter : pc'[w] = "suspended" => \E k \in 1..n : f[k] = w
  BY <1>1, <1>3, EventNames DEF List
<1>9. ~astray' /\ (\A h \in Notifier : pc'[h] \notin Walking) => n = 0
  <2>1. ASSUME ~astray, \A h \in Notifier : pc'[h] \notin Walking PROVE n = 0
    <3>0. \A h \in Notifier : pc[h] \notin Walking
      BY <1>0, <1>3, <2>1, EventNames DEF Walking
    <3>1. CASE m_state = set
      BY <1>1, <2>1, <3>0, <3>1 DEF List
    <3>2. CASE m_state # set
      <4>1. m_state \notin Waiter
        BY <1>0, <2>1 DEF Walking
      <4>2. f[n] \notin Waiter
        BY <1>1, <3>2, <4>1 DEF List
      <4> QED BY <1>2, <1>4, <4>2
    <3> QED BY <3>1, <3>2
  <2> QED BY <2>1
<1>10. List(f, n)'
  BY <1>0, <1>2, <1>4, <1>5, <1>6, <1>7, <1>8, <1>9 DEF List
<1> QED BY <1>10 DEF HasList

\* The walk submits the first of the list.
LEMMA ListSubmit ==
    ASSUME LatchInv, ListTypes, OneWalker, HasList, NEW g \in Notifier, submit(g),
           UNCHANGED astray
    PROVE  /\ cur[g] \in Waiter /\ pc[cur[g]] = "suspended"
           /\ HasList'
<1>1. PICK f, n : List(f, n)
  BY DEF HasList
<1>2. /\ n \in Nat \ {0} /\ f \in [Nat -> Waiter \cup {nullptr}] /\ f[0] = nullptr
      /\ pc[g] = "submit" /\ cur[g] = f[n] /\ m_state = set
  BY <1>1 DEF List, submit, LatchInv
<1>3. PICK w \in Waiter : w = f[n] /\ w = cur[g] /\ pc[w] = "suspended" /\ m_next[w] = f[n - 1]
  BY <1>1, <1>2 DEF List
<1>3m. PICK m \in Nat : m = n - 1
  BY <1>2
<1>4. /\ pc \in [Coro -> {"start", "load", "cas", "suspended", "ready", "finished",
                          "set", "submit", "next"}]
      /\ w \in Coro /\ g \in Coro /\ w # g
      /\ pc' = [pc EXCEPT ![g] = "next", ![w] = "ready"]
      /\ UNCHANGED <<m_state, m_next, cur>>
  BY <1>3, EventNames DEF LatchInv, LatchType, submit
<1>5. pc'[g] = "next" /\ pc'[w] = "ready" /\ \A d \in Coro \ {g, w} : pc'[d] = pc[d]
  BY <1>4
<1>6. \A k \in 1..m :
          /\ k \in 1..n /\ f[k] \in Waiter /\ f[k] # w
          /\ m_next'[f[k]] = f[k - 1] /\ pc'[f[k]] = "suspended"
  <2>1. ASSUME NEW k \in 1..m
        PROVE  /\ k \in 1..n /\ f[k] \in Waiter /\ f[k] # w
               /\ m_next[f[k]] = f[k - 1] /\ pc[f[k]] = "suspended"
    <3>1. k \in 1..n /\ n \in 1..n /\ k # n
      BY <1>2, <1>3m, <2>1
    <3> QED BY <1>1, <1>3, <3>1 DEF List
  <2> QED BY <1>4, <1>5, <2>1, EventNames
<1>7. \A j, k \in 1..m : f[j] = f[k] => j = k
  BY <1>1, <1>6 DEF List
<1>8. \A h \in Notifier : pc'[h] \in Walking => h = g
  <2>1. \A h \in Notifier \ {g} : pc'[h] = pc[h]
    BY <1>5, EventNames
  <2> QED BY <1>2, <2>1 DEF OneWalker, Walking
<1>9. ~astray' => \A v \in Waiter : pc'[v] = "suspended" => \E k \in 1..m : f[k] = v
  <2>1. ASSUME ~astray, NEW v \in Waiter, pc'[v] = "suspended"
        PROVE  \E k \in 1..m : f[k] = v
    <3>1. v # w /\ pc[v] = "suspended"
      BY <1>5, <2>1, EventNames
    <3>2. PICK k \in 1..n : f[k] = v
      BY <1>1, <2>1, <3>1 DEF List
    <3>3. k \in 1..m
      BY <1>2, <1>3, <1>3m, <3>1, <3>2
    <3> QED BY <3>2, <3>3
  <2> QED BY <2>1
<1>10. /\ m \in Nat /\ m_state' = set /\ pc'[g] \in Walking
       /\ \A h \in Notifier : pc'[h] # "submit"
       /\ \A h \in Notifier : pc'[h] = "next" =>
            cur'[h] \in Waiter /\ m_next'[cur'[h]] = f[m] /\ pc'[cur'[h]] \in Released
  BY <1>2, <1>3, <1>3m, <1>4, <1>5, <1>8 DEF Walking, Released
<1>11. List(f, m)'
  BY <1>2, <1>6, <1>7, <1>9, <1>10 DEF List
<1> QED BY <1>3, <1>11 DEF HasList

\* The walk goes on with the next, if what it reads has not been overwritten.
LEMMA ListAdvance ==
    ASSUME LatchInv, ListTypes, OneWalker, HasList, NEW g \in Notifier, advance(g)
    PROVE  HasList' /\ cur'[g] \in Waiter \cup {nullptr}
<1>1. PICK f, n : List(f, n)
  BY DEF HasList
<1>2. /\ n \in Nat /\ f \in [Nat -> Waiter \cup {nullptr}] /\ f[0] = nullptr
      /\ pc[g] = "next" /\ m_state = set
      /\ cur[g] \in Waiter /\ m_next[cur[g]] = f[n]
  BY <1>1 DEF List, advance, LatchInv
<1>3. PICK p \in {f[n], nullptr} :
          /\ cur' = [cur EXCEPT ![g] = p]
          /\ pc' = [pc EXCEPT ![g] = IF p = nullptr THEN "finished" ELSE "submit"]
          /\ astray' = (astray \/ p # f[n])
  BY <1>2, Zenon DEF advance, ReadNext, Goto
<1>4. /\ pc \in [Coro -> {"start", "load", "cas", "suspended", "ready", "finished",
                          "set", "submit", "next"}]
      /\ g \in Coro /\ UNCHANGED <<m_state, m_next>>
      /\ cur \in [Notifier -> Waiter \cup {nullptr, set}]
  BY EventNames DEF LatchInv, LatchType, ListTypes, advance
<1>5. /\ cur'[g] = p /\ pc'[g] = IF p = nullptr THEN "finished" ELSE "submit"
      /\ \A d \in Coro \ {g} : pc'[d] = pc[d]
  BY <1>3, <1>4
<1>6. \A h \in Notifier : pc'[h] \in Walking => h = g
  <2>1. \A h \in Notifier \ {g} : pc'[h] = pc[h]
    BY <1>5, EventNames
  <2> QED BY <1>2, <2>1 DEF OneWalker, Walking
<1>7. \A k \in 1..n : f[k] \in Waiter /\ m_next'[f[k]] = f[k - 1] /\ pc'[f[k]] = "suspended"
  BY <1>1, <1>4, <1>5, EventNames DEF List
<1>8. \A j, k \in 1..n : f[j] = f[k] => j = k
  BY <1>1 DEF List
<1>9. \A h \in Notifier : pc'[h] = "submit" => n > 0 /\ cur'[h] = f[n]
  <2>1. pc'[g] = "submit" => p = f[n] /\ p # nullptr
    BY <1>3, <1>5
  <2>2. f[n] # nullptr => n > 0
    BY <1>2
  <2> QED BY <1>5, <1>6, <2>1, <2>2 DEF Walking
<1>10. \A h \in Notifier : pc'[h] # "next"
  BY <1>5, <1>6 DEF Walking
<1>11. ~astray' => \A w \in Waiter : pc'[w] = "suspended" => \E k \in 1..n : f[k] = w
  <2>1. astray => astray'
    BY <1>3, Zenon
  <2> QED BY <1>1, <1>5, <2>1, EventNames DEF List
<1>12. ~astray' /\ (\A h \in Notifier : pc'[h] \notin Walking) => n = 0
  <2>1. ASSUME ~astray', \A h \in Notifier : pc'[h] \notin Walking PROVE n = 0
    <3>1. p = f[n]
      BY <1>3, <2>1, Zenon
    <3>2. f[n] = nullptr
      BY <1>5, <2>1, <3>1 DEF Walking
    <3> QED BY <1>2, <1>7, <3>2, EventNames
  <2> QED BY <2>1
<1>13. List(f, n)'
  BY <1>2, <1>4, <1>7, <1>8, <1>9, <1>10, <1>11, <1>12 DEF List
<1>14. f[n] \in Waiter \cup {nullptr}
  BY <1>2
<1> QED BY <1>3, <1>5, <1>13, <1>14 DEF HasList

\* The steps of an event or a latch that leave its list as it is.
Aside(c) ==
    /\ \/ c \in Notifier /\ m_count # no_latch /\ count_down(c)
       \/ c \in Waiter /\ (await_ready(c) \/ register_awaiter(c)) /\ UNCHANGED m_count
       \/ c \in Notifier /\ m_count = no_latch /\ return_value(c) /\ UNCHANGED m_count
       \/ c \in Waiter /\ (push_retry(c) \/ await_resume(c)) /\ UNCHANGED <<m_count, value>>
    /\ UNCHANGED astray

\* Those that do not.
LEMMA StepCases ==
    ASSUME NEW c \in Coro, step(c)
    PROVE  \/ Aside(c)
           \/ c \in Waiter /\ push(c) /\ UNCHANGED <<astray, value, m_count>>
           \/ c \in Notifier /\ set_state(c) /\ UNCHANGED <<astray, m_count>>
           \/ c \in Notifier /\ submit(c) /\ UNCHANGED <<astray, value, m_count>>
           \/ c \in Notifier /\ advance(c) /\ UNCHANGED <<value, m_count>>
  BY Zenon DEF step, waitStep, listStep, Aside

\* What a step aside does.
LEMMA AsideSteps ==
    ASSUME LatchInv, ListTypes, NEW c \in Coro, Aside(c)
    PROVE  /\ \E l \in {"load", "cas", "finished", "set"} :
                 /\ pc' = [pc EXCEPT ![c] = l]
                 /\ pc[c] \in Released => l \in Released
           /\ pc[c] \in {"start", "load", "cas", "ready"}
           /\ UNCHANGED <<m_state, cur, astray>>
           /\ ListTypes'
           /\ \A w \in Waiter : pc[w] # "load" => m_next'[w] = m_next[w]
           /\ \A w \in Waiter : pc[w] = "cas" /\ pc'[w] = "cas" =>
                 m_next'[w] = m_next[w] /\ old_value'[w] = old_value[w]
           /\ \A w \in Waiter : pc[w] # "cas" /\ pc'[w] = "cas" => m_next'[w] = old_value'[w]
<1>0. /\ pc \in [Coro -> {"start", "load", "cas", "suspended", "ready", "finished",
                          "set", "submit", "next"}]
      /\ old_value \in [Waiter -> Waiter \cup {nullptr, set}]
      /\ m_state \in Waiter \cup {nullptr, set}
      /\ m_next \in [Waiter -> Waiter \cup {nullptr}]
      /\ cur \in [Notifier -> Waiter \cup {nullptr, set}]
  BY DEF LatchInv, LatchType, ListTypes
<1>1. CASE c \in Waiter /\ register_awaiter(c)
  <2>0. UNCHANGED <<m_state, cur, astray>> /\ pc[c] = "load"
    BY <1>1 DEF Aside, register_awaiter
  <2>1. CASE m_state = set
    BY <1>0, <1>1, <2>0, <2>1, EventNames
       DEF register_awaiter, Goto, ListTypes, Released
  <2>2. CASE m_state # set
    BY <1>0, <1>1, <2>0, <2>2, EventNames
       DEF register_awaiter, Goto, ListTypes, Released, Linked
  <2> QED BY <2>1, <2>2
<1>2. CASE ~(c \in Waiter /\ register_awaiter(c))
  <2>1. UNCHANGED <<m_state, cur, astray, m_next, old_value>>
    BY <1>2 DEF Aside, count_down, await_ready, return_value, push_retry, await_resume
  <2>2. /\ \E l \in {"load", "finished", "set"} :
             pc' = [pc EXCEPT ![c] = l] /\ (pc[c] \in Released => l \in Released)
        /\ pc[c] \in {"start", "load", "cas", "ready"}
    BY <1>2 DEF Aside, count_down, await_ready, return_value, push_retry, await_resume,
       Goto, Released
  <2>3. \A w \in Waiter : pc'[w] = "cas" => pc[w] = "cas"
    BY <1>0, <2>2, EventNames
  <2> QED BY <1>0, <2>1, <2>2, <2>3 DEF ListTypes
<1> QED BY <1>1, <1>2

\* A step aside keeps the invariant; count_down and return_value announce a set().
LEMMA AsideKeepsList ==
    ASSUME ListInv, NEW c \in Coro, Aside(c)
    PROVE  ListTypes' /\ CasLinked' /\ OneWalker' /\ SetIsDone' /\ HasList'
<1>0. /\ LatchInv /\ ListTypes /\ CasLinked /\ OneWalker /\ SetIsDone /\ HasList
      /\ pc \in [Coro -> {"start", "load", "cas", "suspended", "ready", "finished",
                          "set", "submit", "next"}]
  BY DEF ListInv, LatchInv, LatchType
<1>1. PICK l \in {"load", "cas", "finished", "set"} :
          pc' = [pc EXCEPT ![c] = l] /\ (pc[c] \in Released => l \in Released)
  BY <1>0, AsideSteps
<1>2. /\ pc[c] \in {"start", "load", "cas", "ready"}
      /\ UNCHANGED <<m_state, cur, astray>> /\ ListTypes'
      /\ \A w \in Waiter : pc[w] # "load" => m_next'[w] = m_next[w]
  BY <1>0, AsideSteps
<1>3. pc'[c] = l /\ \A d \in Coro \ {c} : pc'[d] = pc[d]
  BY <1>0, <1>1
<1>4. HasList'
  BY <1>0, <1>1, <1>2, ListStays
<1>5. CasLinked'
  BY <1>0, AsideSteps, Zenon DEF CasLinked
<1>6. OneWalker'
  <2>1. \A g \in Notifier : pc'[g] \in Walking => pc[g] \in Walking
    BY <1>1, <1>3, EventNames DEF Walking
  <2> QED BY <1>0, <2>1 DEF OneWalker
<1>7. SetIsDone'
  <2>1. CASE c \in Waiter
    <3>1. UNCHANGED m_count
      BY <2>1, EventNames DEF Aside
    <3>2. \A g \in Notifier : pc'[g] = pc[g]
      BY <1>3, <2>1, EventNames
    <3> QED BY <1>0, <1>2, <3>1, <3>2 DEF SetIsDone
  <2>2. CASE c \in Notifier /\ m_count # no_latch /\ count_down(c)
    <3>1. m_count \in Int /\ m_count' = m_count - 1 /\ m_count' # no_latch
      BY <1>0, <2>2, LatchAssumption DEF LatchInv, LatchType, count_down
    <3>2. m_count <= 1 => pc'[c] = "set"
      BY <1>0, <2>2 DEF count_down, last_count_down, Goto
    <3> QED BY <2>2, <3>1, <3>2 DEF SetIsDone
  <2>3. CASE c \in Notifier /\ m_count = no_latch /\ return_value(c) /\ UNCHANGED m_count
    <3>1. pc'[c] = "set"
      BY <1>0, <2>3 DEF return_value, Goto
    <3>2. \A g \in Notifier : pc'[g] \notin {"start", "set"} => pc[g] \notin {"start", "set"}
      BY <1>3, <3>1, EventNames
    <3> QED BY <1>0, <1>2, <2>3, <3>1, <3>2 DEF SetIsDone
  <2> QED BY <2>1, <2>2, <2>3, EventNames DEF Aside
<1> QED BY <1>2, <1>4, <1>5, <1>6, <1>7

\* The steps that push, take or walk the list keep what does not concern it.
LEMMA ListStepsKeep ==
    ASSUME ListInv, NEW c \in Coro, UNCHANGED m_count,
           \/ c \in Waiter /\ push(c)
           \/ c \in Notifier /\ (set_state(c) \/ submit(c) \/ advance(c)),
           c \in Notifier /\ submit(c) => cur[c] \in Waiter /\ pc[cur[c]] = "suspended",
           c \in Notifier /\ advance(c) => cur'[c] \in Waiter \cup {nullptr}
    PROVE  ListTypes' /\ CasLinked' /\ OneWalker' /\ SetIsDone'
<1>0. /\ LatchInv /\ ListTypes /\ CasLinked /\ OneWalker /\ SetIsDone
      /\ pc \in [Coro -> {"start", "load", "cas", "suspended", "ready", "finished",
                          "set", "submit", "next"}]
      /\ m_next \in [Waiter -> Waiter \cup {nullptr}]
      /\ cur \in [Notifier -> Waiter \cup {nullptr, set}]
      /\ m_state \in Waiter \cup {nullptr, set}
  BY DEF ListInv, LatchInv, LatchType, ListTypes
<1>1. UNCHANGED <<m_next, old_value>>
  BY DEF push, set_state, detach, submit, advance
<1>2. ListTypes'
  <2>1. CASE cur' = cur
    BY <1>0, <1>1, <2>1 DEF ListTypes
  <2>2. CASE c \in Notifier /\ set_state(c)
    BY <1>0, <1>1, <2>2 DEF ListTypes, set_state, detach
  <2>3. CASE c \in Notifier /\ advance(c)
    <3>1. PICK p : cur' = [cur EXCEPT ![c] = p]
      BY <2>3 DEF advance
    <3>2. p \in Waiter \cup {nullptr}
      BY <1>0, <2>3, <3>1
    <3> QED BY <1>0, <1>1, <2>3, <3>1, <3>2 DEF ListTypes
  <2> QED BY <2>1, <2>2, <2>3 DEF push, submit
<1>3. \A w \in Waiter : pc'[w] = "cas" => pc[w] = "cas"
  <2>1. CASE c \in Waiter /\ push(c)
    BY <1>0, <2>1, EventNames DEF push, Goto
  <2>2. CASE c \in Notifier /\ submit(c)
    BY <1>0, <2>2, EventNames DEF submit
  <2>3. CASE c \in Notifier /\ set_state(c)
    BY <1>0, <2>3, EventNames DEF set_state, detach, Goto
  <2>4. CASE c \in Notifier /\ advance(c)
    BY <1>0, <2>4, EventNames DEF advance, Goto
  <2> QED BY <2>1, <2>2, <2>3, <2>4
<1>4. CasLinked'
  BY <1>0, <1>1, <1>3 DEF CasLinked
<1>5. CASE c \in Waiter /\ push(c)
  <2>1. m_state # set /\ \A g \in Notifier : pc'[g] = pc[g]
    BY <1>0, <1>5, EventNames DEF push, Goto, LatchInv
  <2>2. OneWalker'
    BY <1>0, <2>1 DEF OneWalker
  <2>3. SetIsDone'
    BY <1>0, <2>1 DEF SetIsDone
  <2> QED BY <1>2, <1>4, <2>2, <2>3
<1>6. CASE c \in Notifier /\ set_state(c)
  <2>1. m_state' = set /\ \A g \in Notifier \ {c} : pc'[g] = pc[g]
    BY <1>0, <1>6, EventNames DEF set_state, detach, Goto
  <2>2. pc'[c] \in Walking => m_state # set
    BY <1>0, <1>6, EventNames DEF set_state, detach, Goto, Walking
  <2>3. m_state # set => \A g \in Notifier : pc[g] \notin Walking
    BY <1>0 DEF LatchInv, Walking
  <2>4. OneWalker'
    BY <1>0, <2>1, <2>2, <2>3 DEF OneWalker
  <2>5. SetIsDone'
    BY <2>1 DEF SetIsDone
  <2> QED BY <1>2, <1>4, <2>4, <2>5
<1>7. CASE c \in Notifier /\ (submit(c) \/ advance(c))
  <2>1. /\ m_state' = m_state /\ pc[c] \in Walking /\ m_state = set
        /\ \A g \in Notifier \ {c} : pc'[g] = pc[g]
    <3>1. CASE submit(c)
      BY <1>0, <1>7, <3>1, EventNames DEF submit, Walking, LatchInv
    <3>2. CASE advance(c)
      BY <1>0, <1>7, <3>2, EventNames DEF advance, Goto, Walking, LatchInv
    <3> QED BY <1>7, <3>1, <3>2
  <2>2. OneWalker'
    BY <1>0, <1>7, <2>1 DEF OneWalker
  <2>3. SetIsDone'
    BY <2>1 DEF SetIsDone
  <2> QED BY <1>2, <1>4, <2>2, <2>3
<1> QED BY <1>5, <1>6, <1>7

\* Every step keeps the invariant.
LEMMA StepsKeepList == ListInv /\ [Next]_vars => ListInv'
<1> SUFFICES ASSUME ListInv, [Next]_vars PROVE ListInv'
  OBVIOUS
<1>0. LatchInv' /\ LatchInv /\ ListTypes /\ CasLinked /\ OneWalker /\ HasList
  BY StepsKeepEarned DEF ListInv
<1>1. CASE UNCHANGED vars
  <2>1. UNCHANGED <<m_state, m_next, old_value, cur, pc, astray, m_count>>
    BY <1>1 DEF vars, eventVars, listVars
  <2>2. ListTypes' /\ CasLinked' /\ OneWalker' /\ SetIsDone'
    BY <2>1 DEF ListInv, ListTypes, CasLinked, OneWalker, SetIsDone
  <2>3. PICK f, n : List(f, n)
    BY <1>0 DEF HasList
  <2>4. List(f, n)'
    BY <2>1, <2>3 DEF List
  <2> QED BY <1>0, <2>2, <2>4 DEF ListInv, HasList
<1>2. ASSUME NEW c \in Coro, step(c) PROVE ListInv'
  <2>1. CASE Aside(c)
    BY <1>0, <2>1, AsideKeepsList DEF ListInv
  <2>2. CASE c \in Waiter /\ push(c) /\ UNCHANGED <<astray, value, m_count>>
    <3>1. c \notin Notifier
      BY <2>2, EventNames
    <3> QED BY <1>0, <2>2, <3>1, ListPush, ListStepsKeep DEF ListInv
  <2>3. CASE c \in Notifier /\ set_state(c) /\ UNCHANGED <<astray, m_count>>
    <3>1. ~submit(c) /\ ~advance(c)
      BY <2>3 DEF set_state, submit, advance
    <3> QED BY <1>0, <2>3, <3>1, ListDetach, ListStepsKeep DEF ListInv
  <2>4. CASE c \in Notifier /\ submit(c) /\ UNCHANGED <<astray, value, m_count>>
    <3>1. ~advance(c)
      BY <2>4 DEF submit, advance
    <3> QED BY <1>0, <2>4, <3>1, ListSubmit, ListStepsKeep DEF ListInv
  <2>5. CASE c \in Notifier /\ advance(c) /\ UNCHANGED <<value, m_count>>
    <3>1. ~submit(c)
      BY <2>5 DEF submit, advance
    <3> QED BY <1>0, <2>5, <3>1, ListAdvance, ListStepsKeep DEF ListInv
  <2> QED BY <1>2, <2>1, <2>2, <2>3, <2>4, <2>5, StepCases
<1> QED BY <1>1, <1>2 DEF Next

\* The list of an event, whatever the order of the loads, pushes, exchanges and
\* reads of m_next.
THEOREM ListInvariant == Spec => []ListInv
  BY InitList, StepsKeepList, PTL DEF Spec

\* A walk is at the first of the list, which is suspended.
LEMMA ListSubmits == ListInv => SubmitsSuspended
<1> SUFFICES ASSUME ListInv, NEW g \in Notifier, pc[g] = "submit"
             PROVE  cur[g] \in Waiter /\ pc[cur[g]] = "suspended"
  BY DEF SubmitsSuspended
<1>1. PICK f, n : List(f, n)
  BY DEF ListInv, HasList
<1>2. n \in 1..n /\ cur[g] = f[n]
  BY <1>1 DEF List
<1> QED BY <1>1, <1>2 DEF List

\* set() and the last count_down() submit suspended coroutines only: none is
\* resumed twice, none while it still runs.
THEOREM WalkSubmitsSuspended == Spec => []SubmitsSuspended
  BY ListSubmits, ListInvariant, PTL

\* Once set() or enough calls of count_down() have returned nobody is left
\* suspended, unless the walk has read a link that was not there any more.
THEOREM WalkLosesNobodyElse == Spec => []OnlyWalkLoses
<1>1. ListInv => OnlyWalkLoses
  <2> SUFFICES ASSUME ListInv, AllNotified, Notifier # {}, ~astray,
                      m_count = no_latch \/ m_count <= 0,
                      NEW w \in Waiter, pc[w] = "suspended"
               PROVE  FALSE
    BY DEF OnlyWalkLoses, NobodySuspended
  <2>1. \A g \in Notifier : pc[g] = "finished"
    BY DEF AllNotified
  <2>2. m_state = set
    BY <2>1 DEF ListInv, SetIsDone
  <2>3. PICK f, n : List(f, n)
    BY DEF ListInv, HasList
  <2>4. n = 0
    BY <2>1, <2>2, <2>3 DEF List, Walking
  <2>5. PICK k \in 1..n : f[k] = w
    BY <2>3 DEF List
  <2> QED BY <2>4, <2>5
<1> QED BY <1>1, ListInvariant, PTL
-----------------------------------------------------------------------------
(* The waits of an event.                                                  *)

\* The coroutines of context x that are registered, and what m_num_wait_task
\* is beside their number.
Registers == {"load", "load_state", "cas", "suspended", "ready"}
Registered(x) == {w \in Waiter : home[w] = x /\ pc[w] \in Registers}
WaitCounted ==
    /\ m_num_wait_task \in [Context -> Nat]
    /\ \A x \in Context : m_num_wait_task[x] = Cardinality(Registered(x))

LEMMA RegisteredIsFinite ==
    ASSUME NEW x \in Context
    PROVE  IsFiniteSet(Registered(x)) /\ Cardinality(Registered(x)) \in Nat
<1>1. Registered(x) \subseteq Coro
  BY DEF Registered, Coro
<1> QED BY <1>1, AwaiterListAssumption, FS_Subset, FS_CardinalityType, Zenon

\* The count after a step that changes the label of waiter w only.
LEMMA CountOne ==
    ASSUME WaitCounted, NEW w \in Waiter, NEW l,
           pc \in [Coro -> {"start", "load", "cas", "suspended", "ready", "finished",
                            "set", "submit", "next"}],
           pc' = [pc EXCEPT ![w] = l],
           \/ register_wait(w) /\ pc[w] \notin Registers /\ l \in Registers
           \/ unregister_wait(w) /\ pc[w] \in Registers /\ l \notin Registers
           \/ UNCHANGED m_num_wait_task /\ (pc[w] \in Registers <=> l \in Registers)
    PROVE  WaitCounted'
<1>0. /\ w \in Coro /\ home[w] \in Context /\ pc'[w] = l
      /\ \A v \in Waiter \ {w} : pc'[v] = pc[v]
      /\ m_num_wait_task \in [Context -> Nat]
  BY AwaiterListAssumption, EventNames DEF WaitCounted
<1>1. CASE register_wait(w) /\ pc[w] \notin Registers /\ l \in Registers
  <2>1. /\ m_num_wait_task' = [m_num_wait_task EXCEPT ![home[w]] = @ + 1]
        /\ m_num_wait_task' \in [Context -> Nat]
    BY <1>0, <1>1 DEF register_wait
  <2>2. Registered(home[w])' = Registered(home[w]) \cup {w} /\ w \notin Registered(home[w])
    BY <1>0, <1>1 DEF Registered
  <2>3. Cardinality(Registered(home[w])') = Cardinality(Registered(home[w])) + 1
    BY <1>0, <2>2, RegisteredIsFinite, FS_AddElement, Zenon
  <2>4. \A x \in Context : x # home[w] => Registered(x)' = Registered(x)
    BY <1>0 DEF Registered
  <2> QED BY <1>0, <2>1, <2>3, <2>4 DEF WaitCounted
<1>2. CASE unregister_wait(w) /\ pc[w] \in Registers /\ l \notin Registers
  <2>2. Registered(home[w])' = Registered(home[w]) \ {w} /\ w \in Registered(home[w])
    BY <1>0, <1>2 DEF Registered
  <2>3. /\ Cardinality(Registered(home[w])') = Cardinality(Registered(home[w])) - 1
        /\ Cardinality(Registered(home[w])') \in Nat
    <3>1. IsFiniteSet(Registered(home[w]))
      BY <1>0, RegisteredIsFinite, Zenon
    <3>2. /\ IsFiniteSet(Registered(home[w]) \ {w})
          /\ Cardinality(Registered(home[w]) \ {w}) = Cardinality(Registered(home[w])) - 1
      BY <2>2, <3>1, FS_RemoveElement
    <3>3. Cardinality(Registered(home[w]) \ {w}) \in Nat
      BY <3>2, FS_CardinalityType, Zenon
    <3> QED BY <2>2, <3>2, <3>3
  <2>1. /\ m_num_wait_task' = [m_num_wait_task EXCEPT ![home[w]] = @ - 1]
        /\ m_num_wait_task[home[w]] - 1 = Cardinality(Registered(home[w])')
    BY <1>0, <1>2, <2>3 DEF unregister_wait, WaitCounted
  <2>4. \A x \in Context : x # home[w] => Registered(x)' = Registered(x)
    BY <1>0 DEF Registered
  <2>5. m_num_wait_task' \in [Context -> Nat]
    BY <1>0, <2>1, <2>3
  <2> QED BY <1>0, <2>1, <2>3, <2>4, <2>5 DEF WaitCounted
<1>3. CASE UNCHANGED m_num_wait_task /\ (pc[w] \in Registers <=> l \in Registers)
  <2>1. \A x \in Context : Registered(x)' = Registered(x)
    BY <1>0, <1>3 DEF Registered
  <2> QED BY <1>3, <2>1 DEF WaitCounted
<1> QED BY <1>1, <1>2, <1>3

\* A step of a notifier wakes suspended coroutines only, which stay registered.
LEMMA CountSame ==
    ASSUME WaitCounted, UNCHANGED m_num_wait_task,
           \A w \in Waiter : pc'[w] \in Registers <=> pc[w] \in Registers
    PROVE  WaitCounted'
<1>1. \A x \in Context : Registered(x)' = Registered(x)
  BY DEF Registered
<1> QED BY <1>1 DEF WaitCounted

\* await_ready and register_awaiter register or unregister with the label they
\* choose, await_resume unregisters.
LEMMA StepsKeepCount == ListInv /\ WaitCounted /\ [Next]_vars => WaitCounted'
<1> SUFFICES ASSUME ListInv, WaitCounted, [Next]_vars PROVE WaitCounted'
  OBVIOUS
<1>0. /\ pc \in [Coro -> {"start", "load", "cas", "suspended", "ready", "finished",
                          "set", "submit", "next"}]
      /\ SubmitsSuspended
  BY ListSubmits DEF ListInv, LatchInv, LatchType
<1>1. CASE UNCHANGED vars
  <2>1. UNCHANGED <<pc, m_num_wait_task>>
    BY <1>1 DEF vars, eventVars, listVars
  <2> QED BY <2>1, CountSame
<1>2. ASSUME NEW w \in Waiter, await_ready(w) PROVE WaitCounted'
  <2>1. CASE m_state = set
    <3>1. pc' = [pc EXCEPT ![w] = "finished"] /\ pc[w] \notin Registers
          /\ "finished" \notin Registers /\ UNCHANGED m_num_wait_task
      BY <1>2, <2>1 DEF await_ready, Goto, Registers
    <3> QED BY <1>0, <3>1, CountOne
  <2>2. CASE m_state # set
    <3>1. pc' = [pc EXCEPT ![w] = "load"] /\ pc[w] \notin Registers
          /\ "load" \in Registers /\ register_wait(w)
      BY <1>2, <2>2 DEF await_ready, Goto, Registers
    <3> QED BY <1>0, <3>1, CountOne
  <2> QED BY <2>1, <2>2
<1>3. ASSUME NEW w \in Waiter, register_awaiter(w) PROVE WaitCounted'
  <2>1. CASE m_state = set
    <3>1. pc' = [pc EXCEPT ![w] = "finished"] /\ pc[w] \in Registers
          /\ "finished" \notin Registers /\ unregister_wait(w)
      BY <1>3, <2>1 DEF register_awaiter, Goto, Registers
    <3> QED BY <1>0, <3>1, CountOne
  <2>2. CASE m_state # set
    <3>1. pc' = [pc EXCEPT ![w] = "cas"] /\ pc[w] \in Registers
          /\ "cas" \in Registers /\ UNCHANGED m_num_wait_task
      BY <1>3, <2>2 DEF register_awaiter, Goto, Registers
    <3> QED BY <1>0, <3>1, CountOne
  <2> QED BY <2>1, <2>2
<1>4. ASSUME NEW w \in Waiter, push(w) \/ push_retry(w) PROVE WaitCounted'
  <2>1. PICK l \in {"load", "suspended"} : pc' = [pc EXCEPT ![w] = l]
    BY <1>4 DEF push, push_retry, Goto
  <2>2. pc[w] \in Registers /\ l \in Registers /\ UNCHANGED m_num_wait_task
    BY <1>4, <2>1 DEF push, push_retry, Registers
  <2> QED BY <1>0, <2>1, <2>2, CountOne
<1>5. ASSUME NEW w \in Waiter, await_resume(w) PROVE WaitCounted'
  <2>1. pc' = [pc EXCEPT ![w] = "finished"] /\ pc[w] \in Registers
        /\ "finished" \notin Registers /\ unregister_wait(w)
    BY <1>5 DEF await_resume, Goto, Registers
  <2> QED BY <1>0, <2>1, CountOne
<1>6. ASSUME NEW g \in Notifier, submit(g) PROVE WaitCounted'
  <2>1. PICK w \in Waiter : w = cur[g] /\ pc[w] = "suspended"
    BY <1>0, <1>6 DEF SubmitsSuspended, submit
  <2>2. pc' = [pc EXCEPT ![g] = "next", ![w] = "ready"] /\ UNCHANGED m_num_wait_task
    BY <1>6, <2>1 DEF submit
  <2>3. \A v \in Waiter : pc'[v] \in Registers <=> pc[v] \in Registers
    BY <1>0, <2>1, <2>2, EventNames DEF Registers
  <2> QED BY <2>2, <2>3, CountSame
<1>7. ASSUME NEW g \in Notifier, count_down(g) \/ return_value(g) \/ set_state(g) \/ advance(g)
      PROVE  WaitCounted'
  <2>1. UNCHANGED m_num_wait_task /\ \E l : pc' = [pc EXCEPT ![g] = l]
    BY <1>7 DEF count_down, return_value, set_state, detach, advance, Goto
  <2>2. \A v \in Waiter : pc'[v] = pc[v]
    BY <1>0, <2>1, EventNames
  <2> QED BY <2>1, <2>2, CountSame
<1>8. ASSUME NEW c \in Coro, step(c) PROVE WaitCounted'
  BY <1>2, <1>3, <1>4, <1>5, <1>6, <1>7, <1>8, StepCases, Zenon DEF Aside
<1> QED BY <1>1, <1>8 DEF Next

\* m_num_wait_task of a context counts its coroutines that wait for the event,
\* from await_ready to the return of await_suspend or to await_resume: the engine
\* neither leaves one behind nor waits for one that has gone on.
THEOREM EventWaitsCounted == Spec => []WaitTaskCount
<1>1. Init => WaitCounted
  <2> SUFFICES ASSUME Init PROVE WaitCounted
    OBVIOUS
  <2>1. /\ m_num_wait_task = [x \in Context |-> 0]
        /\ pc = [c \in Coro |-> IF c \in Notifier THEN "start" ELSE "start"]
    BY DEF Init, LatchInit, EventInit, ListInit
  <2>2. \A x \in Context : Registered(x) = {}
    BY <2>1, EventNames DEF Registered, Registers
  <2> QED BY <2>1, <2>2, FS_EmptySet DEF WaitCounted
<1>2. WaitCounted => WaitTaskCount
  <2>1. \A x \in Context : Registered(x) =
          {w \in Waiter : home[w] = x /\
               pc[w] \in {"load", "load_state", "cas", "suspended", "ready"}}
    BY DEF Registered, Registers
  <2> QED BY <2>1 DEF WaitCounted, WaitTaskCount
<1> QED BY <1>1, <1>2, ListInvariant, StepsKeepCount, PTL DEF Spec
-----------------------------------------------------------------------------
(* Wait groups.                                                            *)

\* Where a waiter is once its awaiter may be on a list, and where a notifier is
\* between the end of a round and its own end.
AfterPush == {"suspended", "ready", "finished"}
Releasing == {"exchange", "submit", "next"}

WgTypes ==
    /\ m_state \in Waiter \cup {nullptr}
    /\ m_next \in [Waiter -> Waiter \cup {nullptr}]
    /\ old_value \in [Waiter -> Waiter \cup {nullptr}]
    /\ cur \in [Notifier -> Waiter \cup {nullptr}]
    /\ pc \in [Coro -> {"start", "load", "load_state", "cas"}
                        \cup AfterPush \cup Releasing]
    /\ again \in BOOLEAN /\ overtaken \in BOOLEAN

\* The work that has been added and is not done, and its count.
Pending == {n \in Notifier : pc[n] = "start" /\ (n \in Later => again)}
CountsPending == m_count = Cardinality(Pending)

\* All work of the first round is done; all work is.
FirstDone == \A k \in Notifier \ Later : pc[k] # "start"
AllDone == \A k \in Notifier : pc[k] # "start"

\* How far the rounds are.
Rounds ==
    /\ ~again => ~overtaken /\ \A c \in Later : pc[c] = "start"
    /\ again => FirstDone
    /\ \A n \in Notifier : pc[n] \in Releasing =>
         FirstDone /\ (n \in Later => AllDone)
    /\ \A n \in Notifier \ Later : pc[n] = "exchange" /\ again => overtaken

\* Who has passed, or is about to.
Passed ==
    /\ \A w \in Waiter : pc[w] \in {"ready", "finished"} => FirstDone
    /\ \A w \in Waiter \cap Later :
         pc[w] \in {"ready", "finished"} => overtaken \/ AllDone

\* What the walks can reach: before the second round only awaiters that were
\* pushed in the first, and then a set of those that the links do not leave.
Pushed == {w \in Waiter : pc[w] \in AfterPush}
FirstLists ==
    /\ m_state \in Pushed \cup {nullptr}
    /\ \A w \in Waiter : m_next[w] \in Pushed \cup {nullptr}
    /\ \A n \in Notifier : cur[n] \in Pushed \cup {nullptr}
Closed(S) ==
    /\ \A w \in S : pc[w] \in AfterPush /\ m_next[w] \in S \cup {nullptr}
    /\ \A n \in Notifier \ Later : pc[n] \in {"submit", "next"} => cur[n] \in S
Walks ==
    /\ \A n \in Notifier : pc[n] \in {"submit", "next"} => cur[n] \in Waiter
    /\ ~again => FirstLists
    /\ again /\ ~overtaken => \E S \in SUBSET (Waiter \ Later) : Closed(S)

\* The inductive invariant.
WgInv == WgTypes /\ CountsPending /\ Rounds /\ Passed /\ Walks
-----------------------------------------------------------------------------
\* The work is finite, so an empty counter means that nothing is pending.
LEMMA CountOfPending ==
    ASSUME CountsPending
    PROVE  /\ IsFiniteSet(Pending) /\ m_count \in Nat
           /\ m_count = 0 => Pending = {}
<1>1. IsFiniteSet(Pending)
  BY AwaiterListAssumption, FS_Subset DEF Pending, Coro
<1> QED BY <1>1, FS_CardinalityType, FS_EmptySet DEF CountsPending

\* A step that starts no work, adds none and finishes none leaves the work as
\* it is.
LEMMA SameWork ==
    ASSUME CountsPending, UNCHANGED <<m_count, again>>,
           \A n \in Notifier : pc'[n] = "start" <=> pc[n] = "start"
    PROVE  CountsPending' /\ (FirstDone' <=> FirstDone) /\ (AllDone' <=> AllDone)
<1>1. Pending' = Pending
  BY DEF Pending
<1>2. CountsPending'
  BY <1>1 DEF CountsPending
<1>3. (FirstDone' <=> FirstDone) /\ (AllDone' <=> AllDone)
  BY DEF FirstDone, AllDone
<1> QED BY <1>2, <1>3

\* A wait group is constructed with WgInv, with the count of the first round.
LEMMA InitCounts == WgInit => WgInv
<1> SUFFICES ASSUME WgInit PROVE WgInv
  OBVIOUS
<1>1. WgTypes /\ (\A c \in Coro : pc[c] = "start") /\ ~again /\ ~overtaken
  BY DEF WgInit, ListInit, WgTypes, Coro
<1>2. Pending = Notifier \ Later
  BY <1>1 DEF Pending, Coro
<1>3. CountsPending
  BY <1>2 DEF CountsPending, WgInit
<1>4. Rounds
  BY <1>1, WaitGroupAssumption DEF Rounds, Releasing, Coro
<1>5. Passed
  BY <1>1 DEF Passed, Coro
<1>6. Walks
  BY <1>1 DEF Walks, FirstLists, WgInit, ListInit, Coro
<1> QED BY <1>1, <1>3, <1>4, <1>5, <1>6 DEF WgInv

\* add() begins the second round: nothing is pending, and what was pushed so
\* far is a set that the walks of the first round do not leave.
LEMMA AddKeeps ==
    ASSUME WgInv, NEW w \in Waiter, add(w)
    PROVE  WgInv'
<1> USE AwaiterListAssumption, WaitGroupAssumption
<1>1. ~again /\ FirstDone /\ again' /\ pc' = pc /\ \A c \in Later : pc[c] = "start"
  BY DEF add, WgInv, Passed, Rounds
<1>2. FirstDone'
  BY <1>1 DEF FirstDone
<1>3. WgTypes'
  BY DEF add, WgInv, WgTypes
<1>4. CountsPending'
  <2>1. Pending = {} /\ Pending' = Notifier \cap Later
    BY <1>1 DEF Pending, FirstDone
  <2>2. m_count = 0
    BY <2>1, FS_EmptySet DEF WgInv, CountsPending
  <2>3. IsFiniteSet(Notifier \cap Later)
    BY FS_Subset DEF Coro
  <2>4. Cardinality(Notifier \cap Later) \in Nat
    BY <2>3, FS_CardinalityType
  <2>5. m_count' = Cardinality(Notifier \cap Later)
    BY <2>2, <2>4 DEF add
  <2> QED BY <2>1, <2>5 DEF CountsPending
<1>5. Rounds'
  <2>1. \A n \in Notifier : pc[n] = "exchange" => overtaken'
    BY DEF add
  <2>2. \A n \in Notifier : pc[n] \in Releasing => n \notin Later
    BY <1>1 DEF Releasing
  <2> QED BY <1>1, <1>2, <2>1, <2>2 DEF Rounds
<1>6. Passed'
  BY <1>1, <1>2 DEF Passed
<1>7. Walks'
  <2>1. FirstLists /\ \A n \in Notifier : pc[n] \in {"submit", "next"} => cur[n] \in Waiter
    BY <1>1 DEF WgInv, Walks
  <2>2. Pushed \in SUBSET (Waiter \ Later)
    BY <1>1 DEF Pushed, AfterPush
  <2>3. Closed(Pushed)
    BY <2>1 DEF Closed, FirstLists, Pushed, Coro
  <2>4. PICK S \in SUBSET (Waiter \ Later) : Closed(S)
    BY <2>2, <2>3
  <2>5. Closed(S)'
    BY <1>1, <2>4 DEF Closed, add
  <2>6. cur' = cur
    BY DEF add
  <2> QED BY <1>1, <2>1, <2>4, <2>5, <2>6 DEF Walks
<1> QED BY <1>3, <1>4, <1>5, <1>6, <1>7 DEF WgInv

\* done() takes its own piece of work off the count, and goes on to release the
\* waiters only if no other is pending.
LEMMA DoneKeeps ==
    ASSUME WgInv, NEW n \in Notifier, done_fetch_sub(n)
    PROVE  WgInv'
<1> USE AwaiterListAssumption, WaitGroupAssumption
<1>0. WgTypes /\ CountsPending /\ Rounds /\ Passed /\ Walks
  BY DEF WgInv
<1>1. /\ pc[n] = "start" /\ (n \in Later => again)
      /\ pc' = [pc EXCEPT ![n] = IF last_done(m_count) THEN "exchange" ELSE "finished"]
      /\ m_count' = m_count - 1
      /\ UNCHANGED <<m_state, m_next, old_value, cur, again, overtaken>>
  BY DEF done_fetch_sub, Starts, Goto
<1>2. WgTypes'
  BY <1>0, <1>1 DEF WgTypes, Coro, AfterPush, Releasing
<1>3. /\ \A c \in Coro : c # n => pc'[c] = pc[c]
      /\ pc'[n] = IF last_done(m_count) THEN "exchange" ELSE "finished"
  BY <1>0, <1>1 DEF WgTypes, Coro
<1>4. Pending' = Pending \ {n} /\ n \in Pending
  BY <1>1, <1>3 DEF Pending, Coro
<1>5. CountsPending'
  BY <1>0, <1>1, <1>4, CountOfPending, FS_RemoveElement DEF CountsPending
<1>6. (FirstDone => FirstDone') /\ (AllDone => AllDone')
  BY <1>1, <1>3 DEF FirstDone, AllDone, Coro
<1>7. last_done(m_count) => Pending' = {}
  BY <1>0, <1>1, <1>5, CountOfPending, FS_EmptySet, <1>4, FS_RemoveElement
     DEF last_done, CountsPending
<1>8. last_done(m_count) => FirstDone' /\ (again => AllDone')
  BY <1>7, <1>1 DEF Pending, FirstDone, AllDone
<1>9. again => n \in Later
  BY <1>0, <1>1 DEF Rounds, FirstDone
<1>10. Rounds'
  BY <1>0, <1>1, <1>3, <1>6, <1>8, <1>9 DEF Rounds, Releasing, Coro
<1>11. Passed'
  BY <1>0, <1>1, <1>3, <1>6 DEF Passed, Coro
<1>12. Walks'
  <2>1. \A w \in Waiter : pc'[w] = pc[w]
    BY <1>3 DEF Coro
  <2>2. Pushed' = Pushed
    BY <2>1 DEF Pushed
  <2>3. \A k \in Notifier : pc'[k] \in {"submit", "next"} => pc[k] \in {"submit", "next"}
    BY <1>3 DEF Coro
  <2>4. \A S \in SUBSET (Waiter \ Later) : Closed(S) => Closed(S)'
    BY <1>1, <2>1, <2>3 DEF Closed
  <2>5. FirstLists => FirstLists'
    BY <1>1, <2>2 DEF FirstLists
  <2> QED BY <1>0, <1>1, <2>3, <2>4, <2>5 DEF Walks
<1> QED BY <1>2, <1>5, <1>10, <1>11, <1>12 DEF WgInv
\* The steps of wait() and of await_resume() keep the work and the walks as they
\* are; a coroutine that finds the counter at zero passes.
LEMMA WaitKeeps ==
    ASSUME WgInv, NEW w \in Waiter, UNCHANGED countVars,
           \/ await_suspend(w) \/ load_count(w) \/ load_state(w)
           \/ push(w) \/ push_retry(w) \/ await_resume(w)
    PROVE  WgInv'
<1> USE AwaiterListAssumption, WaitGroupAssumption
<1>0. WgTypes /\ CountsPending /\ Rounds /\ Passed /\ Walks
  BY DEF WgInv
<1> DEFINE Moves == {"load", "load_state", "cas", "suspended", "finished"}
<1>1. PICK label \in Moves :
        /\ pc' = [pc EXCEPT ![w] = label]
        /\ pc[w] \in AfterPush => label \in AfterPush
        /\ label = "finished" => pc[w] = "ready" \/ (pc[w] = "load" /\ m_count = 0)
  BY DEF await_suspend, load_count, load_state, push, push_retry, await_resume,
         Starts, Goto, AfterPush
<1>2. /\ w \in Later => again
      /\ UNCHANGED <<cur, m_count, again, overtaken>>
  <2>1. pc[w] = "start" => (w \in Later => again)
    BY DEF await_suspend, load_count, load_state, push, push_retry, await_resume,
           Starts
  <2>2. w \in Later => again
    BY <1>0, <2>1 DEF Rounds, WgTypes
  <2> QED BY <2>2 DEF await_suspend, load_count, load_state, push, push_retry,
                      await_resume, countVars
<1>3. /\ m_state' = m_state \/ (m_state' = w /\ label = "suspended")
      /\ \/ m_next' = m_next
         \/ m_next' = [m_next EXCEPT ![w] = m_state] /\ pc[w] = "load_state"
      /\ old_value' = old_value \/ old_value' = [old_value EXCEPT ![w] = m_state]
  <2>1. CASE push(w)
    <3>1. pc'[w] = "suspended" /\ pc'[w] = label
      BY <1>0, <1>1, <2>1 DEF push, Goto, WgTypes, Coro
    <3> QED BY <2>1, <3>1 DEF push
  <2> QED BY <2>1 DEF await_suspend, load_count, load_state, push_retry,
                      await_resume
<1>4. (\A c \in Coro : c # w => pc'[c] = pc[c]) /\ pc'[w] = label /\ w \notin Notifier
  BY <1>0, <1>1 DEF WgTypes, Coro
<1>5. CountsPending' /\ (FirstDone' <=> FirstDone) /\ (AllDone' <=> AllDone)
  <2>1. \A n \in Notifier : pc'[n] = pc[n]
    BY <1>4 DEF Coro
  <2> QED BY <1>0, <1>2, <2>1, SameWork
<1>6. WgTypes'
  BY <1>0, <1>1, <1>2, <1>3 DEF WgTypes, Coro, AfterPush, Releasing
<1>7. Rounds'
  BY <1>0, <1>2, <1>4, <1>5 DEF Rounds, Coro
<1>8. Passed'
  <2>1. m_count = 0 => FirstDone /\ (again => AllDone)
    <3>1. m_count = 0 => Pending = {}
      BY <1>0, CountOfPending
    <3> QED BY <3>1 DEF Pending, FirstDone, AllDone
  <2>2. label = "finished" => FirstDone /\ (w \in Later => overtaken \/ AllDone)
    BY <1>0, <1>1, <1>2, <2>1 DEF Passed
  <2> QED BY <1>0, <1>1, <1>2, <1>4, <1>5, <2>2 DEF Passed, Coro
<1>9. Walks'
  <2>1. \A n \in Notifier : pc'[n] = pc[n]
    BY <1>4 DEF Coro
  <2>2. Pushed \subseteq Pushed' /\ (label = "suspended" => w \in Pushed')
    BY <1>1, <1>4 DEF Pushed, AfterPush, Coro
  <2>3. FirstLists => FirstLists'
    BY <1>0, <1>2, <1>3, <2>2 DEF FirstLists, WgTypes
  <2>4. ASSUME NEW S \in SUBSET (Waiter \ Later), Closed(S) PROVE Closed(S)'
    <3>1. \A v \in S : pc'[v] \in AfterPush
      BY <1>1, <1>4, <2>4 DEF Closed, Coro
    <3>2. \A v \in S : m_next'[v] = m_next[v]
      BY <1>0, <1>3, <2>4 DEF Closed, AfterPush, WgTypes
    <3> QED BY <1>2, <2>1, <2>4, <3>1, <3>2 DEF Closed
  <2> QED BY <1>0, <1>2, <2>1, <2>3, <2>4 DEF Walks
<1> QED BY <1>5, <1>6, <1>7, <1>8, <1>9 DEF WgInv

\* done() takes the list of the waiters.  One that does so in the second round
\* for the first has been overtaken.
LEMMA ExchangeKeeps ==
    ASSUME WgInv, NEW n \in Notifier, done_exchange(n)
    PROVE  WgInv'
<1> USE AwaiterListAssumption, WaitGroupAssumption
<1>0. WgTypes /\ CountsPending /\ Rounds /\ Passed /\ Walks
  BY DEF WgInv
<1>1. /\ pc[n] = "exchange"
      /\ pc' = [pc EXCEPT ![n] = IF m_state \in Waiter THEN "submit" ELSE "finished"]
      /\ m_state' = nullptr
      /\ cur' = [cur EXCEPT ![n] = m_state]
      /\ UNCHANGED <<m_next, old_value, m_count, again, overtaken>>
  BY DEF done_exchange, detach, Goto, countVars
<1>2. /\ \A c \in Coro : c # n => pc'[c] = pc[c]
      /\ pc'[n] = IF m_state \in Waiter THEN "submit" ELSE "finished"
  BY <1>0, <1>1 DEF WgTypes, Coro
<1>3. (\A k \in Notifier : k # n => cur'[k] = cur[k]) /\ cur'[n] = m_state
  BY <1>0, <1>1 DEF WgTypes
<1>4. CountsPending' /\ (FirstDone' <=> FirstDone) /\ (AllDone' <=> AllDone)
  <2>1. \A k \in Notifier : pc'[k] = "start" <=> pc[k] = "start"
    BY <1>1, <1>2 DEF Coro
  <2> QED BY <1>0, <1>1, <2>1, SameWork
<1>5. WgTypes'
  BY <1>0, <1>1 DEF WgTypes, Coro, AfterPush, Releasing
<1>6. Rounds'
  BY <1>0, <1>1, <1>2, <1>4 DEF Rounds, Releasing, Coro
<1>7. \A w \in Waiter : pc'[w] = pc[w]
  BY <1>2 DEF Coro
<1>8. Passed'
  BY <1>0, <1>1, <1>4, <1>7 DEF Passed
<1>9. Walks'
  <2>1. Pushed' = Pushed
    BY <1>7 DEF Pushed
  <2>2. FirstLists => FirstLists'
    BY <1>1, <1>3, <2>1 DEF FirstLists
  <2>3. again /\ ~overtaken => n \in Later
    BY <1>0, <1>1 DEF Rounds
  <2>4. ASSUME NEW S \in SUBSET (Waiter \ Later), Closed(S), n \in Later
        PROVE  Closed(S)'
    BY <1>1, <1>2, <1>3, <1>7, <2>4 DEF Closed, Coro
  <2>5. \A k \in Notifier : pc'[k] \in {"submit", "next"} => cur'[k] \in Waiter
    BY <1>0, <1>2, <1>3 DEF Walks, Coro
  <2> QED BY <1>0, <1>1, <2>2, <2>3, <2>4, <2>5 DEF Walks
<1> QED BY <1>4, <1>5, <1>6, <1>8, <1>9 DEF WgInv

\* The walk of the first round does not reach the waiters of the second, unless
\* the second has overtaken it; that of the second comes when all work is done.
LEMMA SubmitKeeps ==
    ASSUME WgInv, NEW n \in Notifier, submit(n), UNCHANGED countVars
    PROVE  WgInv'
<1> USE AwaiterListAssumption, WaitGroupAssumption
<1>0. WgTypes /\ CountsPending /\ Rounds /\ Passed /\ Walks
  BY DEF WgInv
<1>1. /\ pc[n] = "submit" /\ cur[n] \in Waiter
      /\ pc' = [pc EXCEPT ![n] = "next", ![cur[n]] = "ready"]
      /\ UNCHANGED <<m_state, m_next, old_value, cur, m_count, again, overtaken>>
  BY <1>0 DEF submit, countVars, Walks
<1>2. /\ \A c \in Coro : c # n /\ c # cur[n] => pc'[c] = pc[c]
      /\ pc'[n] = "next" /\ pc'[cur[n]] = "ready"
      /\ n # cur[n]
  BY <1>0, <1>1 DEF WgTypes, Coro
<1>3. \A k \in Notifier : k # n => pc'[k] = pc[k]
  BY <1>1, <1>2 DEF Coro
<1>4. CountsPending' /\ (FirstDone' <=> FirstDone) /\ (AllDone' <=> AllDone)
  <2>1. \A k \in Notifier : pc'[k] = "start" <=> pc[k] = "start"
    BY <1>1, <1>2, <1>3
  <2> QED BY <1>0, <1>1, <2>1, SameWork
<1>5. WgTypes'
  BY <1>0, <1>1 DEF WgTypes, Coro, AfterPush, Releasing
<1>6. FirstDone /\ (n \in Later => AllDone)
  BY <1>0, <1>1 DEF Rounds, Releasing
<1>7. cur[n] \in Later => again /\ (overtaken \/ n \in Later)
  <2>1. CASE ~again
    BY <1>0, <1>1, <2>1 DEF Walks, FirstLists, Pushed, Rounds, AfterPush, Coro
  <2>2. CASE again /\ ~overtaken
    BY <1>0, <1>1, <2>2 DEF Walks, Closed
  <2> QED BY <1>0, <2>1, <2>2 DEF WgTypes
<1>8. Rounds'
  BY <1>0, <1>1, <1>2, <1>3, <1>4, <1>7 DEF Rounds, Releasing, Coro
<1>9. Passed'
  BY <1>0, <1>1, <1>2, <1>4, <1>6, <1>7 DEF Passed, Coro
<1>10. Walks'
  <2>1. Pushed \subseteq Pushed'
    BY <1>1, <1>2 DEF Pushed, AfterPush, Coro
  <2>2. FirstLists => FirstLists'
    BY <1>1, <2>1 DEF FirstLists
  <2>3. ASSUME NEW S \in SUBSET (Waiter \ Later), Closed(S) PROVE Closed(S)'
    BY <1>1, <1>2, <1>3, <2>3 DEF Closed, AfterPush, Coro
  <2> QED BY <1>0, <1>1, <1>2, <1>3, <2>2, <2>3 DEF Walks
<1> QED BY <1>4, <1>5, <1>8, <1>9, <1>10 DEF WgInv

\* Whatever a walk reads where an awaiter was, it does not leave the set.
LEMMA AdvanceKeeps ==
    ASSUME WgInv, NEW n \in Notifier, advance(n), UNCHANGED countVars
    PROVE  WgInv'
<1> USE AwaiterListAssumption, WaitGroupAssumption
<1>0. WgTypes /\ CountsPending /\ Rounds /\ Passed /\ Walks
  BY DEF WgInv
<1>1. PICK p \in {m_next[cur[n]], nullptr} :
        /\ pc[n] = "next" /\ cur[n] \in Waiter
        /\ pc' = [pc EXCEPT ![n] = IF p = nullptr THEN "finished" ELSE "submit"]
        /\ cur' = [cur EXCEPT ![n] = p]
        /\ UNCHANGED <<m_state, m_next, old_value, m_count, again, overtaken>>
  BY <1>0 DEF advance, ReadNext, Goto, countVars, Walks
<1>2. /\ \A c \in Coro : c # n => pc'[c] = pc[c]
      /\ pc'[n] = IF p = nullptr THEN "finished" ELSE "submit"
  BY <1>0, <1>1 DEF WgTypes, Coro
<1>3. /\ \A k \in Notifier : k # n => cur'[k] = cur[k]
      /\ cur'[n] = p /\ p \in Waiter \cup {nullptr}
  BY <1>0, <1>1 DEF WgTypes
<1>4. CountsPending' /\ (FirstDone' <=> FirstDone) /\ (AllDone' <=> AllDone)
  <2>1. \A k \in Notifier : pc'[k] = "start" <=> pc[k] = "start"
    BY <1>1, <1>2 DEF Coro
  <2> QED BY <1>0, <1>1, <2>1, SameWork
<1>5. WgTypes'
  BY <1>0, <1>1, <1>3 DEF WgTypes, Coro, AfterPush, Releasing
<1>6. Rounds'
  BY <1>0, <1>1, <1>2, <1>4 DEF Rounds, Releasing, Coro
<1>7. \A w \in Waiter : pc'[w] = pc[w]
  BY <1>2 DEF Coro
<1>8. Passed'
  BY <1>0, <1>1, <1>4, <1>7 DEF Passed
<1>9. Walks'
  <2>1. Pushed' = Pushed
    BY <1>7 DEF Pushed
  <2>2. FirstLists => FirstLists'
    BY <1>1, <1>3, <2>1 DEF FirstLists
  <2>3. ASSUME NEW S \in SUBSET (Waiter \ Later), Closed(S) PROVE Closed(S)'
    <3>1. \A w \in S : pc'[w] \in AfterPush /\ m_next'[w] \in S \cup {nullptr}
      BY <1>1, <1>7, <2>3 DEF Closed
    <3>2. \A k \in Notifier \ {n} : pc'[k] = pc[k] /\ cur'[k] = cur[k]
      BY <1>2, <1>3 DEF Coro
    <3>3. n \notin Later /\ pc'[n] \in {"submit", "next"} => cur'[n] \in S
      BY <1>1, <1>2, <1>3, <2>3 DEF Closed
    <3> QED BY <2>3, <3>1, <3>2, <3>3 DEF Closed
  <2>4. \A k \in Notifier : pc'[k] \in {"submit", "next"} => cur'[k] \in Waiter
    BY <1>0, <1>2, <1>3 DEF Walks, Coro
  <2> QED BY <1>0, <1>1, <2>2, <2>3, <2>4 DEF Walks
<1> QED BY <1>4, <1>5, <1>6, <1>8, <1>9 DEF WgInv

\* For every number of waiters, pieces of work and contexts nobody passes wait()
\* before every piece of work of its round has called done(), if the second
\* round does not begin while the last done() of the first is at work.
THEOREM NobodyPassesUndone == WgSpec => []PassesOnlyWhenDone
<1>1. WgInv => PassesOnlyWhenDone
  BY DEF WgInv, Passed, FirstDone, AllDone, PassesOnlyWhenDone
<1>2. WgInv /\ [WgNext]_wgVars => WgInv'
  <2> SUFFICES ASSUME WgInv, [WgNext]_wgVars PROVE WgInv'
    OBVIOUS
  <2>1. ASSUME NEW c \in Coro, wgStep(c) PROVE WgInv'
    <3>1. CASE c \in Waiter /\ add(c)
      BY <3>1, AddKeeps
    <3>2. CASE c \in Notifier /\ done_fetch_sub(c)
      BY <3>2, DoneKeeps
    <3>3. CASE c \in Notifier /\ done_exchange(c)
      BY <3>3, ExchangeKeeps
    <3>4. CASE /\ c \in Waiter
               /\ await_suspend(c) \/ load_count(c) \/ load_state(c)
      <4>1. UNCHANGED countVars
        BY <3>4 DEF await_suspend, load_count, load_state, countVars
      <4> QED BY <3>4, <4>1, WaitKeeps
    <3>5. CASE listStep(c) /\ UNCHANGED countVars
      BY <3>5, WaitKeeps, SubmitKeeps, AdvanceKeeps DEF listStep
    <3> QED BY <2>1, <3>1, <3>2, <3>3, <3>4, <3>5 DEF wgStep
  <2>2. CASE UNCHANGED wgVars
    BY <2>2 DEF wgVars, listVars, countVars, WgInv, WgTypes, CountsPending,
                Pending, Rounds, Passed, FirstDone, AllDone, Walks, FirstLists,
                Pushed, Closed
  <2> QED BY <2>1, <2>2 DEF WgNext, WgQuiescent
<1> QED BY <1>1, <1>2, InitCounts, PTL DEF WgSpec
=============================================================================
