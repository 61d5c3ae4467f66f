---------------------------- MODULE Checker_proofs ----------------------------
(***************************************************************************)
(* What giving one more order to a truck does to a solution.               *)
(***************************************************************************)
EXTENDS Checker, Sorting_proofs

LEMMA AppendType ==
    ASSUME NEW S, NEW s \in Seq(S), NEW e \in S
    PROVE  Append(s, e) \in Seq(S)
OBVIOUS

LEMMA ServedAppend ==
    ASSUME NEW p, NEW solution \in Solution(p),
           NEW t \in DOMAIN p.trucks, NEW o \in DOMAIN p.orders
    PROVE  \A x : x \in Served([solution EXCEPT ![t] = Append(@, o)])
                     <=> x \in Served(solution) \/ x = o
<1> DEFINE after == [solution EXCEPT ![t] = Append(@, o)]
<1>1. /\ DOMAIN after = DOMAIN p.trucks /\ DOMAIN solution = DOMAIN p.trucks
      /\ \A u \in DOMAIN p.trucks : solution[u] \in Seq(DOMAIN p.orders)
  BY DEF Solution
<1>2. /\ after[t] = Append(solution[t], o)
      /\ \A u \in DOMAIN p.trucks \ {t} : after[u] = solution[u]
  BY <1>1
<1>3. {after[t][i] : i \in DOMAIN after[t]}
        = {solution[t][i] : i \in DOMAIN solution[t]} \cup {o}
  <2>1. /\ DOMAIN after[t] = DOMAIN solution[t] \cup {Len(solution[t]) + 1}
        /\ after[t][Len(solution[t]) + 1] = o
        /\ \A i \in DOMAIN solution[t] : after[t][i] = solution[t][i]
    BY <1>1, <1>2
  <2>2. QED BY <2>1
<1>4. QED BY <1>1, <1>2, <1>3 DEF Served

LEMMA NoRepeatsAppend ==
    ASSUME NEW p, NEW solution \in Solution(p),
           NEW t \in DOMAIN p.trucks, NEW o \in DOMAIN p.orders,
           NoRepeats(solution), o \notin Served(solution)
    PROVE  NoRepeats([solution EXCEPT ![t] = Append(@, o)])
<1> DEFINE after == [solution EXCEPT ![t] = Append(@, o)]
           last == Len(solution[t]) + 1
<1>1. /\ DOMAIN after = DOMAIN p.trucks /\ DOMAIN solution = DOMAIN p.trucks
      /\ \A u \in DOMAIN p.trucks : solution[u] \in Seq(DOMAIN p.orders)
  BY DEF Solution
<1>2. /\ after[t][last] = o
      /\ \A u \in DOMAIN after : \A i \in DOMAIN after[u] :
            ~(u = t /\ i = last) =>
               /\ i \in DOMAIN solution[u]
               /\ after[u][i] = solution[u][i]
  BY <1>1
<1>3. \A u \in DOMAIN solution : \A i \in DOMAIN solution[u] : solution[u][i] # o
  BY DEF Served
<1>4. QED BY <1>1, <1>2, <1>3 DEF NoRepeats

LEMMA LastEndAppend ==
    ASSUME NEW p, NEW solution \in Solution(p),
           NEW t \in DOMAIN p.trucks, NEW o \in DOMAIN p.orders
    PROVE  LET after == [solution EXCEPT ![t] = Append(@, o)]
           IN  /\ LastEnd(p, after, t) = EndOf(p.orders[o])
               /\ \A u \in DOMAIN p.trucks \ {t} :
                     LastEnd(p, after, u) = LastEnd(p, solution, u)
<1> DEFINE after == [solution EXCEPT ![t] = Append(@, o)]
<1>1. /\ DOMAIN solution = DOMAIN p.trucks
      /\ solution[t] \in Seq(DOMAIN p.orders)
  BY DEF Solution
<1>2. /\ after[t] # <<>>
      /\ after[t][Len(after[t])] = o
      /\ \A u \in DOMAIN p.trucks \ {t} : after[u] = solution[u]
  BY <1>1
<1>3. QED BY <1>2 DEF LastEnd

\* A move from the end of the schedule keeps the schedule acceptable.
LEMMA AcceptsAppend ==
    ASSUME NEW p, NEW solution \in Solution(p),
           NEW t \in DOMAIN p.trucks, NEW o \in DOMAIN p.orders,
           Accepts(p, solution),
           MoveBetweenOrders(p, p.trucks[t], LastEnd(p, solution, t), p.orders[o])
    PROVE  Accepts(p, [solution EXCEPT ![t] = Append(@, o)])
<1> DEFINE after == [solution EXCEPT ![t] = Append(@, o)]
           last == Len(solution[t]) + 1
<1>1. /\ DOMAIN solution = DOMAIN p.trucks
      /\ \A u \in DOMAIN p.trucks : solution[u] \in Seq(DOMAIN p.orders)
  BY DEF Solution
<1> SUFFICES ASSUME NEW u \in DOMAIN p.trucks, NEW i \in DOMAIN after[u]
             PROVE  MoveBetweenOrders(p, p.trucks[u], Previous(p, after, u, i),
                                      p.orders[after[u][i]])
  BY DEF Accepts
<1>2. CASE u = t /\ i = last
  <2>1. after[t][last] = o
    BY <1>1
  <2>2. Previous(p, after, t, last) = LastEnd(p, solution, t)
    <3>1. CASE solution[t] = <<>>
      BY <1>1, <3>1 DEF Previous, LastEnd
    <3>2. CASE solution[t] # <<>>
      <4>1. last # 1 /\ after[t][last - 1] = solution[t][Len(solution[t])]
        BY <1>1, <3>2
      <4>2. QED BY <3>2, <4>1 DEF Previous, LastEnd
    <3>3. QED BY <3>1, <3>2
  <2>3. QED BY <1>2, <2>1, <2>2
<1>3. CASE ~(u = t /\ i = last)
  <2>1. /\ i \in DOMAIN solution[u]
        /\ after[u][i] = solution[u][i]
        /\ i # 1 => after[u][i - 1] = solution[u][i - 1]
    BY <1>1, <1>3
  <2>2. Previous(p, after, u, i) = Previous(p, solution, u, i)
    BY <2>1 DEF Previous
  <2>3. QED BY <2>1, <2>2 DEF Accepts
<1>4. QED BY <1>2, <1>3
==============================================================================
