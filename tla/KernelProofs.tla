------------------------------ MODULE KernelProofs ------------------------------
(***************************************************************************)
(* What add_ready_queue, remove_ready_queue and dispatcher do to the rings *)
(* when the rings hold exactly the processes of a set Q; then the          *)
(* properties of GeneralClient, for any number of processes, ports and     *)
(* priorities, and for any programs: IInv is inductive.                    *)
(***************************************************************************)
EXTENDS KernelInvariant, WellFoundedInduction, TLAPS

-----------------------------------------------------------------------------
(* The rings *)

Level(q, Q, i) == {p \in Q : q.priority[p] = i}

RingsHold(q, Q) == \A i \in Priority : RingHolds(q, i, Level(q, Q, i))

(* A non-empty set of priorities has a greatest element: the well-founded  *)
(* order of the naturals, applied to the distances from MAX_READY_QUEUES.  *)
LEMMA GreatestPriority ==
  ASSUME NEW bits \in SUBSET Priority, bits # {}
  PROVE  /\ MostSignificantBit(bits) \in bits
         /\ \A j \in bits : j <= MostSignificantBit(bits)
<1> DEFINE D == {MAX_READY_QUEUES - i : i \in bits}
           R == OpToRel(<, Nat)
<1>1. D \in SUBSET Nat /\ D # {}
  <2>1. \A i \in bits : MAX_READY_QUEUES - i \in Nat
    BY SizesAssumption DEF Priority
  <2>2. PICK i \in bits : TRUE
    OBVIOUS
  <2>3. MAX_READY_QUEUES - i \in D
    OBVIOUS
  <2> QED  BY <2>1, <2>3
<1>2. PICK d \in D : \A e \in D : <<e, d>> \notin R
  <2> HIDE DEF D
  <2> QED  BY <1>1, NatLessThanWellFounded, WFMin
<1>3. PICK i \in bits : d = MAX_READY_QUEUES - i
  BY <1>2
<1>4. ASSUME NEW j \in bits PROVE j <= i
  <2>1. MAX_READY_QUEUES - j \in D
    OBVIOUS
  <2>2. ~(MAX_READY_QUEUES - j < d)
    BY <1>1, <1>2, <2>1 DEF OpToRel
  <2> QED  BY <1>3, <2>2, SizesAssumption DEF Priority
<1> QED  BY <1>4 DEF MostSignificantBit

LEMMA NullNotProc == NULL \notin Proc /\ Proc \subseteq Int
BY NullAssumption, SizesAssumption DEF Proc

(* The rings do not depend on the states. *)
LEMMA RingsIgnoreState ==
  ASSUME NEW q, NEW r, NEW Q,
         r.ready_queue = q.ready_queue, r.ready_procs = q.ready_procs,
         r.next = q.next, r.prev = q.prev, r.priority = q.priority,
         RingsHold(q, Q)
  PROVE  RingsHold(r, Q)
BY DEF RingsHold, RingHolds, Level

(* The fields of add_ready_queue(q, p). *)
LEMMA AddFields ==
  ASSUME NEW q \in QueueRecord, NEW p \in Proc,
         q.ready_queue[q.priority[p]] # NULL =>
           q.prev[q.ready_queue[q.priority[p]]] \in Proc
  PROVE  LET a == add_ready_queue(q, p)
             i == q.priority[p]
             first == q.ready_queue[i]
         IN /\ a \in QueueRecord
            /\ a.priority = q.priority
            /\ a.state = [q.state EXCEPT ![p] = "READY"]
            /\ first = NULL =>
                 /\ a.ready_queue = [q.ready_queue EXCEPT ![i] = p]
                 /\ a.ready_procs = q.ready_procs \cup {i}
                 /\ a.next = [q.next EXCEPT ![p] = p]
                 /\ a.prev = [q.prev EXCEPT ![p] = p]
            /\ first # NULL =>
                 /\ a.ready_queue = q.ready_queue
                 /\ a.ready_procs = q.ready_procs
                 /\ a.next = [q.next EXCEPT ![p] = first,
                                            ![q.prev[first]] = p]
                 /\ a.prev = [q.prev EXCEPT ![p] = q.prev[first],
                                            ![first] = p]
<1> DEFINE a == add_ready_queue(q, p)
           i == q.priority[p]
           first == q.ready_queue[i]
<1>1. i \in Priority /\ first \in ProcOrNull
  BY DEF QueueRecord
<1>2. CASE first = NULL
  BY <1>1, <1>2 DEF add_ready_queue, QueueRecord, ProcOrNull, States
<1>3. CASE first # NULL
  BY <1>1, <1>3 DEF add_ready_queue, QueueRecord, ProcOrNull, States
<1> QED  BY <1>2, <1>3

(* A ring is not disturbed by a change of the links of other processes. *)
LEMMA RingUnchanged ==
  ASSUME NEW q, NEW r, NEW L, NEW i,
         RingHolds(q, i, L),
         r.ready_queue[i] = q.ready_queue[i],
         i \in r.ready_procs <=> i \in q.ready_procs,
         \A x \in L : r.next[x] = q.next[x] /\ r.prev[x] = q.prev[x]
  PROVE  RingHolds(r, i, L)
<1>1. \A p \in L : /\ r.next[p] \in L /\ r.prev[p] \in L
                   /\ r.prev[r.next[p]] = p /\ r.next[r.prev[p]] = p
  BY DEF RingHolds
<1>2. ASSUME NEW S \in SUBSET L, S # {}, \A p \in S : r.next[p] \in S
      PROVE  S = L
  <2>1. \A p \in S : q.next[p] \in S
    BY <1>2
  <2> QED  BY <1>2, <2>1 DEF RingHolds
<1> QED  BY <1>1, <1>2 DEF RingHolds

(* add_ready_queue puts p into the ring of its priority, next to last, and *)
(* keeps every other ring and the links of the processes in no ring.       *)
LEMMA AddKeepsRings ==
  ASSUME NEW q \in QueueRecord, NEW Q \in SUBSET Proc, NEW p \in Proc,
         p \notin Q, RingsHold(q, Q)
  PROVE  LET a == add_ready_queue(q, p)
         IN /\ a \in QueueRecord
            /\ RingsHold(a, Q \cup {p})
            /\ a.priority = q.priority
            /\ a.state = [q.state EXCEPT ![p] = "READY"]
            /\ \A r \in Proc : r \notin Q \cup {p} => a.next[r] = q.next[r]
<1> DEFINE a == add_ready_queue(q, p)
           i == q.priority[p]
           L == Level(q, Q, i)
           first == q.ready_queue[i]
           last == q.prev[first]
<1>1. i \in Priority /\ L \subseteq Proc /\ p \notin L /\ NULL \notin Proc
  BY NullNotProc DEF QueueRecord, Level
<1>2. RingHolds(q, i, L)
  BY <1>1 DEF RingsHold
<1>3. /\ first = NULL <=> L = {}
      /\ first # NULL => first \in L /\ last \in L
  BY <1>1, <1>2 DEF RingHolds
<1>4. /\ a \in QueueRecord
      /\ a.priority = q.priority
      /\ a.state = [q.state EXCEPT ![p] = "READY"]
      /\ first = NULL => /\ a.ready_queue = [q.ready_queue EXCEPT ![i] = p]
                         /\ a.ready_procs = q.ready_procs \cup {i}
                         /\ a.next = [q.next EXCEPT ![p] = p]
                         /\ a.prev = [q.prev EXCEPT ![p] = p]
      /\ first # NULL => /\ a.ready_queue = q.ready_queue
                         /\ a.ready_procs = q.ready_procs
                         /\ a.next = [q.next EXCEPT ![p] = first, ![last] = p]
                         /\ a.prev = [q.prev EXCEPT ![p] = last, ![first] = p]
  BY <1>1, <1>3, AddFields
<1> HIDE DEF a
<1>5. \A j \in Priority : Level(a, Q \cup {p}, j) =
        IF j = i THEN L \cup {p} ELSE Level(q, Q, j)
  BY <1>4 DEF Level
<1>6. /\ q.next \in [Proc -> ProcOrNull] /\ q.prev \in [Proc -> ProcOrNull]
      /\ q.ready_queue \in [Priority -> ProcOrNull]
  BY DEF QueueRecord
<1>7. \A r \in Proc : r \notin L \cup {p} =>
        a.next[r] = q.next[r] /\ a.prev[r] = q.prev[r]
  BY <1>3, <1>4, <1>6
<1>8. ASSUME NEW j \in Priority, j # i
      PROVE  RingHolds(a, j, Level(q, Q, j))
  <2>1. RingHolds(q, j, Level(q, Q, j))
    BY DEF RingsHold
  <2>2. \A x \in Level(q, Q, j) : x \in Proc /\ x \notin L \cup {p}
    BY <1>8 DEF Level
  <2>3. a.ready_queue[j] = q.ready_queue[j]
    BY <1>4, <1>6, <1>8
  <2>4. j \in a.ready_procs <=> j \in q.ready_procs
    BY <1>4, <1>8
  <2> QED  BY <1>7, <2>1, <2>2, <2>3, <2>4, RingUnchanged
<1>9. RingHolds(a, i, L \cup {p})
  <2>1. CASE first = NULL
    BY <1>1, <1>3, <1>4, <1>6, <2>1 DEF RingHolds
  <2>2. CASE first # NULL
    <3>1. first \in L /\ last \in L /\ q.next[last] = first
      BY <1>2, <1>3, <2>2 DEF RingHolds
    <3>2. /\ a.next[p] = first /\ a.next[last] = p
          /\ a.prev[p] = last /\ a.prev[first] = p
          /\ \A x \in L : x # last => a.next[x] = q.next[x]
          /\ \A x \in L : x # first => a.prev[x] = q.prev[x]
      BY <1>1, <1>4, <1>6, <2>2, <3>1
    <3>3. \A x \in L : /\ q.next[x] \in L /\ q.prev[x] \in L
                       /\ q.prev[q.next[x]] = x /\ q.next[q.prev[x]] = x
      BY <1>2 DEF RingHolds
    <3>4. \A x \in L \cup {p} :
            /\ a.next[x] \in L \cup {p} /\ a.prev[x] \in L \cup {p}
            /\ a.prev[a.next[x]] = x /\ a.next[a.prev[x]] = x
      <4> HIDE DEF L, first, last, i
      <4>1. \A x \in L : x # last => q.next[x] # first
        BY <3>3 DEF last
      <4>2. \A x \in L : x # first => q.prev[x] # last
        BY <3>1, <3>3
      <4>3. ASSUME NEW x \in L PROVE a.next[x] \in L \cup {p} /\ a.prev[a.next[x]] = x
        BY <1>1, <3>1, <3>2, <3>3, <4>1
      <4>4. ASSUME NEW x \in L PROVE a.prev[x] \in L \cup {p} /\ a.next[a.prev[x]] = x
        BY <1>1, <3>1, <3>2, <3>3, <4>2
      <4> QED  BY <3>1, <3>2, <4>3, <4>4
    <3>5. ASSUME NEW S \in SUBSET (L \cup {p}), S # {},
                 \A x \in S : a.next[x] \in S
          PROVE  S = L \cup {p}
      <4> DEFINE T == S \ {p}
      <4>1. p \in S
        <5> SUFFICES ASSUME p \notin S PROVE FALSE
          OBVIOUS
        <5>1. last \notin S
          BY <3>2, <3>5
        <5>2. \A x \in S : q.next[x] \in S
          BY <3>2, <3>5, <5>1
        <5>3. S = L
          BY <1>2, <3>5, <5>2 DEF RingHolds
        <5> QED  BY <3>1, <5>1, <5>3
      <4>2. first \in T
        BY <1>1, <3>1, <3>2, <3>5, <4>1
      <4>3. ASSUME NEW x \in T PROVE q.next[x] \in T
        BY <1>1, <3>1, <3>2, <3>3, <3>5, <4>2
      <4>4. T = L
        BY <1>2, <4>2, <4>3 DEF RingHolds
      <4> QED  BY <4>1, <4>4
    <3>6. i \in a.ready_procs /\ a.ready_queue[i] \in L \cup {p}
      BY <1>2, <1>4, <2>2, <3>1 DEF RingHolds
    <3> QED  BY <3>4, <3>5, <3>6 DEF RingHolds
  <2> QED  BY <2>1, <2>2
<1>10. RingsHold(a, Q \cup {p})
  BY <1>5, <1>8, <1>9 DEF RingsHold
<1>11. \A r \in Proc : r \notin Q \cup {p} => a.next[r] = q.next[r]
  BY <1>7 DEF Level
<1> QED  BY <1>4, <1>10, <1>11 DEF a

(* The fields of remove_ready_queue(q, p). *)
LEMMA RemoveFields ==
  ASSUME NEW q \in QueueRecord, NEW p \in Proc,
         q.next[p] \in Proc, q.prev[p] \in Proc
  PROVE  LET r == remove_ready_queue(q, p)
             i == q.priority[p]
         IN /\ r \in QueueRecord
            /\ r.priority = q.priority
            /\ r.state = q.state
            /\ q.next[p] = p =>
                 /\ r.ready_queue = [q.ready_queue EXCEPT ![i] = NULL]
                 /\ r.ready_procs = q.ready_procs \ {i}
                 /\ r.next = q.next
                 /\ r.prev = q.prev
            /\ q.next[p] # p =>
                 /\ r.ready_queue = [q.ready_queue EXCEPT ![i] = q.next[p]]
                 /\ r.ready_procs = q.ready_procs
                 /\ r.next = [q.next EXCEPT ![q.prev[p]] = q.next[p]]
                 /\ r.prev = [q.prev EXCEPT ![q.next[p]] = q.prev[p]]
<1>1. q.priority[p] \in Priority
  BY DEF QueueRecord
<1>2. CASE q.next[p] = p
  BY <1>1, <1>2 DEF remove_ready_queue, QueueRecord, ProcOrNull
<1>3. CASE q.next[p] # p
  BY <1>1, <1>3 DEF remove_ready_queue, QueueRecord, ProcOrNull
<1> QED  BY <1>2, <1>3

(* remove_ready_queue takes p out of its ring, keeps every other ring and  *)
(* the links of p, whose successor is still in the ring or, when the ring  *)
(* is now empty, p itself.                                                 *)
LEMMA RemoveKeepsRings ==
  ASSUME NEW q \in QueueRecord, NEW Q \in SUBSET Proc, NEW p \in Q,
         RingsHold(q, Q)
  PROVE  LET r == remove_ready_queue(q, p)
             M == Level(r, Q \ {p}, r.priority[p])
         IN /\ r \in QueueRecord
            /\ RingsHold(r, Q \ {p})
            /\ r.priority = q.priority
            /\ r.state = q.state
            /\ \A x \in Proc : x \notin Q \ {p} => r.next[x] = q.next[x]
            /\ IF M = {} THEN r.next[p] = p ELSE r.next[p] \in M
<1> DEFINE r == remove_ready_queue(q, p)
           i == q.priority[p]
           L == Level(q, Q, i)
           M == L \ {p}
           n == q.next[p]
           b == q.prev[p]
<1>1. i \in Priority /\ L \subseteq Proc /\ p \in L /\ NULL \notin Proc
  BY NullNotProc DEF QueueRecord, Level
<1>2. RingHolds(q, i, L)
  BY <1>1 DEF RingsHold
<1>3. /\ n \in L /\ b \in L /\ q.prev[n] = p /\ q.next[b] = p
      /\ \A x \in L : /\ q.next[x] \in L /\ q.prev[x] \in L
                      /\ q.prev[q.next[x]] = x /\ q.next[q.prev[x]] = x
  BY <1>1, <1>2 DEF RingHolds
<1>4. /\ r \in QueueRecord
      /\ r.priority = q.priority
      /\ r.state = q.state
      /\ n = p => /\ r.ready_queue = [q.ready_queue EXCEPT ![i] = NULL]
                  /\ r.ready_procs = q.ready_procs \ {i}
                  /\ r.next = q.next
                  /\ r.prev = q.prev
      /\ n # p => /\ r.ready_queue = [q.ready_queue EXCEPT ![i] = n]
                  /\ r.ready_procs = q.ready_procs
                  /\ r.next = [q.next EXCEPT ![b] = n]
                  /\ r.prev = [q.prev EXCEPT ![n] = b]
  BY <1>1, <1>3, RemoveFields
<1> HIDE DEF r
<1>5. \A j \in Priority : Level(r, Q \ {p}, j) =
        IF j = i THEN M ELSE Level(q, Q, j)
  BY <1>4 DEF Level
<1>6. /\ q.next \in [Proc -> ProcOrNull] /\ q.prev \in [Proc -> ProcOrNull]
      /\ q.ready_queue \in [Priority -> ProcOrNull]
  BY DEF QueueRecord
<1>7. n = p => M = {}
  <2> SUFFICES ASSUME n = p PROVE {p} = L
    OBVIOUS
  <2>1. \A S \in SUBSET L : S # {} /\ (\A x \in S : q.next[x] \in S) => S = L
    BY <1>2 DEF RingHolds
  <2>2. {p} \in SUBSET L /\ {p} # {} /\ \A x \in {p} : q.next[x] \in {p}
    BY <1>1
  <2> HIDE DEF L
  <2> QED  BY <2>1, <2>2
<1>8. n # p => n \in M /\ b \in M
  BY <1>3
<1>9. \A x \in Proc : x \notin M => r.next[x] = q.next[x] /\ r.prev[x] = q.prev[x]
  BY <1>4, <1>6, <1>8
<1>10. ASSUME NEW j \in Priority, j # i
       PROVE  RingHolds(r, j, Level(q, Q, j))
  <2>1. RingHolds(q, j, Level(q, Q, j))
    BY DEF RingsHold
  <2>2. \A x \in Level(q, Q, j) : x \in Proc /\ x \notin M
    BY <1>10 DEF Level
  <2>3. r.ready_queue[j] = q.ready_queue[j]
    BY <1>4, <1>6, <1>10
  <2>4. j \in r.ready_procs <=> j \in q.ready_procs
    BY <1>4, <1>10
  <2> QED  BY <1>9, <2>1, <2>2, <2>3, <2>4, RingUnchanged
<1>11. RingHolds(r, i, M)
  <2>1. CASE n = p
    <3>1. M = {}
      BY <1>7, <2>1
    <3>2. r.ready_queue[i] = NULL /\ i \notin r.ready_procs
      BY <1>1, <1>4, <1>6, <2>1
    <3> HIDE DEF M, i
    <3> QED  BY <3>1, <3>2 DEF RingHolds
  <2>2. CASE n # p
    <3>1. n \in M /\ b \in M
      BY <1>8, <2>2
    <3>2. /\ r.next[b] = n /\ r.prev[n] = b
          /\ \A x \in L : x # b => r.next[x] = q.next[x]
          /\ \A x \in L : x # n => r.prev[x] = q.prev[x]
      BY <1>1, <1>3, <1>4, <1>6, <2>2
    <3>3. i \in r.ready_procs /\ r.ready_queue[i] \in M
      <4>1. i \in q.ready_procs
        BY <1>1, <1>2 DEF RingHolds
      <4> HIDE DEF i, n, M
      <4> QED  BY <1>1, <1>4, <1>6, <2>2, <3>1, <4>1
    <3>4. \A x \in L : (x # b => q.next[x] # p) /\ (x # n => q.prev[x] # p)
      BY <1>3
    <3>5. \A x \in L : (x # p => q.next[x] # n) /\ (x # p => q.prev[x] # b)
      BY <1>3
    <3> M \subseteq L /\ L = M \cup {p} /\ p \notin M
      BY <1>1
    <3> HIDE DEF M, L, n, b, i
    <3>6. ASSUME NEW x \in M
          PROVE  /\ r.next[x] \in M /\ r.prev[x] \in M
                 /\ r.prev[r.next[x]] = x /\ r.next[r.prev[x]] = x
      BY <1>3, <3>1, <3>2, <3>4, <3>5
    <3>7. ASSUME NEW S \in SUBSET M, S # {}, \A x \in S : r.next[x] \in S
          PROVE  S = M
      <4> DEFINE T == IF b \in S THEN S \cup {p} ELSE S
      <4>1. \A x \in T : q.next[x] \in T
        BY <1>3, <3>1, <3>2, <3>4, <3>7 DEF n
      <4>2. T \in SUBSET L /\ T # {}
        BY <3>7
      <4>3. T = L
        BY <1>2, <4>1, <4>2 DEF RingHolds
      <4> QED  BY <3>7, <4>3
    <3> QED  BY <3>3, <3>6, <3>7 DEF RingHolds
  <2> QED  BY <2>1, <2>2
<1>12. RingsHold(r, Q \ {p})
  BY <1>5, <1>10, <1>11 DEF RingsHold
<1>13. M \subseteq Q \ {p} /\ Level(r, Q \ {p}, r.priority[p]) = M
  BY <1>1, <1>4, <1>5 DEF Level
<1>14. IF M = {} THEN r.next[p] = p ELSE r.next[p] \in M
  BY <1>1, <1>7, <1>8, <1>9
<1> QED  BY <1>4, <1>9, <1>12, <1>13, <1>14 DEF r

(* dispatcher picks a process of the highest priority in a ring, when the  *)
(* successor of the active process is in the ring of its priority.         *)
LEMMA DispatcherPicks ==
  ASSUME NEW q \in QueueRecord, NEW Q \in SUBSET Proc, Q # {},
         NEW active \in Proc, RingsHold(q, Q),
         LET M == Level(q, Q, q.priority[active])
         IN  M # {} => q.next[active] \in M
  PROVE  /\ dispatcher(q, active) \in Q
         /\ \A x \in Q : q.priority[x] <= q.priority[dispatcher(q, active)]
<1> DEFINE i == MostSignificantBit(q.ready_procs)
<1>1. \A x \in Q : q.priority[x] \in q.ready_procs
  <2> TAKE x \in Q
  <2>1. q.priority[x] \in Priority /\ x \in Level(q, Q, q.priority[x])
    BY DEF QueueRecord, Level
  <2> QED  BY <2>1 DEF RingsHold, RingHolds
<1>2. i \in Priority /\ i \in q.ready_procs /\ \A j \in q.ready_procs : j <= i
  <2>1. q.ready_procs \in SUBSET Priority /\ q.ready_procs # {}
    BY <1>1 DEF QueueRecord
  <2> QED  BY <2>1, GreatestPriority
<1>3. RingHolds(q, i, Level(q, Q, i)) /\ Level(q, Q, i) # {}
  BY <1>2 DEF RingsHold, RingHolds
<1>4. dispatcher(q, active) \in Level(q, Q, i)
  BY <1>3 DEF dispatcher, RingHolds
<1> QED  BY <1>1, <1>2, <1>4 DEF Level

(* dispatcher for every place resign() and the interrupt routines are      *)
(* called from: the active process is in a ring, or has just left one, or  *)
(* is a process in no ring that is its own successor; only then can it     *)
(* pick a process that is in no ring: the active process itself.           *)
LEMMA DispatcherPicksOrStays ==
  ASSUME NEW q \in QueueRecord, NEW Q \in SUBSET Proc, Q # {},
         NEW active \in Proc, RingsHold(q, Q),
         LET M == Level(q, Q, q.priority[active])
         IN  \/ active \in Q \/ M = {} \/ q.next[active] \in M
             \/ q.next[active] = active
  PROVE  LET d == dispatcher(q, active)
         IN  \/ d \in Q /\ \A x \in Q : q.priority[x] <= q.priority[d]
             \/ d = active /\ q.next[active] = active
<1> DEFINE M == Level(q, Q, q.priority[active])
           d == dispatcher(q, active)
           i == MostSignificantBit(q.ready_procs)
<1>1. q.priority[active] \in Priority /\ RingHolds(q, q.priority[active], M)
  BY DEF QueueRecord, RingsHold
<1>2. CASE active \in Q
  <2>1. q.next[active] \in M
    BY <1>1, <1>2 DEF RingHolds, Level
  <2> QED  BY <2>1, DispatcherPicks
<1>3. CASE M = {} \/ q.next[active] \in M
  BY <1>3, DispatcherPicks
<1>4. CASE active \notin Q /\ M # {} /\ q.next[active] = active
  <2>1. CASE i = q.priority[active]
    BY <1>4, <2>1 DEF dispatcher
  <2>2. CASE i # q.priority[active]
    <3>1. d = q.ready_queue[i]
      BY <2>2 DEF dispatcher
    <3>2. PICK z \in M : TRUE
      BY <1>4
    <3> DEFINE r == [q EXCEPT !.next[active] = z]
    <3>3. r \in QueueRecord
      BY <3>2 DEF QueueRecord, ProcOrNull, Level
    <3>4. /\ r.priority = q.priority /\ r.ready_procs = q.ready_procs
          /\ r.ready_queue = q.ready_queue /\ r.prev = q.prev
          /\ \A x \in Q : r.next[x] = q.next[x]
          /\ r.next[active] = z
      BY <1>4 DEF QueueRecord
    <3> HIDE DEF r
    <3>5. \A j : Level(r, Q, j) = Level(q, Q, j)
      BY <3>4 DEF Level
    <3>6. RingsHold(r, Q)
      <4> SUFFICES ASSUME NEW j \in Priority
                   PROVE  RingHolds(r, j, Level(q, Q, j))
        BY <3>5 DEF RingsHold
      <4>1. RingHolds(q, j, Level(q, Q, j))
        BY DEF RingsHold
      <4>2. Level(q, Q, j) \subseteq Q
        BY DEF Level
      <4> QED  BY <3>4, <4>1, <4>2, RingUnchanged
    <3>7. dispatcher(r, active) = d
      BY <2>2, <3>1, <3>4 DEF dispatcher
    <3>8. r.next[active] \in Level(r, Q, r.priority[active])
      BY <3>2, <3>4, <3>5
    <3> QED  BY <3>3, <3>4, <3>6, <3>7, <3>8, DispatcherPicks
  <2> QED  BY <2>1, <2>2
<1> QED  BY <1>2, <1>3, <1>4

-----------------------------------------------------------------------------
(* The kernel *)

LEMMA RingsAreRings == RingsHoldTheReady <=> RingsHold(rq, Queued)
BY DEF RingsHoldTheReady, RingsHold, QueuedAt, Level

-----------------------------------------------------------------------------
(* The initial states *)

LEMMA BootAndNull ==
  /\ Boot \in Proc /\ NullProcess \in Proc /\ 0 \in Priority /\ 1 \in Priority
  /\ Boot \in Programs /\ 0 \in Port
BY SizesAssumption, PortsAssumption
   DEF Boot, NullProcess, Proc, Priority, Programs, Port

LEMMA InitInv == GInit => IInv
<1> SUFFICES ASSUME GInit PROVE IInv
  OBVIOUS
<1> USE BootAndNull, NullNotProc
<1>1. rq \in QueueRecord
  <2>1. \A p \in Proc : p # MAX_PROCS - 1 => p + 1 \in Proc
    BY SizesAssumption DEF Proc
  <2>2. [p \in Proc |-> CASE p \in {Boot, NullProcess} -> p
                         [] p = MAX_PROCS - 1 /\ p > 1 -> NULL
                         [] OTHER -> p + 1] \in [Proc -> ProcOrNull]
    <3> SUFFICES ASSUME NEW p \in Proc
                 PROVE  (CASE p \in {Boot, NullProcess} -> p
                           [] p = MAX_PROCS - 1 /\ p > 1 -> NULL
                           [] OTHER -> p + 1) \in ProcOrNull
      OBVIOUS
    <3>1. CASE p \in {Boot, NullProcess}
      BY <3>1, SizesAssumption DEF Boot, NullProcess, Proc, ProcOrNull
    <3>2. CASE p \notin {Boot, NullProcess}
      BY <2>1, <3>2, SizesAssumption DEF Boot, NullProcess, Proc, ProcOrNull
    <3> QED  BY <3>1, <3>2
  <2> QED  BY <2>2 DEF GInit, Init, QueueRecord, ProcOrNull, States
<1>2. GTypeOK
  <2>1. ports \in [Proc -> Seq(Port)]
    BY DEF GInit, Init
  <2>2. port \in [Port -> [open : BOOLEAN, owner : ProcOrNull,
                        blocked_list_head : ProcOrNull,
                        blocked_list_tail : ProcOrNull]]
    BY DEF GInit, Init, ProcOrNull
  <2>3. next_free_pcb \in ProcOrNull /\ next_free_port \in 0 .. MAX_PORTS
    BY SizesAssumption, PortsAssumption DEF GInit, Init, ProcOrNull, Proc
  <2>4. pc \in [Proc -> Labels] /\ halt \in Halts \cup {"no"}
    BY DEF GInit, Init, Labels
  <2> QED  BY <1>1, <2>1, <2>2, <2>3, <2>4
           DEF GInit, Init, GTypeOK, TypeOK, ProcOrNull
<1>3. Queued = {Boot, NullProcess}
  BY DEF GInit, Init, Queued
<1>4. RingsHoldTheReady
  <2> SUFFICES ASSUME NEW i \in Priority PROVE RingHolds(rq, i, QueuedAt(i))
    BY DEF RingsHoldTheReady
  <2>1. /\ rq.ready_procs = {0, 1}
        /\ rq.ready_queue[i] = CASE i = 0 -> NullProcess [] i = 1 -> Boot
                                 [] OTHER -> NULL
        /\ \A p \in {Boot, NullProcess} : rq.next[p] = p /\ rq.prev[p] = p
        /\ rq.priority[Boot] = 1 /\ rq.priority[NullProcess] = 0
    BY DEF GInit, Init, Boot, NullProcess
  <2>2. CASE i = 0
    <3>1. QueuedAt(i) = {NullProcess}
      BY <1>3, <2>1, <2>2 DEF QueuedAt, Boot, NullProcess
    <3> QED  BY <2>1, <2>2, <3>1 DEF RingHolds
  <2>3. CASE i = 1
    <3>1. QueuedAt(i) = {Boot}
      BY <1>3, <2>1, <2>3 DEF QueuedAt, Boot, NullProcess
    <3> QED  BY <2>1, <2>3, <3>1 DEF RingHolds
  <2>4. CASE i # 0 /\ i # 1
    <3>1. QueuedAt(i) = {}
      BY <1>3, <2>1, <2>4 DEF QueuedAt
    <3> QED  BY <2>1, <2>4, <3>1 DEF RingHolds
  <2> QED  BY <2>2, <2>3, <2>4
<1>5. ActiveIsReady /\ LabelsMatchStates
  BY <1>3 DEF GInit, Init, ActiveIsReady, LabelsMatchStates, StatesAt
<1>6. FreeListIsFree
  <2>1. \A p \in Proc : pc[p] = "free" <=> p # 0 /\ p # 1
    BY DEF GInit, Init, Boot, NullProcess
  <2>2. \A p \in Proc : p # 0 /\ p # 1 =>
          rq.next[p] = IF p = MAX_PROCS - 1 THEN NULL ELSE p + 1
    BY SizesAssumption DEF GInit, Init, Boot, NullProcess, Proc
  <2>3. next_free_pcb = IF MAX_PROCS > 2 THEN 2 ELSE NULL
    BY DEF GInit, Init
  <2> QED  BY <2>1, <2>2, <2>3, SizesAssumption, NullAssumption
           DEF FreeListIsFree, Proc
<1>7. EmbryosHaveOneCreator
  BY DEF GInit, Init, EmbryosHaveOneCreator, Creating
<1>8. PortsHaveOwners
  BY PortsAssumption DEF GInit, Init, PortsHaveOwners, Port
<1>9. SendersKnowThePort /\ BlockedListsAreQueues
  BY DEF GInit, Init, SendersKnowThePort, BlockedListsAreQueues, BlockedOn,
         ListHolds, SendStates
<1>10. WaitersAreRegistered /\ NoLostWakeup /\ EverySenderGetsAReply
  BY DEF GInit, Init, WaitersAreRegistered, NoLostWakeup, EverySenderGetsAReply, Own
<1> QED  BY <1>2, <1>4, <1>5, <1>6, <1>7, <1>8, <1>9, <1>10 DEF IInv

-----------------------------------------------------------------------------
(* The lists of blocked senders *)

LEMMA ListUnchanged ==
  ASSUME NEW link, NEW link2, NEW h, NEW t, NEW B, ListHolds(link, h, t, B),
         \A x \in B : link2[x] = link[x]
  PROVE  ListHolds(link2, h, t, B)
<1> SUFFICES ASSUME B # {} PROVE ListHolds(link2, h, t, B)
  BY DEF ListHolds
<1>1. /\ h \in B /\ t \in B /\ link2[t] = NULL
      /\ \A p \in B \ {t} : link2[p] \in B \ {h}
      /\ \A p, r \in B \ {t} : link2[p] = link2[r] => p = r
  BY DEF ListHolds
<1>2. ASSUME NEW S \in SUBSET B, h \in S, \A p \in S \ {t} : link2[p] \in S
      PROVE  S = B
  <2>1. \A p \in S \ {t} : link[p] \in S
    BY <1>2
  <2> QED  BY <1>2, <2>1 DEF ListHolds
<1> QED  BY <1>1, <1>2 DEF ListHolds

(* A sender that is linked in behind the tail. *)
LEMMA AppendKeepsList ==
  ASSUME NEW link \in [Proc -> ProcOrNull], NEW h, NEW t, NEW B \in SUBSET Proc,
         NEW p \in Proc, p \notin B, ListHolds(link, h, t, B)
  PROVE  /\ h = NULL <=> B = {}
         /\ h = NULL => ListHolds([link EXCEPT ![p] = NULL], p, p, B \cup {p})
         /\ h # NULL => ListHolds([link EXCEPT ![t] = p, ![p] = NULL], h, p,
                                 B \cup {p})
<1>1. h = NULL <=> B = {}
  BY NullNotProc DEF ListHolds
<1>2. CASE B = {}
  <2>1. [link EXCEPT ![p] = NULL][p] = NULL
    OBVIOUS
  <2> QED  BY <1>1, <1>2, <2>1 DEF ListHolds
<1>3. CASE B # {}
  <2> DEFINE l == [link EXCEPT ![t] = p, ![p] = NULL]
  <2>1. /\ h \in B /\ t \in B /\ link[t] = NULL
        /\ \A x \in B \ {t} : link[x] \in B \ {h}
        /\ \A x, r \in B \ {t} : link[x] = link[r] => x = r
    BY <1>3 DEF ListHolds
  <2>2. l[t] = p /\ l[p] = NULL /\ \A x \in B : x # t => l[x] = link[x]
    BY <2>1
  <2> HIDE DEF l
  <2>3. \A x \in B : l[x] \in (B \cup {p}) \ {h}
    BY <2>1, <2>2
  <2>4. \A x, r \in B : l[x] = l[r] => x = r
    BY <2>1, <2>2
  <2>5. ASSUME NEW S \in SUBSET (B \cup {p}), h \in S,
               \A x \in S \ {p} : l[x] \in S
        PROVE  S = B \cup {p}
    <3> DEFINE T == S \ {p}
    <3>1. \A x \in T \ {t} : link[x] \in T
      BY <2>1, <2>2, <2>5
    <3>2. T = B
      <4>1. \A X \in SUBSET B :
              h \in X /\ (\A x \in X \ {t} : link[x] \in X) => X = B
        BY <1>3 DEF ListHolds
      <4>2. T \in SUBSET B /\ h \in T
        BY <2>1, <2>5
      <4> QED  BY <3>1, <4>1, <4>2
    <3> QED  BY <2>1, <2>2, <2>5, <3>2
  <2>6. (B \cup {p}) \ {p} = B
    OBVIOUS
  <2>7. ListHolds(l, h, p, B \cup {p})
    BY <2>1, <2>2, <2>3, <2>4, <2>5, <2>6 DEF ListHolds
  <2> QED  BY <1>1, <1>3, <2>7 DEF l
<1> QED  BY <1>2, <1>3

(* receive() takes the head. *)
LEMMA TakeKeepsList ==
  ASSUME NEW link, NEW h, NEW t, NEW B \in SUBSET Proc, B # {},
         ListHolds(link, h, t, B)
  PROVE  /\ h \in B
         /\ link[h] \in ProcOrNull
         /\ ListHolds(link, link[h], IF link[h] = NULL THEN NULL ELSE t, B \ {h})
<1> DEFINE n == link[h]
<1>1. /\ h \in B /\ t \in B /\ link[t] = NULL
      /\ \A x \in B \ {t} : link[x] \in B \ {h}
      /\ \A x, r \in B \ {t} : link[x] = link[r] => x = r
      /\ \A X \in SUBSET B :
           h \in X /\ (\A x \in X \ {t} : link[x] \in X) => X = B
  BY DEF ListHolds
<1>2. CASE n = NULL
  <2>1. h = t
    BY <1>1, <1>2, NullNotProc
  <2>2. {h} = B
    <3>1. {h} \in SUBSET B /\ h \in {h} /\ \A x \in {h} \ {t} : link[x] \in {h}
      BY <1>1, <2>1
    <3> QED  BY <1>1, <3>1
  <2> QED  BY <1>1, <1>2, <2>2 DEF ListHolds, ProcOrNull
<1>3. CASE n # NULL
  <2>1. h # t /\ n \in B \ {h}
    BY <1>1, <1>3
  <2> HIDE DEF n
  <2>2. \A x \in (B \ {h}) \ {t} : link[x] \in (B \ {h}) \ {n}
    BY <1>1, <2>1 DEF n
  <2>3. ASSUME NEW S \in SUBSET (B \ {h}), n \in S,
               \A x \in S \ {t} : link[x] \in S
        PROVE  S = B \ {h}
    <3>1. \A x \in (S \cup {h}) \ {t} : link[x] \in S \cup {h}
      BY <2>3 DEF n
    <3>2. S \cup {h} = B
      <4>1. S \cup {h} \in SUBSET B /\ h \in S \cup {h}
        BY <1>1, <2>3
      <4> QED  BY <1>1, <3>1, <4>1
    <3> QED  BY <2>3, <3>2
  <2>4. ListHolds(link, n, t, B \ {h})
    BY <1>1, <2>1, <2>2, <2>3 DEF ListHolds
  <2> QED  BY <1>1, <1>3, <2>1, <2>4 DEF n, ProcOrNull
<1> QED  BY <1>2, <1>3

-----------------------------------------------------------------------------
(* Steps that dispatch *)

HighestStep ==
  active_proc' # active_proc =>
    /\ active_proc' \in Queued'
    /\ \A p \in Queued' : rq'.priority[p] <= rq'.priority[active_proc']

(* The CPU changes hands when the process that had it is on a ready queue, *)
(* or has left it with a successor on the queue, if there is one.          *)
LEMMA ResignStep ==
  ASSUME rq' \in QueueRecord, RingsHold(rq', Queued'), Queued' # {},
         active_proc \in Proc,
         active_proc' = dispatcher(rq', active_proc),
         LET M == Level(rq', Queued', rq'.priority[active_proc])
         IN  active_proc \in Queued' \/ (M # {} => rq'.next[active_proc] \in M)
  PROVE  /\ RingsHoldTheReady' /\ ActiveIsReady' /\ HighestStep
         /\ active_proc' \in Proc
<1> DEFINE M == Level(rq', Queued', rq'.priority[active_proc])
<1>1. Queued' \in SUBSET Proc
  BY DEF Queued
<1>2. M # {} => rq'.next[active_proc] \in M
  <2>1. CASE active_proc \in Queued'
    <3>1. active_proc \in M /\ RingHolds(rq', rq'.priority[active_proc], M)
      BY <2>1 DEF RingsHold, QueueRecord, Level
    <3> QED  BY <3>1 DEF RingHolds
  <2> QED  BY <2>1
<1>3. /\ active_proc' \in Queued'
      /\ \A x \in Queued' : rq'.priority[x] <= rq'.priority[active_proc']
  BY <1>1, <1>2, DispatcherPicks
<1>4. RingsHoldTheReady'
  BY DEF RingsHoldTheReady, RingsHold, QueuedAt, Level
<1> QED  BY <1>1, <1>3, <1>4 DEF ActiveIsReady, HighestStep

(* The same for a zombie that has left the ready queue. *)
LEMMA ZombieStep ==
  ASSUME rq' \in QueueRecord, RingsHold(rq', Queued'), Queued' # {},
         active_proc \in Proc,
         active_proc' = dispatcher(rq', active_proc),
         pc'[active_proc] \in {"zombie_resign", "zombie_loop"},
         \/ rq'.next[active_proc] = active_proc
         \/ rq'.next[active_proc] \in
              Level(rq', Queued', rq'.priority[active_proc])
  PROVE  /\ RingsHoldTheReady' /\ ActiveIsReady' /\ HighestStep
         /\ active_proc' \in Proc
<1>1. Queued' \in SUBSET Proc
  BY DEF Queued
<1>2. \/ /\ active_proc' \in Queued'
         /\ \A x \in Queued' : rq'.priority[x] <= rq'.priority[active_proc']
      \/ active_proc' = active_proc /\ rq'.next[active_proc] = active_proc
  BY <1>1, DispatcherPicksOrStays
<1>3. RingsHoldTheReady'
  BY DEF RingsHoldTheReady, RingsHold, QueuedAt, Level
<1> QED  BY <1>1, <1>2, <1>3 DEF ActiveIsReady, HighestStep

(* Whenever a step dispatches, and whoever goes on, the highest priority   *)
(* of all that are ready is that of the process that has the CPU.          *)
LEMMA DispatchedHighest ==
  ASSUME rq' \in QueueRecord, RingsHoldTheReady', HighestStep, Queued' # {},
         active_proc' = dispatcher(rq', active_proc)
  PROVE  \A p \in Queued' : rq'.priority[p] <= rq'.priority[active_proc']
<1>1. \A x \in Queued' : rq'.priority[x] \in Priority /\ rq'.priority[x] \in rq'.ready_procs
  BY DEF RingsHoldTheReady, RingHolds, QueuedAt, QueueRecord, Queued
<1>2. PICK i \in Priority : /\ i = MostSignificantBit(rq'.ready_procs)
                           /\ i \in rq'.ready_procs /\ \A j \in rq'.ready_procs : j <= i
  <2>1. rq'.ready_procs \in SUBSET Priority /\ rq'.ready_procs # {}
    BY <1>1 DEF QueueRecord
  <2> QED  BY <2>1, GreatestPriority
<1>3. CASE active_proc' # active_proc
  BY <1>3 DEF HighestStep
<1>4. CASE i # rq'.priority[active_proc]
  <2>1. active_proc' = rq'.ready_queue[i]
    BY <1>2, <1>4 DEF dispatcher
  <2>2. active_proc' \in QueuedAt(i)'
    BY <1>2, <2>1 DEF RingsHoldTheReady, RingHolds
  <2>3. rq'.priority[active_proc'] = i
    BY <2>2 DEF QueuedAt
  <2> QED  BY <1>1, <1>2, <2>3
<1>5. CASE active_proc' = active_proc /\ i = rq'.priority[active_proc]
  BY <1>1, <1>2, <1>5
<1> QED  BY <1>3, <1>4, <1>5

(* A step that changes no state, place, port or list keeps what is said of  *)
(* them.                                                                   *)
LEMMA SameMessages ==
  ASSUME IInv, rq'.state = rq.state,
         UNCHANGED <<param_proc, next_blocked, port, ports, next_free_port,
                     interrupt_table, pc, waits_on, clients>>
  PROVE  /\ PortsHaveOwners' /\ SendersKnowThePort' /\ BlockedListsAreQueues'
         /\ WaitersAreRegistered' /\ NoLostWakeup' /\ EverySenderGetsAReply'
<1> USE DEF IInv
<1>1. PortsHaveOwners' /\ SendersKnowThePort' /\ WaitersAreRegistered'
  BY DEF PortsHaveOwners, SendersKnowThePort, WaitersAreRegistered
<1>2. BlockedListsAreQueues' /\ NoLostWakeup'
  <2>1. \A x \in Port : BlockedOn(x)' = BlockedOn(x)
    BY DEF BlockedOn
  <2> QED  BY <2>1 DEF BlockedListsAreQueues, NoLostWakeup, Own
<1>3. EverySenderGetsAReply'
  <2>1. \A x, s \in Proc : InHand(x, s)' <=> InHand(x, s)
    BY DEF InHand
  <2>2. \A x \in Proc : Own(x)' = Own(x)
    BY DEF Own
  <2>3. EverySenderGetsAReply
    OBVIOUS
  <2> HIDE DEF IInv
  <2> QED  BY <2>1, <2>2, <2>3 DEF EverySenderGetsAReply
<1> QED  BY <1>1, <1>2, <1>3

(* The null process is always on a ready queue. *)
LEMMA NullIsQueued == LabelsMatchStates => NullProcess \in Queued
BY BootAndNull DEF LabelsMatchStates, Queued

(* The active process leaves the rings of q and the CPU is given away. *)
LEMMA BlockStep ==
  ASSUME NEW q \in QueueRecord, NEW Q \in SUBSET Proc, RingsHold(q, Q),
         active_proc \in Q, NullProcess \in Q, active_proc # NullProcess,
         rq' \in QueueRecord,
         rq'.ready_queue = remove_ready_queue(q, active_proc).ready_queue,
         rq'.ready_procs = remove_ready_queue(q, active_proc).ready_procs,
         rq'.next = remove_ready_queue(q, active_proc).next,
         rq'.prev = remove_ready_queue(q, active_proc).prev,
         rq'.priority = remove_ready_queue(q, active_proc).priority,
         Queued' = Q \ {active_proc},
         active_proc' = dispatcher(rq', active_proc)
  PROVE  /\ RingsHoldTheReady' /\ ActiveIsReady' /\ HighestStep
         /\ active_proc' \in Proc
         /\ \A x \in Proc \ Q : rq'.next[x] = q.next[x]
<1> DEFINE r == remove_ready_queue(q, active_proc)
<1>1. /\ RingsHold(r, Queued')
      /\ \A x \in Proc : x \notin Queued' => r.next[x] = q.next[x]
      /\ LET M == Level(r, Queued', r.priority[active_proc])
         IN  M # {} => r.next[active_proc] \in M
  BY RemoveKeepsRings
<1> HIDE DEF r
<1>2. RingsHold(rq', Queued')
  BY <1>1, RingsIgnoreState DEF r
<1>3. LET M == Level(rq', Queued', rq'.priority[active_proc])
      IN  M # {} => rq'.next[active_proc] \in M
  BY <1>1 DEF Level, r
<1>4. Queued' # {} /\ active_proc \in Proc
  OBVIOUS
<1>5. /\ RingsHoldTheReady' /\ ActiveIsReady' /\ HighestStep
      /\ active_proc' \in Proc
  BY <1>2, <1>3, <1>4, ResignStep
<1> QED  BY <1>1, <1>5 DEF r

(* A caller of the kernel is ready. *)
LEMMA CallerIsReady ==
  ASSUME IInv, NEW p \in Programs, NEW l \in Labels, At(p, l),
         l \notin {"zombie_resign", "zombie_loop"}
  PROVE  /\ active_proc = p /\ pc[p] = l /\ halt = "no"
         /\ p \in Queued /\ p \in Proc /\ p # NullProcess
         /\ l # "zombie_remove" => rq.state[p] = "READY"
         /\ NullProcess \in Queued
         /\ rq \in QueueRecord /\ RingsHold(rq, Queued) /\ Queued \subseteq Proc
BY NullIsQueued, RingsAreRings
   DEF IInv, At, ActiveIsReady, Queued, Programs, GTypeOK, TypeOK

(* q and r are the same rings, whatever the states of the processes. *)
SameRings(q, r) ==
  /\ q.ready_queue = r.ready_queue /\ q.ready_procs = r.ready_procs
  /\ q.next = r.next /\ q.prev = r.prev /\ q.priority = r.priority

LEMMA StateAndRings ==
  ASSUME NEW q \in QueueRecord, NEW p \in Proc, NEW S \in States
  PROVE  LET r == [q EXCEPT !.state[p] = S]
         IN  /\ r \in QueueRecord /\ SameRings(r, q)
             /\ r.state = [q.state EXCEPT ![p] = S]
BY DEF QueueRecord, SameRings

LEMMA RemoveIgnoresState ==
  ASSUME NEW q \in QueueRecord, NEW r \in QueueRecord, NEW p \in Proc,
         q.next[p] \in Proc, q.prev[p] \in Proc, SameRings(r, q)
  PROVE  SameRings(remove_ready_queue(r, p), remove_ready_queue(q, p))
<1> DEFINE a == remove_ready_queue(q, p)
           b == remove_ready_queue(r, p)
<1>1. /\ r.next[p] \in Proc /\ r.prev[p] \in Proc /\ r.next = q.next
      /\ r.prev = q.prev /\ r.priority = q.priority
      /\ r.ready_queue = q.ready_queue /\ r.ready_procs = q.ready_procs
  BY DEF SameRings
<1>2. CASE q.next[p] = p
  <2>1. /\ a.ready_queue = [q.ready_queue EXCEPT ![q.priority[p]] = NULL]
        /\ a.ready_procs = q.ready_procs \ {q.priority[p]}
        /\ a.next = q.next /\ a.prev = q.prev /\ a.priority = q.priority
    BY <1>2, RemoveFields
  <2>2. r.next[p] = p
    BY <1>1, <1>2
  <2>3. /\ b.ready_queue = [r.ready_queue EXCEPT ![r.priority[p]] = NULL]
        /\ b.ready_procs = r.ready_procs \ {r.priority[p]}
        /\ b.next = r.next /\ b.prev = r.prev /\ b.priority = r.priority
    BY <1>1, <2>2, RemoveFields
  <2> HIDE DEF a, b
  <2>4. SameRings(b, a)
    BY <1>1, <2>1, <2>3 DEF SameRings
  <2> QED  BY <2>4 DEF a, b
<1>3. CASE q.next[p] # p
  <2>1. /\ a.ready_queue = [q.ready_queue EXCEPT ![q.priority[p]] = q.next[p]]
        /\ a.ready_procs = q.ready_procs
        /\ a.next = [q.next EXCEPT ![q.prev[p]] = q.next[p]]
        /\ a.prev = [q.prev EXCEPT ![q.next[p]] = q.prev[p]]
        /\ a.priority = q.priority
    BY <1>3, RemoveFields
  <2>2. r.next[p] # p
    BY <1>1, <1>3
  <2>3. /\ b.ready_queue = [r.ready_queue EXCEPT ![r.priority[p]] = r.next[p]]
        /\ b.ready_procs = r.ready_procs
        /\ b.next = [r.next EXCEPT ![r.prev[p]] = r.next[p]]
        /\ b.prev = [r.prev EXCEPT ![r.next[p]] = r.prev[p]]
        /\ b.priority = r.priority
    BY <1>1, <2>2, RemoveFields
  <2> HIDE DEF a, b
  <2>4. SameRings(b, a)
    BY <1>1, <2>1, <2>3 DEF SameRings
  <2> QED  BY <2>4 DEF a, b
<1> QED  BY <1>2, <1>3

(* What a call that blocks its caller does to the ready queues: the caller  *)
(* leaves them for the state S and goes on at label l later.               *)
LEMMA CallerBlocks ==
  ASSUME IInv, NEW p \in Programs, At(p, "user"),
         NEW S \in States, S # "READY", NEW l, l # "zombie_remove",
         rq' \in QueueRecord, SameRings(rq', remove_ready_queue(rq, p)),
         rq'.state = [rq.state EXCEPT ![p] = S],
         pc' = [pc EXCEPT ![p] = l],
         active_proc' = dispatcher(rq', active_proc)
  PROVE  /\ RingsHoldTheReady' /\ ActiveIsReady' /\ HighestStep
         /\ active_proc' \in Proc
         /\ rq'.priority = rq.priority
         /\ \A x \in Proc \ Queued : rq'.next[x] = rq.next[x]
         /\ Queued' = Queued \ {p}
<1> DEFINE r == remove_ready_queue(rq, p)
<1>1. /\ active_proc = p /\ pc[p] = "user" /\ p \in Queued /\ p \in Proc
      /\ p # NullProcess /\ rq.state[p] = "READY" /\ NullProcess \in Queued
      /\ rq \in QueueRecord /\ RingsHold(rq, Queued) /\ Queued \in SUBSET Proc
  BY CallerIsReady DEF Labels
<1>2. r.priority = rq.priority
  BY <1>1, RemoveKeepsRings
<1> HIDE DEF r
<1>3. Queued' = Queued \ {p}
  <2>1. pc \in [Proc -> Labels] /\ rq.state \in [Proc -> States]
    BY <1>1 DEF IInv, GTypeOK, TypeOK, QueueRecord
  <2> QED  BY <1>1, <2>1 DEF Queued
<1>4. /\ rq'.ready_queue = r.ready_queue /\ rq'.ready_procs = r.ready_procs
      /\ rq'.next = r.next /\ rq'.prev = r.prev /\ rq'.priority = r.priority
  BY DEF r, SameRings
<1>5. /\ RingsHoldTheReady' /\ ActiveIsReady' /\ HighestStep
      /\ active_proc' \in Proc
      /\ \A x \in Proc \ Queued : rq'.next[x] = rq.next[x]
  BY <1>1, <1>3, <1>4, BlockStep DEF r
<1> QED  BY <1>2, <1>3, <1>4, <1>5

(* A call that changes its caller's state before it removes it. *)
LEMMA StateThenRemove ==
  ASSUME NEW q \in QueueRecord, NEW Q \in SUBSET Proc, RingsHold(q, Q),
         NEW p \in Q, NEW S \in States, NEW r,
         r = remove_ready_queue([q EXCEPT !.state[p] = S], p)
  PROVE  /\ r \in QueueRecord /\ SameRings(r, remove_ready_queue(q, p))
         /\ r.state = [q.state EXCEPT ![p] = S]
<1> DEFINE q1 == [q EXCEPT !.state[p] = S]
<1>1. q1 \in QueueRecord /\ SameRings(q1, q) /\ q1.state = [q.state EXCEPT ![p] = S]
  BY StateAndRings
<1>2. q.next[p] \in Proc /\ q.prev[p] \in Proc /\ p \in Proc
  <2>1. p \in Level(q, Q, q.priority[p]) /\ q.priority[p] \in Priority
    BY DEF Level, QueueRecord
  <2> QED  BY <2>1 DEF RingsHold, RingHolds, Level
<1> HIDE DEF q1
<1>4. r = remove_ready_queue(q1, p)
  BY DEF q1
<1>5. r \in QueueRecord /\ r.state = q1.state
  <2>1. q1.next[p] \in Proc /\ q1.prev[p] \in Proc
    BY <1>1, <1>2 DEF SameRings
  <2>2. /\ remove_ready_queue(q1, p) \in QueueRecord
        /\ remove_ready_queue(q1, p).state = q1.state
    BY <1>1, <1>2, <2>1, RemoveFields
  <2> QED  BY <1>4, <2>2
<1>6. SameRings(r, remove_ready_queue(q, p))
  BY <1>1, <1>2, <1>4, RemoveIgnoresState
<1> QED  BY <1>1, <1>5, <1>6

(* What making d ready does, with or without a dispatch, whoever has the   *)
(* CPU.                                                                    *)
LEMMA MadeReady ==
  ASSUME IInv, NEW d \in Proc, d \notin Queued, d # active_proc,
         rq' = add_ready_queue(rq, d), Queued' = Queued \cup {d},
         pc'[active_proc] = pc[active_proc] \/ active_proc \in Queued,
         \/ active_proc' = active_proc
         \/ active_proc' = dispatcher(rq', active_proc)
  PROVE  /\ rq' \in QueueRecord
         /\ RingsHoldTheReady' /\ ActiveIsReady' /\ HighestStep
         /\ active_proc' \in Proc
         /\ rq'.state = [rq.state EXCEPT ![d] = "READY"]
         /\ rq'.priority = rq.priority
         /\ \A x \in Proc \ Queued : x # d => rq'.next[x] = rq.next[x]
<1>1. /\ rq \in QueueRecord /\ RingsHold(rq, Queued) /\ Queued \in SUBSET Proc
      /\ ActiveIsReady /\ active_proc \in Proc
  BY RingsAreRings DEF IInv, GTypeOK, TypeOK, Queued
<1>2. /\ rq' \in QueueRecord /\ RingsHold(rq', Queued')
      /\ rq'.priority = rq.priority
      /\ rq'.state = [rq.state EXCEPT ![d] = "READY"]
      /\ \A x \in Proc : x \notin Queued \cup {d} => rq'.next[x] = rq.next[x]
  <2> DEFINE a == add_ready_queue(rq, d)
  <2>1. /\ a \in QueueRecord /\ RingsHold(a, Queued \cup {d})
        /\ a.priority = rq.priority
        /\ a.state = [rq.state EXCEPT ![d] = "READY"]
        /\ \A x \in Proc : x \notin Queued \cup {d} => a.next[x] = rq.next[x]
    BY <1>1, AddKeepsRings
  <2> HIDE DEF a
  <2>2. rq' = a
    BY DEF a
  <2> QED  BY <2>1, <2>2
<1>3. RingsHoldTheReady'
  BY <1>2 DEF RingsHoldTheReady, RingsHold, QueuedAt, Level
<1>4. CASE active_proc \in Queued
  <2>1. CASE active_proc' = active_proc
    BY <1>1, <1>2, <1>3, <1>4, <2>1 DEF ActiveIsReady, HighestStep
  <2>2. CASE active_proc' = dispatcher(rq', active_proc)
    BY <1>1, <1>2, <1>4, <2>2, ResignStep
  <2> QED  BY <1>2, <1>3, <2>1, <2>2
<1>5. CASE active_proc \notin Queued
  <2>1. /\ pc'[active_proc] \in {"zombie_resign", "zombie_loop"}
        /\ rq'.next[active_proc] = rq.next[active_proc]
        /\ \/ rq'.next[active_proc] = active_proc
           \/ rq'.next[active_proc] \in
                Level(rq', Queued', rq'.priority[active_proc])
    BY <1>1, <1>2, <1>5 DEF ActiveIsReady, Level, QueuedAt
  <2>2. CASE active_proc' = active_proc
    <3>1. ActiveIsReady'
      BY <2>1, <2>2 DEF ActiveIsReady, Level, QueuedAt
    <3> QED  BY <1>1, <1>2, <1>3, <2>2, <3>1 DEF HighestStep
  <2>3. CASE active_proc' = dispatcher(rq', active_proc)
    BY <1>1, <1>2, <2>1, <2>3, ZombieStep
  <2> QED  BY <1>2, <1>3, <2>2, <2>3
<1> QED  BY <1>4, <1>5

-----------------------------------------------------------------------------
(* Sending *)

LEMMA SendDeliverInv ==
  ASSUME IInv, NEW p \in Programs, NEW po \in Known, NEW data \in Data,
         At(p, "user"), send(p, po, data), CanDeliver(po), WaitsOn(p, po),
         NoResult, UNCHANGED clients
  PROVE  IInv' /\ HighestStep
<1> USE DEF IInv
<1> DEFINE dest == port[po].owner
           q1 == [rq EXCEPT !.state[p] = "REPLY_BLOCKED"]
           q2 == add_ready_queue(q1, dest)
<1>1. /\ active_proc = p /\ pc[p] = "user" /\ p \in Queued /\ p \in Proc
      /\ p # NullProcess /\ rq.state[p] = "READY" /\ NullProcess \in Queued
      /\ rq \in QueueRecord /\ RingsHold(rq, Queued) /\ Queued \subseteq Proc
  BY CallerIsReady DEF Labels
<1>2. /\ dest \in Proc /\ dest \in Programs /\ po \in Port /\ port[po].open
      /\ rq.state[dest] = "RECEIVE_BLOCKED" /\ pc[dest] = "receive"
      /\ dest \notin Queued /\ dest # p
  BY <1>1 DEF CanDeliver, Known, Programs, LabelsMatchStates, StatesAt, Queued,
     GTypeOK, TypeOK, Labels
<1>3. /\ rq' = remove_ready_queue(q2, p)
      /\ active_proc' = dispatcher(rq', p)
      /\ param_proc' = [param_proc EXCEPT ![dest] = p]
      /\ param_data' = [param_data EXCEPT ![dest] = data, ![p] = data]
      /\ UNCHANGED <<next_blocked, port, portVars, procVars, interrupt_table,
                     halt, pc, clients>>
      /\ NoResult
  BY <1>1 DEF send, Deliver, resign
<1>4. q1 \in QueueRecord /\ RingsHold(q1, Queued) /\ q1.priority = rq.priority
      /\ q1.next = rq.next /\ q1.state = [rq.state EXCEPT ![p] = "REPLY_BLOCKED"]
  <2>1. q1 \in QueueRecord
    BY <1>1 DEF QueueRecord, States
  <2>2. /\ q1.ready_queue = rq.ready_queue /\ q1.ready_procs = rq.ready_procs
        /\ q1.next = rq.next /\ q1.prev = rq.prev /\ q1.priority = rq.priority
        /\ q1.state = [rq.state EXCEPT ![p] = "REPLY_BLOCKED"]
    BY <1>1 DEF QueueRecord
  <2> HIDE DEF q1
  <2>3. RingsHold(q1, Queued)
    BY <1>1, <2>2, RingsIgnoreState
  <2> QED  BY <2>1, <2>2, <2>3
<1> HIDE DEF q1
<1>5. /\ q2 \in QueueRecord /\ RingsHold(q2, Queued \cup {dest})
      /\ q2.priority = rq.priority
      /\ q2.state = [rq.state EXCEPT ![p] = "REPLY_BLOCKED", ![dest] = "READY"]
      /\ \A x \in Proc : x \notin Queued \cup {dest} => q2.next[x] = rq.next[x]
  BY <1>1, <1>2, <1>4, AddKeepsRings
<1> HIDE DEF q2
<1>6. /\ rq' \in QueueRecord
      /\ rq'.state = [rq.state EXCEPT ![p] = "REPLY_BLOCKED", ![dest] = "READY"]
  <2>1. Queued \cup {dest} \in SUBSET Proc /\ p \in Queued \cup {dest}
    BY <1>1, <1>2
  <2> QED  BY <1>3, <1>5, <2>1, RemoveKeepsRings
<1>7. /\ rq'.state[p] = "REPLY_BLOCKED" /\ rq'.state[dest] = "READY"
      /\ \A x \in Proc : x # p /\ x # dest => rq'.state[x] = rq.state[x]
  BY <1>1, <1>2, <1>6 DEF QueueRecord
<1>8. Queued' = (Queued \cup {dest}) \ {p}
  BY <1>1, <1>2, <1>3, <1>7 DEF Queued
<1>9. /\ RingsHoldTheReady' /\ ActiveIsReady' /\ HighestStep
      /\ active_proc' \in Proc
      /\ \A x \in Proc \ (Queued \cup {dest}) : rq'.next[x] = q2.next[x]
  BY <1>1, <1>2, <1>3, <1>5, <1>6, <1>8, BlockStep
<1>10. waits_on' = [waits_on EXCEPT ![p] = po]
  BY <1>7 DEF WaitsOn, SendStates
<1>11. GTypeOK'
  BY <1>1, <1>2, <1>3, <1>6, <1>9, <1>10
     DEF GTypeOK, TypeOK, ProcOrNull, portVars, procVars, NoResult
<1>12. LabelsMatchStates' /\ EmbryosHaveOneCreator' /\ PortsHaveOwners'
  BY <1>1, <1>2, <1>3, <1>7 DEF LabelsMatchStates, StatesAt,
     EmbryosHaveOneCreator, Creating, PortsHaveOwners, procVars, portVars, Programs
<1>13. FreeListIsFree'
  BY <1>1, <1>2, <1>3, <1>5, <1>9 DEF FreeListIsFree, procVars, Queued
<1>14. SendersKnowThePort' /\ WaitersAreRegistered'
  BY <1>1, <1>2, <1>3, <1>7, <1>10
     DEF SendersKnowThePort, WaitersAreRegistered, GTypeOK, Programs
<1>15. BlockedListsAreQueues'
  <2>1. \A x \in Port : BlockedOn(x)' = BlockedOn(x)
    BY <1>1, <1>2, <1>7, <1>10 DEF BlockedOn, GTypeOK
  <2>2. \A x \in Proc : rq'.state[x] \in SendStates <=> waits_on'[x] # NULL
    BY <1>1, <1>2, <1>7, <1>10, NullAssumption
       DEF BlockedListsAreQueues, SendStates, GTypeOK, Port
  <2> QED  BY <1>3, <2>1, <2>2 DEF BlockedListsAreQueues
<1>16. NoLostWakeup'
  BY <1>2, <1>3, <1>7 DEF NoLostWakeup, Own
<1>17. EverySenderGetsAReply'
  <2> HIDE DEF IInv
  <2>1. /\ EverySenderGetsAReply
        /\ waits_on \in [Proc -> Port \cup {NULL}]
        /\ param_proc \in [Proc -> ProcOrNull]
    BY DEF IInv, GTypeOK, TypeOK
  <2>2. waits_on'[p] = po /\ \A s \in Proc : s # p => waits_on'[s] = waits_on[s]
    BY <1>1, <1>10, <2>1
  <2>3. ASSUME NEW s \in Proc, rq'.state[s] = "REPLY_BLOCKED"
        PROVE  \E r \in Proc : /\ waits_on'[s] \in Own(r)'
                               /\ s \in clients'[r] \/ InHand(r, s)'
    <3>1. CASE s = p
      <4>1. InHand(dest, p)'
        BY <1>2, <1>3, <1>7, <2>1 DEF InHand
      <4> QED  BY <1>2, <1>3, <2>2, <3>1, <4>1 DEF Own
    <3>2. CASE s # p
      <4>1. PICK r \in Proc : /\ waits_on[s] \in Own(r)
                              /\ s \in clients[r] \/ InHand(r, s)
        BY <1>2, <1>7, <2>1, <2>3, <3>2 DEF EverySenderGetsAReply
      <4>2. InHand(r, s) => InHand(r, s)'
        BY <1>1, <1>2, <1>3, <1>7, <2>1 DEF InHand
      <4> QED  BY <1>3, <2>2, <3>2, <4>1, <4>2 DEF Own
    <3> QED  BY <3>1, <3>2
  <2>4. \A s, x \in Proc : s \in clients'[x] =>
          rq'.state[s] = "REPLY_BLOCKED" /\ waits_on'[s] \in Own(x)'
    BY <1>1, <1>2, <1>3, <1>7, <2>1, <2>2 DEF EverySenderGetsAReply, Own
  <2> QED  BY <2>3, <2>4 DEF EverySenderGetsAReply
<1> QED  BY <1>9, <1>11, <1>12, <1>13, <1>14, <1>15, <1>16, <1>17

(* A caller that becomes a blocked sender in state S, at the tail of the   *)
(* list of port po.                                                        *)
LEMMA SenderBlocks ==
  ASSUME IInv, NEW p \in Programs, NEW po \in Known, NEW data \in Data,
         NEW S \in {"SEND_BLOCKED", "MESSAGE_BLOCKED"},
         At(p, "user"), ~CanDeliver(po),
         add_to_send_blocked_list(po, p),
         rq' \in QueueRecord,
         RingsHoldTheReady', ActiveIsReady', HighestStep, active_proc' \in Proc,
         rq'.state = [rq.state EXCEPT ![p] = S],
         \A x \in Proc \ Queued : rq'.next[x] = rq.next[x],
         param_data' = [param_data EXCEPT ![p] = data],
         WaitsOn(p, po), NoResult,
         UNCHANGED <<clients, portVars, procVars, interrupt_table, halt, pc>>
  PROVE  IInv' /\ HighestStep
<1> USE DEF IInv
<1> DEFINE head == port[po].blocked_list_head
           tail == port[po].blocked_list_tail
<1>1. /\ active_proc = p /\ pc[p] = "user" /\ p \in Queued /\ p \in Proc
      /\ p # NullProcess /\ rq.state[p] = "READY" /\ NullProcess \in Queued
      /\ rq \in QueueRecord /\ RingsHold(rq, Queued) /\ Queued \in SUBSET Proc
  BY CallerIsReady DEF Labels
<1>2. /\ rq'.state[p] = S
      /\ \A x \in Proc : x # p => rq'.state[x] = rq.state[x]
  BY <1>1 DEF QueueRecord
<1>3. waits_on' = [waits_on EXCEPT ![p] = po]
  BY <1>2 DEF WaitsOn, SendStates
<1>4. /\ waits_on \in [Proc -> Port \cup {NULL}] /\ po \in Port
      /\ waits_on'[p] = po /\ waits_on[p] = NULL
      /\ \A x \in Proc : x # p => waits_on'[x] = waits_on[x]
      /\ NULL \notin Port /\ NULL \notin Proc
  BY <1>1, <1>3, NullAssumption, NullNotProc
     DEF GTypeOK, Known, BlockedListsAreQueues, SendStates, Port
<1>5. /\ next_blocked \in [Proc -> ProcOrNull]
      /\ port \in [Port -> [open : BOOLEAN, owner : ProcOrNull,
                            blocked_list_head : ProcOrNull,
                            blocked_list_tail : ProcOrNull]]
  BY DEF GTypeOK, TypeOK
<1>6. /\ \A x \in Port : BlockedOn(x) \in SUBSET Proc
      /\ \A x \in Port : x # po => BlockedOn(x)' = BlockedOn(x)
      /\ BlockedOn(po)' = BlockedOn(po) \cup {p}
      /\ \A x \in Port : p \notin BlockedOn(x)
  BY <1>1, <1>2, <1>4 DEF BlockedOn
<1>7. /\ \A x \in Port : ListHolds(next_blocked, port[x].blocked_list_head,
                                   port[x].blocked_list_tail, BlockedOn(x))
      /\ ListHolds(next_blocked, head, tail, BlockedOn(po))
      /\ head # NULL => tail \in BlockedOn(po)
  BY <1>4 DEF BlockedListsAreQueues, ListHolds
<1>8. /\ \A x \in Port : x # po => port'[x] = port[x]
      /\ port'[po].open = port[po].open /\ port'[po].owner = port[po].owner
      /\ port'[po].blocked_list_tail = p
      /\ port'[po].blocked_list_head = IF head = NULL THEN p ELSE head
      /\ next_blocked' = IF head = NULL THEN [next_blocked EXCEPT ![p] = NULL]
                         ELSE [next_blocked EXCEPT ![tail] = p, ![p] = NULL]
      /\ param_proc' = param_proc
  BY <1>4, <1>5 DEF add_to_send_blocked_list
<1>9. port' \in [Port -> [open : BOOLEAN, owner : ProcOrNull,
                            blocked_list_head : ProcOrNull,
                            blocked_list_tail : ProcOrNull]]
  BY <1>1, <1>4, <1>5 DEF add_to_send_blocked_list, ProcOrNull
<1>10. next_blocked' \in [Proc -> ProcOrNull]
  BY <1>1, <1>5, <1>8 DEF ProcOrNull
<1>11. GTypeOK'
  BY <1>1, <1>3, <1>4, <1>8, <1>9, <1>10
     DEF GTypeOK, TypeOK, portVars, procVars, NoResult, ProcOrNull
<1>12. BlockedListsAreQueues'
  <2> HIDE DEF IInv
  <2>1. ASSUME NEW x \in Port
        PROVE  ListHolds(next_blocked', port'[x].blocked_list_head,
                         port'[x].blocked_list_tail, BlockedOn(x)')
    <3>1. CASE x = po
      <4> HIDE DEF head, tail
      <4>1. /\ head = NULL => ListHolds([next_blocked EXCEPT ![p] = NULL], p, p,
                                        BlockedOn(po) \cup {p})
            /\ head # NULL =>
                 ListHolds([next_blocked EXCEPT ![tail] = p, ![p] = NULL], head, p,
                           BlockedOn(po) \cup {p})
        BY <1>1, <1>4, <1>5, <1>6, <1>7, AppendKeepsList
      <4> QED  BY <1>6, <1>8, <3>1, <4>1
    <3>2. CASE x # po
      <4>1. \A y \in BlockedOn(x) : next_blocked'[y] = next_blocked[y]
        <5>1. \A y \in BlockedOn(x) : y # p /\ y \notin BlockedOn(po)
          BY <1>4, <1>6, <3>2 DEF BlockedOn
        <5> QED  BY <1>5, <1>6, <1>7, <1>8, <5>1
      <4>2. ListHolds(next_blocked', port[x].blocked_list_head,
                      port[x].blocked_list_tail, BlockedOn(x))
        BY <1>7, <4>1, ListUnchanged
      <4> QED  BY <1>6, <1>8, <3>2, <4>2
    <3> QED  BY <3>1, <3>2
  <2>2. \A x \in Proc : rq'.state[x] \in SendStates <=> waits_on'[x] # NULL
    <3>1. \A x \in Proc : rq.state[x] \in SendStates <=> waits_on[x] # NULL
      BY DEF IInv, BlockedListsAreQueues
    <3>2. S \in SendStates /\ po # NULL
      BY <1>4 DEF SendStates
    <3> QED  BY <1>2, <1>4, <3>1, <3>2
  <2> QED  BY <2>1, <2>2 DEF BlockedListsAreQueues
<1>13. LabelsMatchStates' /\ EmbryosHaveOneCreator'
  BY <1>1, <1>2 DEF LabelsMatchStates, StatesAt, EmbryosHaveOneCreator, Creating,
     procVars
<1>14. FreeListIsFree'
  BY <1>1 DEF FreeListIsFree, procVars, Queued
<1>15. \A x \in Port : port'[x].owner = port[x].owner /\ port'[x].open = port[x].open
  BY <1>8
<1>16. PortsHaveOwners'
  <2>1. \A x \in Proc : \A k \in DOMAIN ports[x] : ports[x][k] \in Port
    BY DEF GTypeOK, TypeOK
  <2> QED  BY <1>15, <2>1 DEF PortsHaveOwners, portVars
<1>17. SendersKnowThePort'
  BY <1>1, <1>4, <1>15 DEF SendersKnowThePort, Known
<1>18. WaitersAreRegistered'
  BY <1>2 DEF WaitersAreRegistered
<1>19. NoLostWakeup'
  <2> SUFFICES ASSUME NEW x \in Proc, rq'.state[x] = "RECEIVE_BLOCKED",
                      NEW y \in Port, port'[y].owner = x, port'[y].open
               PROVE  port'[y].blocked_list_head = NULL
    BY DEF NoLostWakeup, Own
  <2>1. rq.state[x] = "RECEIVE_BLOCKED"
    BY <1>2
  <2>2. y # po
    BY <1>15, <2>1 DEF CanDeliver
  <2> QED  BY <1>8, <1>15, <2>1, <2>2 DEF NoLostWakeup, Own
<1>20. EverySenderGetsAReply'
  <2>1. \A x, y \in Proc : InHand(x, y) => InHand(x, y)'
    BY <1>1, <1>2, <1>8 DEF InHand
  <2>2. \A x \in Proc : Own(x)' = Own(x)
    BY <1>15 DEF Own
  <2>3. \A x \in Proc : rq'.state[x] = "REPLY_BLOCKED" <=>
                        rq.state[x] = "REPLY_BLOCKED"
    BY <1>1, <1>2
  <2>4. EverySenderGetsAReply
    OBVIOUS
  <2> HIDE DEF IInv
  <2> QED  BY <1>1, <1>4, <2>1, <2>2, <2>3, <2>4 DEF EverySenderGetsAReply
<1> QED  BY <1>11, <1>12, <1>13, <1>14, <1>16, <1>17, <1>18, <1>19, <1>20

LEMMA SendInv ==
  ASSUME IInv, NEW p \in Programs, Send(p)
  PROVE  IInv' /\ HighestStep
<1>1. PICK po \in Known, data \in Payload[p] :
        /\ send(p, po, data) /\ WaitsOn(p, po) /\ NoResult /\ UNCHANGED clients
  BY DEF Send
<1>2. data \in Data /\ At(p, "user")
  BY <1>1, ProgramsAssumption DEF send, Programs
<1>3. CASE CanDeliver(po)
  BY <1>1, <1>2, <1>3, SendDeliverInv
<1>4. CASE ~CanDeliver(po)
  <2>1. /\ active_proc = p /\ pc[p] = "user" /\ rq \in QueueRecord
        /\ pc \in [Proc -> Labels] /\ p \in Queued /\ Queued \in SUBSET Proc
        /\ RingsHold(rq, Queued)
    BY <1>2, CallerIsReady DEF Labels, IInv, GTypeOK, TypeOK
  <2>2. /\ add_to_send_blocked_list(po, p)
        /\ param_data' = [param_data EXCEPT ![p] = data]
        /\ rq' = remove_ready_queue([rq EXCEPT !.state[p] = "SEND_BLOCKED"], p)
        /\ active_proc' = dispatcher(rq', active_proc)
        /\ UNCHANGED <<portVars, procVars, interrupt_table, halt, pc>>
    BY <1>1, <1>4 DEF send, resign
  <2>3. pc' = [pc EXCEPT ![p] = "user"] /\ "SEND_BLOCKED" \in States
    BY <2>1, <2>2 DEF States
  <2>4. /\ rq' \in QueueRecord /\ SameRings(rq', remove_ready_queue(rq, p))
        /\ rq'.state = [rq.state EXCEPT ![p] = "SEND_BLOCKED"]
    BY <2>1, <2>2, <2>3, StateThenRemove
  <2>5. /\ RingsHoldTheReady' /\ ActiveIsReady' /\ HighestStep
        /\ active_proc' \in Proc
        /\ \A x \in Proc \ Queued : rq'.next[x] = rq.next[x]
    BY <1>2, <2>2, <2>3, <2>4, CallerBlocks
  <2> QED  BY <1>1, <1>2, <1>4, <2>2, <2>4, <2>5, SenderBlocks
<1> QED  BY <1>3, <1>4

LEMMA MessageDeliverInv ==
  ASSUME IInv, NEW p \in Programs, NEW po \in Known, NEW data \in Data,
         message(p, po, data), CanDeliver(po), WaitsOn(p, po),
         NoResult, UNCHANGED clients
  PROVE  IInv' /\ HighestStep
<1> USE DEF IInv
<1> DEFINE dest == port[po].owner
<1>1. /\ active_proc = p /\ pc[p] = "user" /\ p \in Queued /\ p \in Proc
      /\ p # NullProcess /\ rq.state[p] = "READY" /\ NullProcess \in Queued
      /\ rq \in QueueRecord /\ RingsHold(rq, Queued) /\ Queued \in SUBSET Proc
  BY CallerIsReady DEF Labels, message
<1>2. /\ dest \in Proc /\ dest \in Programs /\ po \in Port /\ port[po].open
      /\ rq.state[dest] = "RECEIVE_BLOCKED" /\ pc[dest] = "receive"
      /\ dest \notin Queued /\ dest # p
  BY <1>1 DEF CanDeliver, Known, Programs, LabelsMatchStates, StatesAt, Queued,
     GTypeOK, TypeOK, Labels
<1>3. /\ rq' = add_ready_queue(rq, dest)
      /\ active_proc' = dispatcher(rq', active_proc)
      /\ param_proc' = [param_proc EXCEPT ![dest] = p]
      /\ param_data' = [param_data EXCEPT ![dest] = data]
      /\ UNCHANGED <<next_blocked, port, portVars, procVars, interrupt_table,
                     halt, pc, clients>>
      /\ NoResult
  BY <1>1 DEF message, Deliver, resign
<1>4. rq'.state = [rq.state EXCEPT ![dest] = "READY"]
  BY <1>1, <1>2, <1>3, AddKeepsRings
<1>5. /\ rq'.state[dest] = "READY"
      /\ \A x \in Proc : x # dest => rq'.state[x] = rq.state[x]
  BY <1>2, <1>1, <1>4 DEF QueueRecord
<1>6. Queued' = Queued \cup {dest}
  BY <1>2, <1>3, <1>5 DEF Queued
<1>7. /\ rq' \in QueueRecord
      /\ RingsHoldTheReady' /\ ActiveIsReady' /\ HighestStep
      /\ active_proc' \in Proc
      /\ \A x \in Proc \ Queued : x # dest => rq'.next[x] = rq.next[x]
  BY <1>1, <1>2, <1>3, <1>6, MadeReady
<1>8. waits_on' = waits_on
  BY <1>1, <1>2, <1>5 DEF WaitsOn, SendStates, GTypeOK
<1>9. GTypeOK'
  BY <1>1, <1>2, <1>3, <1>7, <1>8
     DEF GTypeOK, TypeOK, ProcOrNull, portVars, procVars, NoResult
<1>10. LabelsMatchStates' /\ EmbryosHaveOneCreator' /\ PortsHaveOwners'
  BY <1>1, <1>2, <1>3, <1>5 DEF LabelsMatchStates, StatesAt,
     EmbryosHaveOneCreator, Creating, PortsHaveOwners, procVars, portVars, Programs
<1>11. FreeListIsFree'
  BY <1>1, <1>2, <1>3, <1>7 DEF FreeListIsFree, procVars, Queued
<1>12. SendersKnowThePort' /\ WaitersAreRegistered'
  BY <1>1, <1>2, <1>3, <1>5, <1>8 DEF SendersKnowThePort, WaitersAreRegistered
<1>13. BlockedListsAreQueues'
  <2>1. \A x \in Port : BlockedOn(x)' = BlockedOn(x)
    BY <1>2, <1>5, <1>8 DEF BlockedOn
  <2>2. \A x \in Proc : rq'.state[x] \in SendStates <=> waits_on'[x] # NULL
    BY <1>2, <1>5, <1>8 DEF BlockedListsAreQueues, SendStates
  <2> QED  BY <1>3, <2>1, <2>2 DEF BlockedListsAreQueues
<1>14. NoLostWakeup'
  BY <1>2, <1>3, <1>5 DEF NoLostWakeup, Own
<1>15. EverySenderGetsAReply'
  <2>1. \A x, s \in Proc : InHand(x, s) => InHand(x, s)'
    BY <1>1, <1>2, <1>3, <1>5 DEF InHand
  <2>2. \A x \in Proc : Own(x)' = Own(x)
    BY <1>3 DEF Own
  <2>3. \A x \in Proc : rq'.state[x] = "REPLY_BLOCKED" <=>
                        rq.state[x] = "REPLY_BLOCKED"
    BY <1>2, <1>5
  <2>4. EverySenderGetsAReply
    OBVIOUS
  <2> HIDE DEF IInv
  <2> QED  BY <1>3, <1>8, <2>1, <2>2, <2>3, <2>4 DEF EverySenderGetsAReply
<1> QED  BY <1>7, <1>9, <1>10, <1>11, <1>12, <1>13, <1>14, <1>15

LEMMA MessageInv ==
  ASSUME IInv, NEW p \in Programs, Message(p)
  PROVE  IInv' /\ HighestStep
<1>1. PICK po \in Known, data \in Payload[p] :
        /\ message(p, po, data) /\ WaitsOn(p, po) /\ NoResult /\ UNCHANGED clients
  BY DEF Message
<1>2. data \in Data /\ At(p, "user")
  BY <1>1, ProgramsAssumption DEF message, Programs
<1>3. CASE CanDeliver(po)
  BY <1>1, <1>2, <1>3, MessageDeliverInv
<1>4. CASE ~CanDeliver(po)
  <2>1. /\ active_proc = p /\ pc[p] = "user" /\ rq \in QueueRecord
        /\ pc \in [Proc -> Labels] /\ p \in Queued /\ Queued \in SUBSET Proc
        /\ RingsHold(rq, Queued)
    BY <1>2, CallerIsReady DEF Labels, IInv, GTypeOK, TypeOK
  <2>2. /\ add_to_send_blocked_list(po, p)
        /\ param_data' = [param_data EXCEPT ![p] = data]
        /\ rq' = [remove_ready_queue(rq, p) EXCEPT !.state[p] = "MESSAGE_BLOCKED"]
        /\ active_proc' = dispatcher(rq', active_proc)
        /\ UNCHANGED <<portVars, procVars, interrupt_table, halt, pc>>
    BY <1>1, <1>4 DEF message, resign
  <2>3. pc' = [pc EXCEPT ![p] = "user"] /\ "MESSAGE_BLOCKED" \in States
    BY <2>1, <2>2 DEF States
  <2>4. /\ rq' \in QueueRecord /\ SameRings(rq', remove_ready_queue(rq, p))
        /\ rq'.state = [rq.state EXCEPT ![p] = "MESSAGE_BLOCKED"]
    <3> DEFINE a == remove_ready_queue(rq, p)
    <3>1. a \in QueueRecord /\ a.state = rq.state /\ p \in Proc
      BY <2>1, RemoveKeepsRings
    <3>2. rq' = [a EXCEPT !.state[p] = "MESSAGE_BLOCKED"]
      BY <2>2
    <3> HIDE DEF a
    <3>3. /\ rq' \in QueueRecord /\ SameRings(rq', a)
          /\ rq'.state = [rq.state EXCEPT ![p] = "MESSAGE_BLOCKED"]
      BY <2>3, <3>1, <3>2 DEF QueueRecord, SameRings
    <3> QED  BY <3>3 DEF a
  <2>5. /\ RingsHoldTheReady' /\ ActiveIsReady' /\ HighestStep
        /\ active_proc' \in Proc
        /\ \A x \in Proc \ Queued : rq'.next[x] = rq.next[x]
    BY <1>2, <2>2, <2>3, <2>4, CallerBlocks
  <2> QED  BY <1>1, <1>2, <1>4, <2>2, <2>4, <2>5, SenderBlocks
<1> QED  BY <1>3, <1>4

-----------------------------------------------------------------------------
(* A panic, and the steps that only wait *)

LEMMA PanicInv ==
  ASSUME IInv, NEW msg \in Halts, Panic(msg), UNCHANGED clientVars,
         received' = received \/ NoResult
  PROVE  IInv' /\ HighestStep
<1> USE DEF IInv
<1>1. /\ halt' = msg
      /\ UNCHANGED <<rq, active_proc, param_proc, param_data, next_blocked, port,
                     ports, next_free_port, next_free_pcb, new_proc,
                     interrupt_table, pc, waits_on, clients>>
  BY DEF Panic, schedVars, ipcVars, portVars, procVars, clientVars
<1>2. Queued' = Queued
  BY <1>1 DEF Queued
<1>3. GTypeOK'
  BY <1>1 DEF GTypeOK, TypeOK, NoResult
<1>4. RingsHoldTheReady' /\ ActiveIsReady' /\ HighestStep
  BY <1>1, <1>2 DEF RingsHoldTheReady, ActiveIsReady, HighestStep, QueuedAt
<1>5. LabelsMatchStates' /\ FreeListIsFree' /\ EmbryosHaveOneCreator'
  BY <1>1 DEF LabelsMatchStates, FreeListIsFree, EmbryosHaveOneCreator, Creating
<1>6. rq'.state = rq.state
  BY <1>1
<1> QED  BY <1>1, <1>3, <1>4, <1>5, <1>6, SameMessages

LEMMA StutterInv ==
  ASSUME IInv, UNCHANGED vars, Unchanged
  PROVE  IInv' /\ HighestStep
<1> USE DEF IInv
<1>1. UNCHANGED <<rq, active_proc, param_proc, param_data, next_blocked, port,
                  ports, next_free_port, next_free_pcb, new_proc, halt,
                  interrupt_table, pc, waits_on, clients>>
  BY DEF vars, schedVars, ipcVars, portVars, procVars, Unchanged, clientVars
<1>2. Queued' = Queued
  BY <1>1 DEF Queued
<1>3. GTypeOK'
  BY <1>1 DEF GTypeOK, TypeOK, NoResult, Unchanged
<1>4. RingsHoldTheReady' /\ ActiveIsReady' /\ HighestStep
  BY <1>1, <1>2 DEF RingsHoldTheReady, ActiveIsReady, HighestStep, QueuedAt
<1>5. LabelsMatchStates' /\ FreeListIsFree' /\ EmbryosHaveOneCreator'
  BY <1>1 DEF LabelsMatchStates, FreeListIsFree, EmbryosHaveOneCreator, Creating
<1>6. rq'.state = rq.state
  BY <1>1
<1> QED  BY <1>1, <1>3, <1>4, <1>5, <1>6, SameMessages

-----------------------------------------------------------------------------
(* Interrupts *)

LEMMA WaitForInterruptInv ==
  ASSUME IInv, NEW p \in Programs, WaitForInterrupt(p)
  PROVE  IInv' /\ HighestStep
<1> USE DEF IInv
<1>1. PICK irq \in Irq : wait_for_interrupt(p, irq)
  BY DEF WaitForInterrupt
<1>2. UNCHANGED clientVars /\ NoResult
  BY DEF WaitForInterrupt, Unchanged
<1>3. CASE Panic("wait_for_interrupt(): ISR busy")
  BY <1>2, <1>3, PanicInv DEF Halts
<1>4. CASE interrupt_table[irq] = NULL /\ ~Panic("wait_for_interrupt(): ISR busy")
  <2>1. /\ active_proc = p /\ pc[p] = "user" /\ p \in Queued /\ p \in Proc
        /\ p # NullProcess /\ rq.state[p] = "READY"
        /\ rq \in QueueRecord /\ RingsHold(rq, Queued) /\ Queued \in SUBSET Proc
        /\ At(p, "user")
    BY <1>1, CallerIsReady DEF Labels, wait_for_interrupt
  <2>2. /\ interrupt_table' = [interrupt_table EXCEPT ![irq] = p]
        /\ rq' = [remove_ready_queue(rq, p) EXCEPT !.state[p] = "INTR_BLOCKED"]
        /\ active_proc' = dispatcher(rq', active_proc)
        /\ pc' = [pc EXCEPT ![p] = "wait_for_interrupt"]
        /\ UNCHANGED <<ipcVars, portVars, procVars, halt, clientVars>>
    BY <1>1, <1>2, <1>4 DEF wait_for_interrupt, resign, Goto
  <2>3. "INTR_BLOCKED" \in States
    BY DEF States
  <2>4. /\ rq' \in QueueRecord /\ SameRings(rq', remove_ready_queue(rq, p))
        /\ rq'.state = [rq.state EXCEPT ![p] = "INTR_BLOCKED"]
    <3> DEFINE a == remove_ready_queue(rq, p)
    <3>1. a \in QueueRecord /\ a.state = rq.state
      BY <2>1, RemoveKeepsRings
    <3>2. rq' = [a EXCEPT !.state[p] = "INTR_BLOCKED"]
      BY <2>2
    <3> HIDE DEF a
    <3>3. /\ rq' \in QueueRecord /\ SameRings(rq', a)
          /\ rq'.state = [rq.state EXCEPT ![p] = "INTR_BLOCKED"]
      BY <2>1, <2>3, <3>1, <3>2 DEF QueueRecord, SameRings
    <3> QED  BY <3>3 DEF a
  <2>5. /\ RingsHoldTheReady' /\ ActiveIsReady' /\ HighestStep
        /\ active_proc' \in Proc
        /\ \A x \in Proc \ Queued : rq'.next[x] = rq.next[x]
    BY <2>1, <2>2, <2>3, <2>4, CallerBlocks
  <2>6. /\ rq'.state[p] = "INTR_BLOCKED" /\ pc'[p] = "wait_for_interrupt"
        /\ \A x \in Proc : x # p => rq'.state[x] = rq.state[x] /\ pc'[x] = pc[x]
        /\ pc' \in [Proc -> Labels]
    BY <2>1, <2>2, <2>4 DEF QueueRecord, GTypeOK, TypeOK, Labels, CallLabels
  <2>7. GTypeOK'
    BY <1>1, <1>2, <2>1, <2>2, <2>4, <2>5, <2>6 DEF GTypeOK, TypeOK, ProcOrNull,
       ipcVars, portVars, procVars, clientVars, NoResult
  <2>8. LabelsMatchStates' /\ EmbryosHaveOneCreator' /\ PortsHaveOwners'
    <3>1. LabelsMatchStates'
      BY <2>1, <2>6, BootAndNull DEF LabelsMatchStates, StatesAt
    <3>2. EmbryosHaveOneCreator'
      BY <2>1, <2>2, <2>6 DEF EmbryosHaveOneCreator, Creating, procVars
    <3>3. PortsHaveOwners'
      BY <2>1, <2>2, <2>6 DEF PortsHaveOwners, ipcVars, portVars
    <3> QED  BY <3>1, <3>2, <3>3
  <2>9. FreeListIsFree'
    BY <2>1, <2>2, <2>5, <2>6 DEF FreeListIsFree, procVars, Queued
  <2>10. SendersKnowThePort' /\ BlockedListsAreQueues'
    <3>1. \A x \in Port : BlockedOn(x)' = BlockedOn(x)
      BY <2>1, <2>2, <2>6 DEF BlockedOn, clientVars
    <3> QED  BY <2>1, <2>2, <2>6, <3>1 DEF SendersKnowThePort,
                BlockedListsAreQueues, SendStates, clientVars, ipcVars
  <2>11. WaitersAreRegistered'
    <3>1. \A x \in Proc : x # p =>
            {i \in Irq : interrupt_table'[i] = x} = {i \in Irq : interrupt_table[i] = x}
      BY <1>1, <1>4, <2>1, <2>2, NullNotProc DEF GTypeOK, TypeOK
    <3>2. {i \in Irq : interrupt_table'[i] = p} = {irq}
      BY <1>1, <2>1, <2>2 DEF GTypeOK, TypeOK, WaitersAreRegistered
    <3> QED  BY <2>6, <3>1, <3>2 DEF WaitersAreRegistered
  <2>12. NoLostWakeup'
    BY <2>1, <2>2, <2>6 DEF NoLostWakeup, Own, ipcVars
  <2>13. EverySenderGetsAReply'
    <3>1. \A x, s \in Proc : InHand(x, s) => InHand(x, s)'
      BY <2>1, <2>2, <2>6 DEF InHand, ipcVars
    <3>2. /\ \A x \in Proc : rq'.state[x] = "REPLY_BLOCKED" <=>
                             rq.state[x] = "REPLY_BLOCKED"
          /\ \A x \in Proc : Own(x)' = Own(x)
          /\ EverySenderGetsAReply /\ UNCHANGED <<waits_on, clients>>
      BY <2>1, <2>2, <2>6 DEF Own, ipcVars, clientVars
    <3> HIDE DEF IInv
    <3> QED  BY <3>1, <3>2 DEF EverySenderGetsAReply
  <2> QED  BY <2>5, <2>7, <2>8, <2>9, <2>10, <2>11, <2>12, <2>13
<1> QED  BY <1>1, <1>3, <1>4 DEF wait_for_interrupt

LEMMA WaitForInterruptReturnInv ==
  ASSUME IInv, NEW p \in Programs, WaitForInterruptReturn(p)
  PROVE  IInv' /\ HighestStep
<1> USE DEF IInv
<1>1. /\ active_proc = p /\ pc[p] = "wait_for_interrupt" /\ p \in Proc
      /\ rq.state[p] = "READY" /\ p # NullProcess
  BY CallerIsReady DEF Labels, CallLabels, WaitForInterruptReturn,
     wait_for_interrupt_return
<1>2. /\ interrupt_table' = [irq \in Irq |-> IF interrupt_table[irq] = p
                                             THEN NULL ELSE interrupt_table[irq]]
      /\ pc' = [pc EXCEPT ![p] = "user"]
      /\ UNCHANGED <<rq, active_proc, ipcVars, portVars, procVars, halt, clientVars>>
      /\ NoResult
  BY DEF WaitForInterruptReturn, wait_for_interrupt_return, Goto, Unchanged, schedVars
<1>3. /\ pc' \in [Proc -> Labels] /\ pc'[p] = "user"
      /\ \A x \in Proc : x # p => pc'[x] = pc[x]
  BY <1>1, <1>2 DEF GTypeOK, TypeOK, Labels
<1>4. Queued' = Queued
  BY <1>1, <1>2, <1>3 DEF Queued
<1>5. GTypeOK'
  BY <1>2, <1>3 DEF GTypeOK, TypeOK, NoResult, ipcVars, portVars, procVars,
     clientVars, ProcOrNull
<1>6. RingsHoldTheReady' /\ ActiveIsReady' /\ HighestStep
  BY <1>1, <1>2, <1>3, <1>4 DEF RingsHoldTheReady, ActiveIsReady, HighestStep, QueuedAt
<1>7. LabelsMatchStates' /\ EmbryosHaveOneCreator' /\ PortsHaveOwners'
  BY <1>1, <1>2, <1>3 DEF LabelsMatchStates, StatesAt, EmbryosHaveOneCreator,
     Creating, PortsHaveOwners, ipcVars, portVars, procVars
<1>8. FreeListIsFree'
  BY <1>1, <1>2, <1>3 DEF FreeListIsFree, procVars
<1>9. WaitersAreRegistered'
  <2>1. /\ \A x \in Proc : x # p =>
             {i \in Irq : interrupt_table'[i] = x} = {i \in Irq : interrupt_table[i] = x}
        /\ {i \in Irq : interrupt_table'[i] = p} = {}
    BY <1>1, <1>2, NullNotProc DEF GTypeOK, TypeOK
  <2>2. WaitersAreRegistered /\ rq' = rq
    BY <1>2
  <2> HIDE DEF IInv
  <2>3. ASSUME NEW x \in Proc, x # p
        PROVE  /\ pc'[x] = "wait_for_interrupt" <=>
                    {i \in Irq : interrupt_table'[i] = x} # {}
               /\ \A i, j \in {k \in Irq : interrupt_table'[k] = x} : i = j
               /\ rq'.state[x] = "INTR_BLOCKED" =>
                    {i \in Irq : interrupt_table'[i] = x} # {}
    BY <1>3, <2>1, <2>2, <2>3 DEF WaitersAreRegistered
  <2> QED  BY <1>1, <1>3, <2>1, <2>2, <2>3 DEF WaitersAreRegistered
<1>10. EverySenderGetsAReply'
  <2>1. \A x, s \in Proc : InHand(x, s) => InHand(x, s)'
    BY <1>1, <1>2, <1>3 DEF InHand, ipcVars
  <2> QED  BY <1>2, <2>1 DEF EverySenderGetsAReply, Own, ipcVars, clientVars
<1> QED  BY <1>2, <1>5, <1>6, <1>7, <1>8, <1>9, <1>10 DEF SendersKnowThePort,
            BlockedListsAreQueues, BlockedOn, NoLostWakeup, Own, ipcVars, clientVars

(* An interrupt service routine makes the process ready that waits for the  *)
(* interrupt, and dispatches.                                              *)
LEMMA WakeInv ==
  ASSUME IInv, NEW d \in Proc, rq.state[d] = "INTR_BLOCKED",
         rq' = add_ready_queue(rq, d),
         active_proc' = dispatcher(rq', active_proc),
         UNCHANGED <<ipcVars, portVars, procVars, interrupt_table, halt, pc>>,
         Unchanged
  PROVE  IInv' /\ HighestStep
<1> USE DEF IInv
<1>1. /\ pc[d] = "wait_for_interrupt" /\ d \notin Queued /\ d # active_proc
      /\ rq \in QueueRecord /\ RingsHold(rq, Queued) /\ Queued \in SUBSET Proc
      /\ d # NullProcess
  BY RingsAreRings DEF LabelsMatchStates, StatesAt, Queued, ActiveIsReady,
     GTypeOK, TypeOK, Labels, CallLabels
<1>2. UNCHANGED <<param_proc, param_data, next_blocked, port, ports,
                  next_free_port, next_free_pcb, new_proc, interrupt_table,
                  halt, pc, waits_on, clients>>
  BY DEF ipcVars, portVars, procVars, Unchanged, clientVars
<1>3. rq'.state = [rq.state EXCEPT ![d] = "READY"]
  BY <1>1, AddKeepsRings
<1>4. /\ rq'.state[d] = "READY"
      /\ \A x \in Proc : x # d => rq'.state[x] = rq.state[x]
  BY <1>1, <1>3 DEF QueueRecord
<1>5. Queued' = Queued \cup {d}
  BY <1>1, <1>2, <1>4 DEF Queued
<1>6. /\ rq' \in QueueRecord
      /\ RingsHoldTheReady' /\ ActiveIsReady' /\ HighestStep
      /\ active_proc' \in Proc
      /\ \A x \in Proc \ Queued : x # d => rq'.next[x] = rq.next[x]
  BY <1>1, <1>2, <1>5, MadeReady
<1>7. GTypeOK'
  BY <1>2, <1>6 DEF GTypeOK, TypeOK, Unchanged, NoResult
<1>8. LabelsMatchStates' /\ FreeListIsFree'
  <2>1. LabelsMatchStates'
    BY <1>1, <1>2, <1>4, BootAndNull DEF LabelsMatchStates, StatesAt
  <2>2. FreeListIsFree'
    BY <1>1, <1>2, <1>6 DEF FreeListIsFree, Queued
  <2> QED  BY <2>1, <2>2
<1>9. EmbryosHaveOneCreator' /\ PortsHaveOwners' /\ SendersKnowThePort'
  BY <1>2 DEF EmbryosHaveOneCreator, Creating, PortsHaveOwners, SendersKnowThePort
<1>10. BlockedListsAreQueues' /\ NoLostWakeup'
  <2>1. \A x \in Port : BlockedOn(x)' = BlockedOn(x)
    BY <1>2, <1>4 DEF BlockedOn
  <2> QED  BY <1>2, <1>4, <2>1 DEF BlockedListsAreQueues, SendStates, NoLostWakeup, Own
<1>11. WaitersAreRegistered'
  BY <1>2, <1>4 DEF WaitersAreRegistered
<1>12. EverySenderGetsAReply'
  <2>1. \A x, s \in Proc : InHand(x, s) => InHand(x, s)'
    BY <1>1, <1>2, <1>4 DEF InHand
  <2>2. /\ \A x \in Proc : rq'.state[x] = "REPLY_BLOCKED" <=>
                           rq.state[x] = "REPLY_BLOCKED"
        /\ \A x \in Proc : Own(x)' = Own(x)
        /\ EverySenderGetsAReply
    BY <1>2, <1>4 DEF Own
  <2> HIDE DEF IInv
  <2> QED  BY <1>2, <2>1, <2>2 DEF EverySenderGetsAReply
<1> QED  BY <1>6, <1>7, <1>8, <1>9, <1>10, <1>11, <1>12

(* A resign() that changes nothing else, whoever calls it. *)
LEMMA DispatchInv ==
  ASSUME IInv, rq' = rq, active_proc' = dispatcher(rq, active_proc),
         UNCHANGED <<ipcVars, portVars, procVars, interrupt_table, halt, pc>>,
         Unchanged
  PROVE  IInv' /\ HighestStep
<1> USE DEF IInv
<1>1. UNCHANGED <<rq, param_proc, param_data, next_blocked, port, ports,
                  next_free_port, next_free_pcb, new_proc, interrupt_table,
                  halt, pc, waits_on, clients>>
  BY DEF ipcVars, portVars, procVars, Unchanged, clientVars
<1>2. /\ rq \in QueueRecord /\ active_proc \in Proc /\ Queued' = Queued
      /\ NullProcess \in Queued /\ RingsHold(rq, Queued)
  BY <1>1, NullIsQueued, RingsAreRings DEF GTypeOK, TypeOK, Queued
<1>3. RingsHoldTheReady' /\ ActiveIsReady' /\ HighestStep /\ active_proc' \in Proc
  <2>1. CASE active_proc \in Queued
    BY <1>1, <1>2, <2>1, ResignStep
  <2>2. CASE active_proc \notin Queued
    <3>1. /\ pc'[active_proc] \in {"zombie_resign", "zombie_loop"}
          /\ \/ rq'.next[active_proc] = active_proc
             \/ rq'.next[active_proc] \in
                  Level(rq', Queued', rq'.priority[active_proc])
      BY <1>1, <1>2, <2>2 DEF ActiveIsReady, Level, QueuedAt
    <3> QED  BY <1>1, <1>2, <3>1, ZombieStep
  <2> QED  BY <2>1, <2>2
<1>4. GTypeOK'
  BY <1>1, <1>3 DEF GTypeOK, TypeOK, Unchanged, NoResult
<1>5. LabelsMatchStates' /\ FreeListIsFree' /\ EmbryosHaveOneCreator'
  BY <1>1 DEF LabelsMatchStates, FreeListIsFree, EmbryosHaveOneCreator, Creating
<1>6. rq'.state = rq.state
  BY <1>1
<1> QED  BY <1>1, <1>3, <1>4, <1>5, <1>6, SameMessages

LEMMA ResignInv ==
  ASSUME IInv, NEW p \in Programs, Resign(p)
  PROVE  IInv' /\ HighestStep
<1>1. /\ rq' = rq /\ active_proc' = dispatcher(rq, active_proc) /\ Unchanged
      /\ UNCHANGED <<ipcVars, portVars, procVars, interrupt_table, halt, pc>>
  BY DEF Resign, resign_call, resign
<1> QED  BY <1>1, DispatchInv

LEMMA InterruptInv ==
  ASSUME IInv, Interrupt
  PROVE  IInv' /\ HighestStep
<1>1. ASSUME NEW irq \in Irq, isr_device(irq), Unchanged
      PROVE  IInv' /\ HighestStep
  <2>1. interrupt_table[irq] # NULL => interrupt_table[irq] \in Proc
    BY DEF IInv, GTypeOK, TypeOK, ProcOrNull
  <2>2. \/ Panic("Spurious interrupt") \/ Panic("No process waiting")
        \/ /\ interrupt_table[irq] # NULL
           /\ rq.state[interrupt_table[irq]] = "INTR_BLOCKED"
           /\ rq' = add_ready_queue(rq, interrupt_table[irq])
           /\ active_proc' = dispatcher(rq', active_proc)
           /\ UNCHANGED <<ipcVars, portVars, procVars, interrupt_table, halt, pc>>
    BY <1>1 DEF isr_device, resign
  <2>3. CASE Panic("Spurious interrupt")
    BY <1>1, <2>3, PanicInv DEF Unchanged, Halts
  <2>4. CASE Panic("No process waiting")
    BY <1>1, <2>4, PanicInv DEF Unchanged, Halts
  <2> QED  BY <1>1, <2>1, <2>2, <2>3, <2>4, WakeInv
<1>2. CASE IsrTimer
  <2>1. interrupt_table[TIMER_IRQ] # NULL => interrupt_table[TIMER_IRQ] \in Proc
    BY DEF IInv, GTypeOK, TypeOK, ProcOrNull, Irq
  <2>2. /\ \/ rq' = rq /\ active_proc' = dispatcher(rq, active_proc)
           \/ /\ interrupt_table[TIMER_IRQ] # NULL
              /\ rq.state[interrupt_table[TIMER_IRQ]] = "INTR_BLOCKED"
              /\ rq' = add_ready_queue(rq, interrupt_table[TIMER_IRQ])
              /\ active_proc' = dispatcher(rq', active_proc)
        /\ UNCHANGED <<ipcVars, portVars, procVars, interrupt_table, halt, pc>>
        /\ Unchanged
    BY <1>2 DEF IsrTimer, isr_timer, resign
  <2> QED  BY <2>1, <2>2, WakeInv, DispatchInv
<1>3. CASE IsrCom1 \/ IsrKeyb
  BY <1>1, <1>3 DEF IsrCom1, IsrKeyb, isr_com1, isr_keyb, Irq
<1> QED  BY <1>2, <1>3 DEF Interrupt

-----------------------------------------------------------------------------
(* Receiving *)

LEMMA ReceivePendingInv ==
  ASSUME IInv, NEW p \in Programs, Receive(p), receive_pending(p), At(p, "user"),
         UNCHANGED <<portVars, procVars, interrupt_table, halt>>
  PROVE  IInv' /\ HighestStep
<1> USE DEF IInv
<1>1. /\ active_proc = p /\ pc[p] = "user" /\ p \in Queued /\ p \in Proc
      /\ p # NullProcess /\ rq.state[p] = "READY"
      /\ rq \in QueueRecord /\ RingsHold(rq, Queued) /\ Queued \in SUBSET Proc
  BY CallerIsReady DEF Labels
<1>2. PICK k \in Pending(p) :
        LET po == ports[p][k]
            d == port[po].blocked_list_head
            rest == next_blocked[d]
        IN  /\ received' = [received EXCEPT ![p] = <<d, param_data[d]>>]
            /\ port' = [port EXCEPT
                 ![po].blocked_list_head = rest,
                 ![po].blocked_list_tail = IF rest = NULL THEN NULL ELSE @]
            /\ rq' = CASE rq.state[d] = "MESSAGE_BLOCKED" -> add_ready_queue(rq, d)
                       [] rq.state[d] = "SEND_BLOCKED" ->
                            [rq EXCEPT !.state[d] = "REPLY_BLOCKED"]
            /\ UNCHANGED <<active_proc, param_proc, param_data, next_blocked, pc>>
  BY DEF receive_pending
<1>22. PICK po, d, rest, tail, S :
         /\ po = ports[p][k] /\ d = port[po].blocked_list_head
         /\ rest = next_blocked[d] /\ tail = port[po].blocked_list_tail
         /\ S = IF rq.state[d] = "MESSAGE_BLOCKED" THEN "READY" ELSE "REPLY_BLOCKED"
  OBVIOUS
<1>3. po \in Port /\ port[po].owner = p /\ d # NULL
  BY <1>1, <1>22 DEF Pending, GTypeOK, TypeOK, PortsHaveOwners
<1>4. /\ d \in BlockedOn(po) /\ rest \in ProcOrNull
      /\ ListHolds(next_blocked, rest, IF rest = NULL THEN NULL ELSE tail,
                   BlockedOn(po) \ {d})
  <2> DEFINE B == BlockedOn(po)
  <2>1. ListHolds(next_blocked, d, tail, B) /\ B \in SUBSET Proc
    BY <1>3, <1>22 DEF BlockedListsAreQueues, BlockedOn
  <2>2. B # {}
    BY <1>3, <2>1 DEF ListHolds
  <2> HIDE DEF B, IInv
  <2> QED  BY <1>22, <2>1, <2>2, TakeKeepsList DEF B
<1>5. /\ d \in Proc /\ rq.state[d] \in {"SEND_BLOCKED", "MESSAGE_BLOCKED"}
      /\ waits_on[d] = po /\ pc[d] = "user" /\ d # NullProcess /\ d # p
      /\ d \notin Queued
  BY <1>1, <1>4 DEF BlockedOn, LabelsMatchStates, StatesAt, Queued, Labels, CallLabels
<1>6. /\ received' = [received EXCEPT ![p] = <<d, param_data[d]>>]
      /\ port' = [port EXCEPT
                 ![po].blocked_list_head = rest,
                 ![po].blocked_list_tail = IF rest = NULL THEN NULL ELSE @]
      /\ UNCHANGED <<active_proc, param_proc, param_data, next_blocked, pc,
                     ports, next_free_port, next_free_pcb, new_proc,
                     interrupt_table, halt>>
  BY <1>2, <1>22 DEF portVars, procVars
<1>7. rq' = CASE rq.state[d] = "MESSAGE_BLOCKED" -> add_ready_queue(rq, d)
              [] rq.state[d] = "SEND_BLOCKED" ->
                            [rq EXCEPT !.state[d] = "REPLY_BLOCKED"]
  BY <1>2, <1>22
<1>8. /\ rq' \in QueueRecord /\ rq'.state = [rq.state EXCEPT ![d] = S]
      /\ RingsHoldTheReady' /\ ActiveIsReady' /\ HighestStep
      /\ \A x \in Proc \ Queued : x # d => rq'.next[x] = rq.next[x]
  <2>1. CASE rq.state[d] = "MESSAGE_BLOCKED"
    <3>1. rq' = add_ready_queue(rq, d)
      BY <1>7, <2>1
    <3>2. rq'.state = [rq.state EXCEPT ![d] = "READY"]
      BY <1>1, <1>5, <3>1, AddKeepsRings
    <3>3. Queued' = Queued \cup {d}
      BY <1>1, <1>5, <1>6, <3>2 DEF Queued, QueueRecord
    <3> HIDE DEF IInv
    <3> QED  BY <1>1, <1>5, <1>6, <1>22, <2>1, <3>1, <3>2, <3>3, MadeReady
  <2>2. CASE rq.state[d] = "SEND_BLOCKED"
    <3>1. rq' = [rq EXCEPT !.state[d] = "REPLY_BLOCKED"]
      BY <1>7, <2>2
    <3>2. "REPLY_BLOCKED" \in States
      BY DEF States
    <3>3. /\ rq' \in QueueRecord /\ SameRings(rq', rq)
          /\ rq'.state = [rq.state EXCEPT ![d] = "REPLY_BLOCKED"]
      BY <1>1, <1>5, <3>1, <3>2 DEF QueueRecord, SameRings
    <3>4. Queued' = Queued
      BY <1>1, <1>5, <1>6, <2>2, <3>3 DEF Queued, QueueRecord
    <3>5. RingsHold(rq', Queued)
      BY <1>1, <3>3, RingsIgnoreState DEF SameRings
    <3>6. RingsHoldTheReady'
      BY <3>4, <3>5 DEF RingsHoldTheReady, RingsHold, QueuedAt, Level
    <3>7. ActiveIsReady' /\ HighestStep
      BY <1>1, <1>6, <3>4 DEF ActiveIsReady, HighestStep
    <3> QED  BY <1>22, <2>2, <3>3, <3>6, <3>7 DEF SameRings
  <2> QED  BY <1>5, <1>22, <2>1, <2>2
<1>9. S \in {"READY", "REPLY_BLOCKED"}
  BY <1>22
<1>91. /\ rq'.state[d] = S /\ \A x \in Proc : x # d => rq'.state[x] = rq.state[x]
  BY <1>1, <1>5, <1>8 DEF QueueRecord
<1>10. /\ \A x \in Proc : rq.state[x] \in SendStates <=> waits_on[x] # NULL
       /\ waits_on \in [Proc -> Port \cup {NULL}] /\ clients \in [Proc -> SUBSET Proc]
       /\ received \in [Proc -> (ProcOrNull \X (Data \cup {NULL})) \cup {NULL}]
       /\ param_data \in [Proc -> Data \cup {NULL}]
  BY DEF BlockedListsAreQueues, GTypeOK, TypeOK
<1>11. waits_on' = [waits_on EXCEPT ![d] = IF S = "READY" THEN NULL ELSE @]
  <2>1. waits_on' = [s \in Proc |-> IF rq'.state[s] \in SendStates
                                 THEN waits_on[s] ELSE NULL]
    BY DEF Receive
  <2>2. S = "READY" => S \notin SendStates
    BY DEF SendStates
  <2>3. S # "READY" => S \in SendStates
    BY <1>9 DEF SendStates
  <2> HIDE DEF IInv
  <2>4. ASSUME NEW s \in Proc
        PROVE  waits_on'[s] = [waits_on EXCEPT ![d] = IF S = "READY" THEN NULL ELSE @][s]
    <3>1. CASE s = d
      BY <1>9, <1>91, <1>10, <2>1, <2>2, <2>3, <3>1
    <3>2. CASE s # d
      BY <1>9, <1>91, <1>10, <2>1, <3>2
    <3> QED  BY <3>1, <3>2
  <2> QED  BY <1>10, <2>1, <2>4
<1>12. clients' = [clients EXCEPT ![p] = IF S = "READY" THEN @ ELSE @ \cup {d}]
  <2>1. clients' = [clients EXCEPT ![p] =
                      IF Pending(p) = {} THEN @ ELSE @ \cup NewClient(p)]
    BY DEF Receive
  <2>2. received'[p][1] = d
    BY <1>1, <1>6, <1>10
  <2>3. waits_on[d] \in Own(p)
    BY <1>3, <1>5 DEF Own
  <2>4. NewClient(p) = IF S = "READY" THEN {} ELSE {d}
    BY <1>5, <1>9, <1>91, <2>2, <2>3 DEF NewClient
  <2> QED  BY <1>1, <1>10, <2>1, <2>4
<1>13. /\ \A x \in Port : x # po => port'[x] = port[x]
       /\ port'[po].open = port[po].open /\ port'[po].owner = port[po].owner
       /\ port'[po].blocked_list_head = rest
       /\ port'[po].blocked_list_tail = IF rest = NULL THEN NULL ELSE tail
       /\ port' \in [Port -> [open : BOOLEAN, owner : ProcOrNull,
                              blocked_list_head : ProcOrNull,
                              blocked_list_tail : ProcOrNull]]
  <2> DEFINE r1 == IF rest = NULL THEN NULL ELSE tail
  <2>1. port \in [Port -> [open : BOOLEAN, owner : ProcOrNull,
                              blocked_list_head : ProcOrNull,
                              blocked_list_tail : ProcOrNull]]
    BY DEF GTypeOK, TypeOK
  <2>2. port' = [port EXCEPT ![po].blocked_list_head = rest,
                             ![po].blocked_list_tail = r1]
    BY <1>3, <1>6, <1>22, <2>1
  <2>3. r1 \in ProcOrNull
    BY <1>3, <1>22, <2>1 DEF ProcOrNull
  <2> HIDE DEF r1, IInv
  <2>4. /\ \A x \in Port : x # po => port'[x] = port[x]
        /\ port'[po].open = port[po].open /\ port'[po].owner = port[po].owner
        /\ port'[po].blocked_list_head = rest
        /\ port'[po].blocked_list_tail = r1
        /\ port' \in [Port -> [open : BOOLEAN, owner : ProcOrNull,
                              blocked_list_head : ProcOrNull,
                              blocked_list_tail : ProcOrNull]]
    BY <1>3, <1>4, <2>1, <2>2, <2>3
  <2> QED  BY <2>4 DEF r1
<1>14. GTypeOK'
  <2>1. waits_on' \in [Proc -> Port \cup {NULL}] /\ clients' \in [Proc -> SUBSET Proc]
    BY <1>5, <1>10, <1>11, <1>12
  <2>2. received' \in [Proc -> (ProcOrNull \X (Data \cup {NULL})) \cup {NULL}]
    BY <1>1, <1>5, <1>6, <1>10 DEF ProcOrNull
  <2> QED  BY <1>6, <1>8, <1>13, <2>1, <2>2 DEF GTypeOK, TypeOK
<1>15. LabelsMatchStates' /\ FreeListIsFree'
  <2>1. LabelsMatchStates'
    BY <1>5, <1>6, <1>9, <1>91, BootAndNull DEF LabelsMatchStates, StatesAt
  <2>2. FreeListIsFree'
    BY <1>5, <1>6, <1>8 DEF FreeListIsFree, Queued
  <2> QED  BY <2>1, <2>2
<1>16. \A x \in Port : port'[x].owner = port[x].owner /\ port'[x].open = port[x].open
  BY <1>13
<1>17. EmbryosHaveOneCreator' /\ PortsHaveOwners' /\ SendersKnowThePort'
  <2>1. EmbryosHaveOneCreator'
    BY <1>6 DEF EmbryosHaveOneCreator, Creating
  <2>2. PortsHaveOwners'
    <3>1. /\ \A x \in Proc : \A j \in DOMAIN ports[x] : ports[x][j] \in Port
          /\ PortsHaveOwners
      BY DEF GTypeOK, TypeOK
    <3>2. UNCHANGED <<ports, next_free_port, pc>>
      BY <1>6
    <3> HIDE DEF IInv
    <3> QED  BY <1>16, <3>1, <3>2 DEF PortsHaveOwners
  <2>3. SendersKnowThePort'
    BY <1>5, <1>10, <1>11, <1>16 DEF SendersKnowThePort
  <2> QED  BY <2>1, <2>2, <2>3
<1>18. BlockedListsAreQueues'
  <2>1. /\ \A x \in Port : x # po => BlockedOn(x)' = BlockedOn(x)
        /\ BlockedOn(po)' = BlockedOn(po) \ {d}
    <3>1. \A x \in Proc : x # d => waits_on'[x] = waits_on[x]
      BY <1>10, <1>11
    <3>2. ASSUME NEW x \in Port, x # po PROVE BlockedOn(x)' = BlockedOn(x)
      BY <1>5, <1>9, <1>91, <3>1, <3>2 DEF BlockedOn
    <3>3. BlockedOn(po)' = BlockedOn(po) \ {d}
      <4>1. \A x \in Proc : x # d => (x \in BlockedOn(po)' <=> x \in BlockedOn(po))
        BY <1>5, <1>91, <3>1 DEF BlockedOn
      <4>2. d \notin BlockedOn(po)'
        BY <1>5, <1>9, <1>91 DEF BlockedOn
      <4>3. BlockedOn(po) \in SUBSET Proc /\ BlockedOn(po)' \in SUBSET Proc
        BY DEF BlockedOn
      <4> QED  BY <4>1, <4>2, <4>3
    <3> QED  BY <3>2, <3>3
  <2>2. \A x \in Port : x # po =>
          ListHolds(next_blocked, port[x].blocked_list_head,
                    port[x].blocked_list_tail, BlockedOn(x))
    BY DEF BlockedListsAreQueues
  <2>3. \A x \in Proc : rq'.state[x] \in SendStates <=> waits_on'[x] # NULL
    BY <1>5, <1>9, <1>91, <1>10, <1>11 DEF SendStates
  <2> HIDE DEF IInv
  <2>4. ASSUME NEW x \in Port
        PROVE  ListHolds(next_blocked', port'[x].blocked_list_head,
                         port'[x].blocked_list_tail, BlockedOn(x)')
    <3>1. CASE x = po
      <4> DEFINE r1 == IF rest = NULL THEN NULL ELSE tail
      <4>1. /\ ListHolds(next_blocked, rest, r1, BlockedOn(po) \ {d})
            /\ port'[po].blocked_list_head = rest
            /\ port'[po].blocked_list_tail = r1
        BY <1>4, <1>13
      <4> HIDE DEF r1
      <4> QED  BY <1>6, <2>1, <3>1, <4>1
    <3>2. CASE x # po
      BY <1>6, <1>13, <2>1, <2>2, <3>2
    <3> QED  BY <3>1, <3>2
  <2> QED  BY <2>3, <2>4 DEF BlockedListsAreQueues
<1>19. WaitersAreRegistered'
  BY <1>6, <1>9, <1>91 DEF WaitersAreRegistered
<1>20. NoLostWakeup'
  <2>1. \A x \in Proc : rq'.state[x] = "RECEIVE_BLOCKED" =>
          rq.state[x] = "RECEIVE_BLOCKED" /\ x # p
    BY <1>1, <1>5, <1>9, <1>91
  <2> QED  BY <1>3, <1>13, <1>16, <2>1 DEF NoLostWakeup, Own
<1>21. EverySenderGetsAReply'
  <2>1. \A x, s \in Proc : InHand(x, s) => InHand(x, s)'
    BY <1>5, <1>6, <1>9, <1>91 DEF InHand
  <2>2. \A x \in Proc : Own(x)' = Own(x)
    BY <1>16 DEF Own
  <2>3. EverySenderGetsAReply
    OBVIOUS
  <2> HIDE DEF IInv
  <2>4. ASSUME NEW s \in Proc, rq'.state[s] = "REPLY_BLOCKED"
        PROVE  \E r \in Proc : /\ waits_on'[s] \in Own(r)'
                               /\ s \in clients'[r] \/ InHand(r, s)'
    <3>1. CASE s = d
      <4>1. s \in clients'[p] /\ waits_on'[s] \in Own(p)'
        BY <1>1, <1>3, <1>5, <1>9, <1>91, <1>10, <1>11, <1>12, <2>2, <2>4, <3>1 DEF Own
      <4> QED  BY <1>1, <4>1
    <3>2. CASE s # d
      <4>1. PICK r \in Proc : /\ waits_on[s] \in Own(r)
                              /\ s \in clients[r] \/ InHand(r, s)
        <5>1. rq.state[s] = "REPLY_BLOCKED"
          BY <1>91, <2>4, <3>2
        <5> QED  BY <2>3, <2>4, <5>1 DEF EverySenderGetsAReply
      <4>2. waits_on'[s] = waits_on[s] /\ clients[r] \subseteq clients'[r]
        BY <1>10, <1>11, <1>12, <3>2
      <4> QED  BY <2>1, <2>2, <4>1, <4>2
    <3> QED  BY <3>1, <3>2
  <2>5. ASSUME NEW s \in Proc, NEW r \in Proc, s \in clients'[r]
        PROVE  rq'.state[s] = "REPLY_BLOCKED" /\ waits_on'[s] \in Own(r)'
    <3>1. CASE s = d
      <4>1. s \notin clients[r]
        BY <1>5, <2>3, <3>1 DEF EverySenderGetsAReply
      <4> QED  BY <1>3, <1>5, <1>9, <1>91, <1>10, <1>11, <1>12, <2>2, <2>5, <3>1, <4>1 DEF Own
    <3>2. CASE s # d
      <4>1. s \in clients[r] /\ waits_on'[s] = waits_on[s]
        BY <1>10, <1>11, <1>12, <2>5, <3>2
      <4> QED  BY <1>9, <1>91, <2>2, <2>3, <3>2, <4>1 DEF EverySenderGetsAReply
    <3> QED  BY <3>1, <3>2
  <2> QED  BY <2>4, <2>5 DEF EverySenderGetsAReply
<1> QED  BY <1>8, <1>14, <1>15, <1>17, <1>18, <1>19, <1>20, <1>21

(* A receive() that takes no message changes no record of who waits. *)
LEMMA NothingReceived ==
  ASSUME IInv, NEW p \in Programs, Receive(p), Pending(p) = {},
         \A x \in Proc : rq'.state[x] \in SendStates <=> rq.state[x] \in SendStates
  PROVE  UNCHANGED clientVars
<1>1. /\ \A x \in Proc : rq.state[x] \in SendStates <=> waits_on[x] # NULL
      /\ waits_on \in [Proc -> Port \cup {NULL}] /\ clients \in [Proc -> SUBSET Proc]
  BY DEF IInv, BlockedListsAreQueues, GTypeOK
<1>2. clients' = clients
  BY <1>1 DEF Receive
<1>3. waits_on' = [s \in Proc |-> IF rq'.state[s] \in SendStates
                                  THEN waits_on[s] ELSE NULL]
  BY DEF Receive
<1>4. \A s \in Proc : waits_on'[s] = waits_on[s]
  BY <1>1, <1>3
<1>5. waits_on' = waits_on
  BY <1>1, <1>3, <1>4
<1> QED  BY <1>2, <1>5 DEF clientVars

LEMMA ReceiveBlockInv ==
  ASSUME IInv, NEW p \in Programs, Receive(p), receive_block(p), At(p, "user"),
         ports[p] # <<>>,
         UNCHANGED <<portVars, procVars, interrupt_table, halt>>
  PROVE  IInv' /\ HighestStep
<1> USE DEF IInv
<1>1. /\ active_proc = p /\ pc[p] = "user" /\ p \in Queued /\ p \in Proc
      /\ p # NullProcess /\ rq.state[p] = "READY"
      /\ rq \in QueueRecord /\ RingsHold(rq, Queued) /\ Queued \in SUBSET Proc
  BY CallerIsReady DEF Labels
<1>2. /\ rq' = [remove_ready_queue(rq, p) EXCEPT !.state[p] = "RECEIVE_BLOCKED"]
      /\ active_proc' = dispatcher(rq', active_proc)
      /\ pc' = [pc EXCEPT ![p] = "receive"]
      /\ param_data' = [param_data EXCEPT ![p] = NULL]
      /\ received' = [received EXCEPT ![p] = NULL]
      /\ Pending(p) = {}
      /\ UNCHANGED <<param_proc, next_blocked, port, ports, next_free_port,
                     next_free_pcb, new_proc, interrupt_table, halt>>
  BY DEF receive_block, resign, Goto, portVars, procVars
<1>3. "RECEIVE_BLOCKED" \in States
  BY DEF States
<1>4. /\ rq' \in QueueRecord /\ SameRings(rq', remove_ready_queue(rq, p))
      /\ rq'.state = [rq.state EXCEPT ![p] = "RECEIVE_BLOCKED"]
  <2> DEFINE a == remove_ready_queue(rq, p)
  <2>1. a \in QueueRecord /\ a.state = rq.state
    BY <1>1, RemoveKeepsRings
  <2>2. rq' = [a EXCEPT !.state[p] = "RECEIVE_BLOCKED"]
    BY <1>2
  <2> HIDE DEF a
  <2>3. /\ rq' \in QueueRecord /\ SameRings(rq', a)
        /\ rq'.state = [rq.state EXCEPT ![p] = "RECEIVE_BLOCKED"]
    BY <1>1, <1>3, <2>1, <2>2 DEF QueueRecord, SameRings
  <2> QED  BY <2>3 DEF a
<1>5. /\ RingsHoldTheReady' /\ ActiveIsReady' /\ HighestStep
      /\ active_proc' \in Proc
      /\ \A x \in Proc \ Queued : rq'.next[x] = rq.next[x]
  BY <1>1, <1>2, <1>3, <1>4, CallerBlocks
<1>6. /\ rq'.state[p] = "RECEIVE_BLOCKED" /\ pc'[p] = "receive"
      /\ \A x \in Proc : x # p => rq'.state[x] = rq.state[x] /\ pc'[x] = pc[x]
      /\ pc' \in [Proc -> Labels]
  BY <1>1, <1>2, <1>4 DEF QueueRecord, GTypeOK, TypeOK, Labels, CallLabels
<1>7. UNCHANGED <<waits_on, clients>>
  BY <1>1, <1>2, <1>6, NothingReceived DEF SendStates, clientVars
<1>8. GTypeOK'
  <2>1. /\ param_data' \in [Proc -> Data \cup {NULL}]
        /\ received' \in [Proc -> (ProcOrNull \X (Data \cup {NULL})) \cup {NULL}]
    BY <1>1, <1>2 DEF GTypeOK, TypeOK
  <2> QED  BY <1>2, <1>4, <1>5, <1>6, <1>7, <2>1 DEF GTypeOK, TypeOK
<1>9. LabelsMatchStates'
  BY <1>1, <1>6, BootAndNull DEF LabelsMatchStates, StatesAt
<1>10. EmbryosHaveOneCreator'
  BY <1>1, <1>2, <1>6 DEF EmbryosHaveOneCreator, Creating
<1>11. PortsHaveOwners'
  BY <1>1, <1>2, <1>6 DEF PortsHaveOwners
<1>12. FreeListIsFree'
  BY <1>1, <1>2, <1>5, <1>6 DEF FreeListIsFree, Queued
<1>13. SendersKnowThePort' /\ BlockedListsAreQueues'
  <2>1. \A x \in Port : BlockedOn(x)' = BlockedOn(x)
    BY <1>1, <1>6, <1>7 DEF BlockedOn
  <2> QED  BY <1>1, <1>2, <1>6, <1>7, <2>1 DEF SendersKnowThePort,
              BlockedListsAreQueues, SendStates
<1>14. WaitersAreRegistered'
  <2>1. WaitersAreRegistered /\ interrupt_table' = interrupt_table
    BY <1>2
  <2>2. \A x \in Proc : /\ pc'[x] = "wait_for_interrupt" <=> pc[x] = "wait_for_interrupt"
                        /\ rq'.state[x] = "INTR_BLOCKED" => rq.state[x] = "INTR_BLOCKED"
    BY <1>1, <1>6
  <2> HIDE DEF IInv
  <2> QED  BY <2>1, <2>2 DEF WaitersAreRegistered
<1>15. NoLostWakeup'
  <2>1. ASSUME NEW po \in Port, port[po].owner = p, port[po].open
        PROVE  port[po].blocked_list_head = NULL
    <3>1. PICK k \in DOMAIN ports[p] : ports[p][k] = po
      BY <1>1, <2>1, NullNotProc DEF PortsHaveOwners
    <3> QED  BY <1>2, <2>1, <3>1 DEF Pending
  <2> QED  BY <1>2, <1>6, <2>1 DEF NoLostWakeup, Own
<1>16. EverySenderGetsAReply'
  <2>1. \A x, s \in Proc : InHand(x, s) => InHand(x, s)'
    BY <1>1, <1>2, <1>6 DEF InHand
  <2>2. /\ \A x \in Proc : rq'.state[x] = "REPLY_BLOCKED" <=>
                           rq.state[x] = "REPLY_BLOCKED"
        /\ \A x \in Proc : Own(x)' = Own(x)
        /\ EverySenderGetsAReply
    BY <1>1, <1>2, <1>6 DEF Own
  <2> HIDE DEF IInv
  <2> QED  BY <1>7, <2>1, <2>2 DEF EverySenderGetsAReply
<1> QED  BY <1>5, <1>8, <1>9, <1>10, <1>11, <1>12, <1>13, <1>14, <1>15, <1>16

LEMMA ReceiveInv ==
  ASSUME IInv, NEW p \in Programs, Receive(p)
  PROVE  IInv' /\ HighestStep
<1>1. receive(p) /\ At(p, "user")
  BY DEF Receive, receive
<1>2. CASE ports[p] = <<>>
  <2>1. Panic("receive(): no port created for this process") /\ received' = received
    BY <1>1, <1>2 DEF receive
  <2>2. Pending(p) = {}
    BY <1>2 DEF Pending
  <2>3. rq' = rq
    BY <2>1 DEF Panic, schedVars
  <2>4. UNCHANGED clientVars
    BY <2>2, <2>3, NothingReceived
  <2> QED  BY <2>1, <2>4, PanicInv DEF Halts
<1>3. CASE ports[p] # <<>>
  <2>1. /\ receive_pending(p) \/ receive_block(p)
        /\ UNCHANGED <<portVars, procVars, interrupt_table, halt>>
    BY <1>1, <1>3 DEF receive
  <2> QED  BY <1>1, <1>3, <2>1, ReceivePendingInv, ReceiveBlockInv
<1> QED  BY <1>2, <1>3

LEMMA ReceiveReturnInv ==
  ASSUME IInv, NEW p \in Programs, ReceiveReturn(p)
  PROVE  IInv' /\ HighestStep
<1> USE DEF IInv
<1>1. /\ active_proc = p /\ pc[p] = "receive" /\ p \in Proc
      /\ rq.state[p] = "READY" /\ p # NullProcess
  BY CallerIsReady DEF Labels, CallLabels, ReceiveReturn, receive_return
<1>2. /\ received' = [received EXCEPT ![p] = <<param_proc[p], param_data[p]>>]
      /\ pc' = [pc EXCEPT ![p] = "user"]
      /\ clients' = [clients EXCEPT ![p] = @ \cup NewClient(p)]
      /\ UNCHANGED <<rq, active_proc, param_proc, param_data, next_blocked, port,
                     ports, next_free_port, next_free_pcb, new_proc,
                     interrupt_table, halt, waits_on>>
  BY DEF ReceiveReturn, receive_return, Goto, schedVars, ipcVars, portVars, procVars
<1>3. /\ pc' \in [Proc -> Labels] /\ pc'[p] = "user"
      /\ \A x \in Proc : x # p => pc'[x] = pc[x]
  BY <1>1, <1>2 DEF GTypeOK, TypeOK, Labels
<1>4. Queued' = Queued
  BY <1>1, <1>2, <1>3 DEF Queued
<1>5. clients \in [Proc -> SUBSET Proc] /\ NewClient(p) \in SUBSET Proc
  BY DEF GTypeOK, NewClient
<1>6. /\ received' \in [Proc -> (ProcOrNull \X (Data \cup {NULL})) \cup {NULL}]
      /\ received'[p][1] = param_proc[p]
  BY <1>1, <1>2 DEF GTypeOK, TypeOK
<1>7. GTypeOK'
  BY <1>2, <1>3, <1>5, <1>6 DEF GTypeOK, TypeOK
<1>8. RingsHoldTheReady' /\ ActiveIsReady' /\ HighestStep
  BY <1>1, <1>2, <1>3, <1>4 DEF RingsHoldTheReady, ActiveIsReady, HighestStep, QueuedAt
<1>9. LabelsMatchStates'
  BY <1>1, <1>2, <1>3, BootAndNull DEF LabelsMatchStates, StatesAt
<1>10. EmbryosHaveOneCreator' /\ PortsHaveOwners'
  BY <1>1, <1>2, <1>3 DEF EmbryosHaveOneCreator, Creating, PortsHaveOwners
<1>11. FreeListIsFree'
  BY <1>1, <1>2, <1>3 DEF FreeListIsFree
<1>12. WaitersAreRegistered'
  <2>1. /\ \A x \in Proc : pc'[x] = "wait_for_interrupt" <=> pc[x] = "wait_for_interrupt"
        /\ WaitersAreRegistered /\ UNCHANGED <<interrupt_table, rq>>
    BY <1>1, <1>2, <1>3
  <2> HIDE DEF IInv
  <2> QED  BY <2>1 DEF WaitersAreRegistered
<1>13. EverySenderGetsAReply'
  <2>1. \A x, s \in Proc : InHand(x, s) =>
          InHand(x, s)' \/ (x = p /\ s = param_proc[p])
    BY <1>1, <1>2, <1>3 DEF InHand
  <2>2. Own(p)' = Own(p) /\ \A x \in Proc : Own(x)' = Own(x)
    BY <1>2 DEF Own
  <2>3. EverySenderGetsAReply /\ rq' = rq /\ waits_on' = waits_on
    BY <1>2
  <2>4. \A x \in Proc : clients'[x] = clients[x] \/ x = p
    BY <1>2, <1>5
  <2>5. clients'[p] = clients[p] \cup NewClient(p)
    BY <1>1, <1>2, <1>5
  <2>6. NewClient(p) = {s \in Proc : /\ s = param_proc[p]
                                     /\ rq.state[s] = "REPLY_BLOCKED"
                                     /\ waits_on[s] \in Own(p)}
    BY <1>2, <1>6 DEF NewClient
  <2> HIDE DEF IInv
  <2>7. ASSUME NEW s \in Proc, rq.state[s] = "REPLY_BLOCKED"
        PROVE  \E r \in Proc : /\ waits_on[s] \in Own(r)
                               /\ s \in clients'[r] \/ InHand(r, s)'
    <3>1. PICK r \in Proc : /\ waits_on[s] \in Own(r)
                            /\ s \in clients[r] \/ InHand(r, s)
      BY <2>3, <2>7 DEF EverySenderGetsAReply
    <3>2. CASE s \in clients[r] \/ InHand(r, s)'
      BY <2>4, <2>5, <3>1, <3>2
    <3>3. CASE r = p /\ s = param_proc[p]
      <4>1. s \in NewClient(p)
        BY <2>6, <2>7, <3>1, <3>3
      <4> QED  BY <2>5, <3>1, <3>3, <4>1
    <3> QED  BY <2>1, <3>1, <3>2, <3>3
  <2>8. ASSUME NEW s \in Proc, NEW r \in Proc, s \in clients'[r]
        PROVE  rq.state[s] = "REPLY_BLOCKED" /\ waits_on[s] \in Own(r)
    <3>1. CASE s \in clients[r]
      BY <2>3, <3>1 DEF EverySenderGetsAReply
    <3>2. CASE s \notin clients[r]
      <4>1. r = p
        BY <2>4, <2>8, <3>2
      <4>2. s \in NewClient(p)
        BY <2>5, <2>8, <3>2, <4>1
      <4> QED  BY <2>6, <4>1, <4>2
    <3> QED  BY <3>1, <3>2
  <2> QED  BY <2>2, <2>3, <2>7, <2>8 DEF EverySenderGetsAReply
<1>14. SendersKnowThePort' /\ BlockedListsAreQueues' /\ NoLostWakeup'
  <2>1. \A x \in Port : BlockedOn(x)' = BlockedOn(x)
    BY <1>2 DEF BlockedOn
  <2> QED  BY <1>2, <2>1 DEF SendersKnowThePort, BlockedListsAreQueues, NoLostWakeup, Own
<1> QED  BY <1>7, <1>8, <1>9, <1>10, <1>11, <1>12, <1>13, <1>14

-----------------------------------------------------------------------------
(* Replying *)

LEMMA ReplyInv ==
  ASSUME IInv, NEW p \in Programs, Reply(p)
  PROVE  IInv' /\ HighestStep
<1> USE DEF IInv
<1>1. PICK s \in Proc :
        /\ s \in clients[p] \/ rq.state[s] # "REPLY_BLOCKED"
        /\ reply(p, s)
        /\ IF s \in clients[p]
           THEN /\ clients' = [clients EXCEPT ![p] = @ \ {s}]
                /\ waits_on' = [waits_on EXCEPT ![s] = NULL]
           ELSE UNCHANGED clientVars
        /\ NoResult
  BY DEF Reply
<1>2. s \in clients[p] => rq.state[s] = "REPLY_BLOCKED" /\ waits_on[s] \in Own(p)
  BY DEF EverySenderGetsAReply, Programs
<1>3. CASE rq.state[s] # "REPLY_BLOCKED"
  <2>1. Panic("reply(): Not reply blocked") /\ UNCHANGED clientVars
    BY <1>1, <1>2, <1>3 DEF reply
  <2> QED  BY <1>1, <2>1, PanicInv DEF Halts
<1>4. CASE rq.state[s] = "REPLY_BLOCKED"
  <2>1. /\ active_proc = p /\ p \in Proc /\ p \in Queued
        /\ p # NullProcess /\ rq.state[p] = "READY"
        /\ rq \in QueueRecord /\ RingsHold(rq, Queued) /\ Queued \in SUBSET Proc
    <3>1. At(p, "user") /\ "user" \in Labels
      BY <1>1 DEF reply, Labels
    <3> QED  BY <3>1, CallerIsReady
  <2>2. pc[s] = "user" /\ s \notin Queued /\ s # p /\ s # NullProcess
    BY <1>4, <2>1 DEF LabelsMatchStates, StatesAt, Queued, GTypeOK, TypeOK, Labels,
       CallLabels
  <2>3. /\ rq' = add_ready_queue(rq, s)
        /\ active_proc' = dispatcher(rq', active_proc)
        /\ UNCHANGED <<param_proc, param_data, next_blocked, port, ports,
                       next_free_port, next_free_pcb, new_proc, interrupt_table,
                       halt, pc>>
        /\ clients' = [clients EXCEPT ![p] = @ \ {s}]
        /\ waits_on' = [waits_on EXCEPT ![s] = NULL]
    BY <1>1, <1>4 DEF reply, resign, ipcVars, portVars, procVars
  <2>4. rq'.state = [rq.state EXCEPT ![s] = "READY"]
    BY <2>1, <2>2, <2>3, AddKeepsRings
  <2>5. /\ rq'.state[s] = "READY"
        /\ \A x \in Proc : x # s => rq'.state[x] = rq.state[x]
    BY <2>1, <2>4 DEF QueueRecord
  <2>6. Queued' = Queued \cup {s}
    BY <2>2, <2>3, <2>5 DEF Queued
  <2>7. /\ rq' \in QueueRecord
        /\ RingsHoldTheReady' /\ ActiveIsReady' /\ HighestStep
        /\ active_proc' \in Proc
        /\ \A x \in Proc \ Queued : x # s => rq'.next[x] = rq.next[x]
    BY <2>1, <2>2, <2>3, <2>6, MadeReady
  <2>8. /\ waits_on \in [Proc -> Port \cup {NULL}] /\ clients \in [Proc -> SUBSET Proc]
        /\ \A x \in Proc : x # s => waits_on'[x] = waits_on[x]
        /\ waits_on'[s] = NULL
        /\ clients'[p] = clients[p] \ {s}
        /\ \A x \in Proc : x # p => clients'[x] = clients[x]
    BY <2>1, <2>3 DEF GTypeOK
  <2>9. GTypeOK'
    <3>1. waits_on' \in [Proc -> Port \cup {NULL}] /\ clients' \in [Proc -> SUBSET Proc]
      BY <2>3, <2>8
    <3> QED  BY <1>1, <2>3, <2>7, <3>1 DEF GTypeOK, TypeOK, NoResult
  <2>10. LabelsMatchStates' /\ FreeListIsFree'
    <3>1. LabelsMatchStates'
      BY <2>2, <2>3, <2>5, BootAndNull DEF LabelsMatchStates, StatesAt
    <3>2. FreeListIsFree'
      BY <2>2, <2>3, <2>7 DEF FreeListIsFree, Queued
    <3> QED  BY <3>1, <3>2
  <2>11. EmbryosHaveOneCreator' /\ PortsHaveOwners' /\ SendersKnowThePort'
    BY <2>3, <2>8 DEF EmbryosHaveOneCreator, Creating, PortsHaveOwners,
       SendersKnowThePort
  <2>12. BlockedListsAreQueues'
    <3>1. \A x \in Port : BlockedOn(x)' = BlockedOn(x)
      BY <1>4, <2>5, <2>8 DEF BlockedOn
    <3>2. \A x \in Proc : rq'.state[x] \in SendStates <=> waits_on'[x] # NULL
      BY <2>5, <2>8 DEF BlockedListsAreQueues, SendStates
    <3> QED  BY <2>3, <3>1, <3>2 DEF BlockedListsAreQueues
  <2>13. WaitersAreRegistered' /\ NoLostWakeup'
    BY <2>3, <2>5 DEF WaitersAreRegistered, NoLostWakeup, Own
  <2>14. EverySenderGetsAReply'
    <3>1. \A x, y \in Proc : InHand(x, y) => InHand(x, y)'
      BY <2>2, <2>3, <2>5 DEF InHand
    <3>2. /\ \A x \in Proc : Own(x)' = Own(x)
          /\ \A x \in Proc : waits_on[s] \in Own(x) => x = p
          /\ EverySenderGetsAReply
      BY <1>1, <1>2, <1>4, <2>3 DEF Own
    <3> HIDE DEF IInv
    <3>3. ASSUME NEW y \in Proc, rq'.state[y] = "REPLY_BLOCKED"
          PROVE  \E r \in Proc : /\ waits_on'[y] \in Own(r)'
                                 /\ y \in clients'[r] \/ InHand(r, y)'
      <4>1. y # s /\ rq.state[y] = "REPLY_BLOCKED"
        BY <2>5, <3>3
      <4>2. PICK r \in Proc : /\ waits_on[y] \in Own(r)
                              /\ y \in clients[r] \/ InHand(r, y)
        BY <3>2, <3>3, <4>1 DEF EverySenderGetsAReply
      <4>3. y \in clients[r] => y \in clients'[r]
        BY <2>8, <4>1
      <4> QED  BY <2>8, <3>1, <3>2, <3>3, <4>1, <4>2, <4>3
    <3>4. ASSUME NEW y \in Proc, NEW r \in Proc, y \in clients'[r]
          PROVE  rq'.state[y] = "REPLY_BLOCKED" /\ waits_on'[y] \in Own(r)'
      <4>1. y \in clients[r]
        BY <2>8, <3>4
      <4>2. rq.state[y] = "REPLY_BLOCKED" /\ waits_on[y] \in Own(r)
        BY <3>2, <4>1 DEF EverySenderGetsAReply
      <4>3. y # s
        BY <2>1, <2>8, <3>2, <3>4, <4>2
      <4> QED  BY <2>5, <2>8, <3>2, <4>2, <4>3
    <3> QED  BY <3>3, <3>4 DEF EverySenderGetsAReply
  <2> QED  BY <2>7, <2>9, <2>10, <2>11, <2>12, <2>13, <2>14
<1> QED  BY <1>3, <1>4

-----------------------------------------------------------------------------
(* Ports *)

LEMMA SetOpenInv ==
  ASSUME IInv, NEW p \in Programs, NEW po \in Own(p), NEW b \in BOOLEAN,
         At(p, "user"), port' = [port EXCEPT ![po].open = b],
         UNCHANGED <<schedVars, param_proc, param_data, next_blocked, portVars,
                     procVars, interrupt_table, halt, pc>>,
         Unchanged
  PROVE  IInv' /\ HighestStep
<1> USE DEF IInv
<1>1. active_proc = p /\ p \in Proc /\ rq.state[p] = "READY"
  BY CallerIsReady DEF Labels
<1>2. po \in Port /\ port[po].owner = p
  BY DEF Own
<1>3. UNCHANGED <<rq, active_proc, param_proc, param_data, next_blocked, ports,
                  next_free_port, next_free_pcb, new_proc, halt,
                  interrupt_table, pc, waits_on, clients>>
  BY DEF schedVars, portVars, procVars, Unchanged, clientVars
<1>4. /\ port' \in [Port -> [open : BOOLEAN, owner : ProcOrNull,
                             blocked_list_head : ProcOrNull,
                             blocked_list_tail : ProcOrNull]]
      /\ \A x \in Port : /\ port'[x].owner = port[x].owner
                         /\ port'[x].blocked_list_head = port[x].blocked_list_head
                         /\ port'[x].blocked_list_tail = port[x].blocked_list_tail
                         /\ x # po => port'[x].open = port[x].open
  BY <1>2 DEF GTypeOK, TypeOK
<1>5. Queued' = Queued
  BY <1>3 DEF Queued
<1>6. GTypeOK'
  BY <1>3, <1>4 DEF GTypeOK, TypeOK, NoResult, Unchanged
<1>7. RingsHoldTheReady' /\ ActiveIsReady' /\ HighestStep
  BY <1>3, <1>5 DEF RingsHoldTheReady, ActiveIsReady, HighestStep, QueuedAt
<1>8. LabelsMatchStates' /\ FreeListIsFree' /\ EmbryosHaveOneCreator'
  BY <1>3 DEF LabelsMatchStates, FreeListIsFree, EmbryosHaveOneCreator, Creating
<1>9. PortsHaveOwners' /\ SendersKnowThePort'
  <2>1. /\ PortsHaveOwners /\ SendersKnowThePort
        /\ \A x \in Proc : \A k \in DOMAIN ports[x] : ports[x][k] \in Port
        /\ \A x \in Proc : waits_on[x] \in Port \cup {NULL}
    BY DEF GTypeOK, TypeOK
  <2> HIDE DEF IInv
  <2> QED  BY <1>3, <1>4, <2>1 DEF PortsHaveOwners, SendersKnowThePort
<1>10. BlockedListsAreQueues' /\ WaitersAreRegistered'
  <2>1. \A x \in Port : BlockedOn(x)' = BlockedOn(x)
    BY <1>3 DEF BlockedOn
  <2> QED  BY <1>3, <1>4, <2>1 DEF BlockedListsAreQueues, WaitersAreRegistered
<1>11. NoLostWakeup'
  BY <1>1, <1>2, <1>3, <1>4 DEF NoLostWakeup, Own
<1>12. EverySenderGetsAReply'
  <2>1. \A x, s \in Proc : InHand(x, s)' <=> InHand(x, s)
    BY <1>3 DEF InHand
  <2>2. \A x \in Proc : Own(x)' = Own(x)
    BY <1>4 DEF Own
  <2> QED  BY <1>3, <2>1, <2>2 DEF EverySenderGetsAReply
<1> QED  BY <1>6, <1>7, <1>8, <1>9, <1>10, <1>11, <1>12

LEMMA OpenCloseInv ==
  ASSUME IInv, NEW p \in Programs, OpenPort(p) \/ ClosePort(p)
  PROVE  IInv' /\ HighestStep
<1>1. PICK po \in Own(p), b \in BOOLEAN :
        /\ At(p, "user") /\ port' = [port EXCEPT ![po].open = b]
        /\ UNCHANGED <<schedVars, param_proc, param_data, next_blocked, portVars,
                     procVars, interrupt_table, halt, pc>>
        /\ Unchanged
  BY DEF OpenPort, ClosePort, open_port, close_port
<1> QED  BY <1>1, SetOpenInv

(* A new port: nobody waits on it, it has no list. *)
LEMMA NewPort ==
  ASSUME IInv, NEW o \in Proc, pc[o] # "free", create_new_port(o),
         \A x \in Proc : /\ pc'[x] = "free" <=> pc[x] = "free"
                         /\ pc'[x] = "receive" <=> pc[x] = "receive",
         UNCHANGED <<rq, param_proc, next_blocked, waits_on, clients>>
  PROVE  /\ ports' \in [Proc -> Seq(Port)] /\ next_free_port' \in 0 .. MAX_PORTS
         /\ port' \in [Port -> [open : BOOLEAN, owner : ProcOrNull,
                                blocked_list_head : ProcOrNull,
                                blocked_list_tail : ProcOrNull]]
         /\ PortsHaveOwners' /\ SendersKnowThePort' /\ BlockedListsAreQueues'
         /\ NoLostWakeup' /\ EverySenderGetsAReply'
<1> USE DEF IInv
<1> DEFINE n == next_free_port
<1>1. /\ n \in Port /\ next_free_port' = n + 1
      /\ port' = [port EXCEPT ![n] =
                    [open |-> TRUE, owner |-> o,
                     blocked_list_head |-> NULL, blocked_list_tail |-> NULL]]
      /\ ports' = [ports EXCEPT ![o] = <<n>> \o @]
  BY PortsAssumption DEF create_new_port, GTypeOK, TypeOK, Port
<1>2. next_free_port' \in 0 .. MAX_PORTS /\ ports \in [Proc -> Seq(Port)]
  BY <1>1, PortsAssumption DEF GTypeOK, TypeOK, Port
<1>3. /\ port' \in [Port -> [open : BOOLEAN, owner : ProcOrNull,
                                blocked_list_head : ProcOrNull,
                                blocked_list_tail : ProcOrNull]]
      /\ \A x \in Port : x # n => port'[x] = port[x]
      /\ port'[n].owner = o /\ port'[n].blocked_list_head = NULL
      /\ port'[n].blocked_list_tail = NULL
      /\ port[n].owner = NULL
  <2>1. port \in [Port -> [open : BOOLEAN, owner : ProcOrNull,
                                blocked_list_head : ProcOrNull,
                                blocked_list_tail : ProcOrNull]]
    BY DEF GTypeOK, TypeOK
  <2>2. port[n].owner = NULL
    BY <1>1 DEF PortsHaveOwners, Port
  <2> HIDE DEF IInv
  <2> QED  BY <1>1, <2>1, <2>2 DEF ProcOrNull
<1>4. n # NULL /\ NULL \notin Port /\ NULL \notin Proc
  BY <1>1, NullAssumption, NullNotProc DEF Port
<1>5. \A x \in Proc : /\ waits_on[x] \in Port \cup {NULL} /\ waits_on[x] # n
                      /\ Own(x) \subseteq Own(x)'
  <2>1. \A x \in Proc : waits_on[x] \in Port \cup {NULL} /\ waits_on[x] # n
    BY <1>3, <1>4 DEF SendersKnowThePort, Programs, GTypeOK
  <2>2. \A x \in Proc : Own(x) \subseteq Own(x)'
    BY <1>3, <1>4 DEF Own
  <2> QED  BY <2>1, <2>2
<1>6. ports' \in [Proc -> Seq(Port)]
  BY <1>1, <1>2
<1>7. PortsHaveOwners'
  <2>1. PortsHaveOwners
    OBVIOUS
  <2>2. n \in Int /\ n + 1 \in Int
    BY <1>1 DEF Port
  <2>3. /\ Len(<<n>> \o ports[o]) = Len(ports[o]) + 1
        /\ (<<n>> \o ports[o])[1] = n
        /\ \A k \in 1 .. Len(ports[o]) : (<<n>> \o ports[o])[k + 1] = ports[o][k]
        /\ \A k \in 1 .. Len(ports[o]) + 1 :
             k = 1 \/ (k - 1 \in 1 .. Len(ports[o])
                       /\ (<<n>> \o ports[o])[k] = ports[o][k - 1])
        /\ Len(ports[o]) \in Nat
    BY <1>1, <1>2
  <2>4. ports'[o] = <<n>> \o ports[o] /\ \A x \in Proc : x # o => ports'[x] = ports[x]
    BY <1>1, <1>2
  <2>5. /\ DOMAIN ports'[o] = 1 .. Len(ports[o]) + 1
        /\ DOMAIN ports[o] = 1 .. Len(ports[o])
        /\ ports'[o][1] = n
        /\ \A k \in 1 .. Len(ports[o]) : ports'[o][k + 1] = ports[o][k]
        /\ \A k \in 1 .. Len(ports[o]) + 1 :
             k = 1 \/ (k - 1 \in 1 .. Len(ports[o])
                       /\ ports'[o][k] = ports[o][k - 1])
    BY <1>1, <1>2, <2>3, <2>4
  <2>6. \A x \in Proc : \A k \in DOMAIN ports[x] : ports[x][k] \in Port /\ ports[x][k] # n
    BY <1>2, <1>3, <1>4, <2>1 DEF PortsHaveOwners
  <2> HIDE DEF IInv, n
  <2>7. ASSUME NEW x \in Port
        PROVE  /\ x < next_free_port' <=> port'[x].owner # NULL
               /\ port'[x].owner # NULL => pc'[port'[x].owner] # "free"
    <3>1. CASE x = n
      BY <1>1, <1>3, <1>4, <2>2, <3>1
    <3>2. CASE x # n
      <4>1. x < n + 1 <=> x < n
        BY <2>2, <3>2 DEF Port
      <4>2. port[x].owner \in ProcOrNull
        BY <1>3, <2>7, <3>2
      <4> QED  BY <1>1, <1>3, <2>1, <3>2, <4>1, <4>2 DEF PortsHaveOwners, ProcOrNull, n
    <3> QED  BY <3>1, <3>2
  <2>8. ASSUME NEW x \in Proc, NEW k \in DOMAIN ports'[x]
        PROVE  port'[ports'[x][k]].owner = x
    <3>1. CASE x = o
      <4>1. CASE k = 1
        BY <1>3, <2>5, <3>1, <4>1
      <4>2. CASE k # 1
        <5>1. k - 1 \in DOMAIN ports[o] /\ ports'[o][k] = ports[o][k - 1]
          BY <2>5, <2>8, <3>1, <4>2
        <5>2. port[ports[o][k - 1]].owner = o
          BY <2>1, <5>1 DEF PortsHaveOwners
        <5> QED  BY <1>3, <2>6, <3>1, <5>1, <5>2
      <4> QED  BY <4>1, <4>2
    <3>2. CASE x # o
      <4>1. ports'[x] = ports[x] /\ k \in DOMAIN ports[x]
        BY <2>4, <2>8, <3>2
      <4>2. port[ports[x][k]].owner = x
        BY <2>1, <2>8, <4>1 DEF PortsHaveOwners
      <4> QED  BY <1>3, <2>6, <2>8, <4>1, <4>2
    <3> QED  BY <3>1, <3>2
  <2>9. ASSUME NEW x \in Port, port'[x].owner # NULL
        PROVE  \E k \in DOMAIN ports'[port'[x].owner] : ports'[port'[x].owner][k] = x
    <3>1. CASE x = n
      <4>1. 1 \in DOMAIN ports'[o]
        BY <2>3, <2>5
      <4> QED  BY <1>3, <2>5, <3>1, <4>1
    <3>2. CASE x # n
      <4>1. PICK k \in DOMAIN ports[port[x].owner] : ports[port[x].owner][k] = x
        BY <1>3, <2>1, <2>9, <3>2 DEF PortsHaveOwners
      <4>2. CASE port[x].owner = o
        <5>1. k + 1 \in DOMAIN ports'[o] /\ ports'[o][k + 1] = x
          BY <2>3, <2>5, <4>1, <4>2
        <5>2. port'[x].owner = o
          BY <1>3, <2>9, <3>2, <4>2
        <5> QED  BY <5>1, <5>2
      <4>3. CASE port[x].owner # o
        <5>1. port[x].owner \in Proc
          BY <1>3, <2>9, <3>2 DEF ProcOrNull
        <5>2. port'[x].owner = port[x].owner
          BY <1>3, <2>9, <3>2
        <5>3. ports'[port[x].owner] = ports[port[x].owner]
          BY <2>4, <4>3, <5>1
        <5> QED  BY <4>1, <5>2, <5>3
      <4> QED  BY <4>2, <4>3
    <3> QED  BY <3>1, <3>2
  <2> QED  BY <2>7, <2>8, <2>9 DEF PortsHaveOwners
<1>8. SendersKnowThePort'
  BY <1>3, <1>5 DEF SendersKnowThePort
<1>9. BlockedListsAreQueues'
  <2>1. \A x \in Port : BlockedOn(x)' = BlockedOn(x)
    BY DEF BlockedOn
  <2>2. BlockedOn(n) = {}
    BY <1>5 DEF BlockedOn
  <2>3. BlockedListsAreQueues
    OBVIOUS
  <2> HIDE DEF IInv, n
  <2>4. ASSUME NEW x \in Port
        PROVE  ListHolds(next_blocked', port'[x].blocked_list_head,
                         port'[x].blocked_list_tail, BlockedOn(x)')
    <3>1. CASE x = n
      BY <1>3, <2>1, <2>2, <3>1 DEF ListHolds
    <3>2. CASE x # n
      BY <1>3, <2>1, <2>3, <3>2 DEF BlockedListsAreQueues
    <3> QED  BY <3>1, <3>2
  <2> QED  BY <2>3, <2>4 DEF BlockedListsAreQueues
<1>10. NoLostWakeup'
  BY <1>3 DEF NoLostWakeup, Own
<1>11. EverySenderGetsAReply'
  <2>1. \A x, s \in Proc : InHand(x, s)' <=> InHand(x, s)
    BY DEF InHand
  <2>2. EverySenderGetsAReply
    OBVIOUS
  <2> HIDE DEF IInv
  <2>3. ASSUME NEW s \in Proc, rq.state[s] = "REPLY_BLOCKED"
        PROVE  \E r \in Proc : /\ waits_on[s] \in Own(r)'
                               /\ s \in clients[r] \/ InHand(r, s)'
    BY <1>5, <2>1, <2>2, <2>3 DEF EverySenderGetsAReply
  <2> QED  BY <1>5, <2>2, <2>3 DEF EverySenderGetsAReply
<1> QED  BY <1>2, <1>3, <1>6, <1>7, <1>8, <1>9, <1>10, <1>11

LEMMA CreatePortInv ==
  ASSUME IInv, NEW p \in Programs, CreatePort(p)
  PROVE  IInv' /\ HighestStep
<1> USE DEF IInv
<1>1. At(p, "user") /\ "user" \in Labels /\ Unchanged
  BY DEF CreatePort, create_port, Labels
<1>2. active_proc = p /\ p \in Proc /\ pc[p] = "user"
  BY <1>1, CallerIsReady
<1>3. CASE PortFull
  BY <1>1, <1>3, PanicInv DEF PortFull, Unchanged, Halts
<1>4. CASE ~PortFull
  <2>1. /\ create_new_port(p)
        /\ UNCHANGED <<rq, active_proc, param_proc, param_data, next_blocked,
                       next_free_pcb, new_proc, interrupt_table, halt, pc,
                       waits_on, clients>>
    BY <1>1, <1>4 DEF CreatePort, create_port, schedVars, procVars, Unchanged, clientVars
  <2>2. /\ ports' \in [Proc -> Seq(Port)] /\ next_free_port' \in 0 .. MAX_PORTS
        /\ port' \in [Port -> [open : BOOLEAN, owner : ProcOrNull,
                               blocked_list_head : ProcOrNull,
                               blocked_list_tail : ProcOrNull]]
        /\ PortsHaveOwners' /\ SendersKnowThePort' /\ BlockedListsAreQueues'
        /\ NoLostWakeup' /\ EverySenderGetsAReply'
    BY <1>2, <2>1, NewPort
  <2>3. Queued' = Queued
    BY <2>1 DEF Queued
  <2>4. GTypeOK'
    BY <1>1, <2>1, <2>2 DEF GTypeOK, TypeOK, Unchanged, NoResult
  <2>5. RingsHoldTheReady' /\ ActiveIsReady' /\ HighestStep
    BY <2>1, <2>3 DEF RingsHoldTheReady, ActiveIsReady, HighestStep, QueuedAt
  <2>6. LabelsMatchStates' /\ FreeListIsFree' /\ EmbryosHaveOneCreator'
    BY <2>1 DEF LabelsMatchStates, FreeListIsFree, EmbryosHaveOneCreator, Creating
  <2>7. WaitersAreRegistered'
    BY <2>1 DEF WaitersAreRegistered
  <2> QED  BY <2>2, <2>4, <2>5, <2>6, <2>7
<1> QED  BY <1>3, <1>4

-----------------------------------------------------------------------------
(* Creating a process *)

LEMMA CreateProcessInv ==
  ASSUME IInv, NEW p \in Programs, CreateProcess(p)
  PROVE  IInv' /\ HighestStep
<1> USE DEF IInv
<1>1. At(p, "user") /\ "user" \in Labels /\ Unchanged
  BY DEF CreateProcess, create_process, Labels
<1>2. /\ active_proc = p /\ p \in Proc /\ pc[p] = "user" /\ p \in Queued
      /\ rq \in QueueRecord /\ p # NullProcess /\ rq.state[p] = "READY"
  BY <1>1, CallerIsReady
<1>3. PICK prio \in Priorities : create_process(p, prio)
  BY DEF CreateProcess
<1>4. CASE Panic("create(): Bad priority") \/ Panic("create(): PCB full")
  BY <1>1, <1>4, PanicInv DEF Unchanged, Halts
<1>5. CASE ~(Panic("create(): Bad priority") \/ Panic("create(): PCB full"))
  <2>1. PICK n : n = next_free_pcb
    OBVIOUS
  <2>2. /\ prio < MAX_READY_QUEUES /\ n # NULL
        /\ next_free_pcb' = rq.next[n]
        /\ rq' = [rq EXCEPT !.state[n] = "READY", !.priority[n] = prio]
        /\ ports' = [ports EXCEPT ![n] = <<>>]
        /\ new_proc' = [new_proc EXCEPT ![p] = n]
        /\ pc' = [pc EXCEPT ![p] = "create_port", ![n] = "embryo"]
        /\ UNCHANGED <<active_proc, param_proc, param_data, next_blocked, port,
                       next_free_port, interrupt_table, halt, waits_on, clients>>
    BY <1>1, <1>3, <1>5, <2>1 DEF create_process, ipcVars, Unchanged, clientVars
  <2>3. /\ n \in Proc /\ pc[n] = "free" /\ n # p /\ n # NullProcess
        /\ rq.state[n] = "READY" /\ n \notin Queued
    <3>1. n \in Proc
      BY <2>1, <2>2 DEF GTypeOK, TypeOK, ProcOrNull
    <3>2. pc[n] = "free"
      BY <2>1, <2>2, <3>1 DEF FreeListIsFree, Proc
    <3> QED  BY <1>2, <3>1, <3>2 DEF LabelsMatchStates, StatesAt, Queued
  <2>4. prio \in Priority
    BY <2>2, ProgramsAssumption, SizesAssumption DEF Priority
  <2>5. /\ rq' \in QueueRecord /\ rq'.state = rq.state
        /\ rq'.next = rq.next /\ rq'.prev = rq.prev
        /\ rq'.ready_queue = rq.ready_queue /\ rq'.ready_procs = rq.ready_procs
        /\ rq'.priority = [rq.priority EXCEPT ![n] = prio]
    <3>1. rq.state \in [Proc -> States] /\ rq.priority \in [Proc -> Priority]
      BY <1>2 DEF QueueRecord
    <3>2. [rq.state EXCEPT ![n] = "READY"] = rq.state
      BY <2>3, <3>1
    <3>3. /\ rq'.state = [rq.state EXCEPT ![n] = "READY"]
          /\ rq'.next = rq.next /\ rq'.prev = rq.prev
          /\ rq'.ready_queue = rq.ready_queue /\ rq'.ready_procs = rq.ready_procs
          /\ rq'.priority = [rq.priority EXCEPT ![n] = prio]
      BY <1>2, <2>2 DEF QueueRecord
    <3>4. rq' \in QueueRecord
      BY <1>2, <2>2, <2>3, <2>4 DEF QueueRecord, States
    <3> QED  BY <3>2, <3>3, <3>4
  <2>6. /\ pc' \in [Proc -> Labels] /\ pc'[p] = "create_port" /\ pc'[n] = "embryo"
        /\ \A x \in Proc : x # p /\ x # n => pc'[x] = pc[x]
    BY <1>2, <2>2, <2>3 DEF GTypeOK, TypeOK, Labels
  <2>7. Queued' = Queued
    BY <1>2, <2>3, <2>5, <2>6 DEF Queued
  <2>8. GTypeOK'
    <3>1. /\ next_free_pcb' \in ProcOrNull /\ ports' \in [Proc -> Seq(Port)]
          /\ new_proc' \in [Proc -> ProcOrNull]
      BY <1>2, <2>2, <2>3 DEF GTypeOK, TypeOK, QueueRecord, ProcOrNull
    <3> QED  BY <1>1, <2>2, <2>5, <2>6, <3>1 DEF GTypeOK, TypeOK, Unchanged, NoResult
  <2>9. RingsHoldTheReady'
    <3>1. \A x \in Queued : rq'.priority[x] = rq.priority[x]
      BY <1>2, <2>3, <2>5 DEF Queued, QueueRecord
    <3>2. \A i \in Priority : QueuedAt(i)' = QueuedAt(i)
      BY <2>7, <3>1 DEF QueuedAt
    <3>3. ASSUME NEW i \in Priority PROVE RingHolds(rq', i, QueuedAt(i))
      <4>1. RingHolds(rq, i, QueuedAt(i))
        BY <3>3 DEF RingsHoldTheReady
      <4> QED  BY <2>5, <4>1, RingUnchanged
    <3> QED  BY <3>2, <3>3 DEF RingsHoldTheReady
  <2>10. ActiveIsReady' /\ HighestStep
    BY <1>2, <2>2, <2>7 DEF ActiveIsReady, HighestStep
  <2>11. LabelsMatchStates'
    BY <1>2, <2>3, <2>5, <2>6, BootAndNull DEF LabelsMatchStates, StatesAt
  <2>12. FreeListIsFree'
    <3>1. /\ \A x \in Proc : pc[x] = "free" <=> x >= n
          /\ \A x \in Proc : pc[x] = "free" =>
               rq.next[x] = IF x = MAX_PROCS - 1 THEN NULL ELSE x + 1
      BY <2>1, <2>2 DEF FreeListIsFree
    <3>2. \A x \in Proc : pc'[x] = "free" <=> x >= n /\ x # n
      BY <1>2, <2>6, <3>1
    <3>3. \A x \in Proc : pc'[x] = "free" =>
               rq'.next[x] = IF x = MAX_PROCS - 1 THEN NULL ELSE x + 1
      BY <2>5, <3>1, <3>2
    <3>4. next_free_pcb' = IF n = MAX_PROCS - 1 THEN NULL ELSE n + 1
      BY <2>2, <2>3, <3>1
    <3>5. IF next_free_pcb' = NULL THEN \A x \in Proc : pc'[x] # "free"
          ELSE \A x \in Proc : pc'[x] = "free" <=> x >= next_free_pcb'
      <4> HIDE DEF IInv
      <4>1. CASE n = MAX_PROCS - 1
        BY <2>3, <3>2, <3>4, <4>1, SizesAssumption DEF Proc
      <4>2. CASE n # MAX_PROCS - 1
        <5>1. next_free_pcb' = n + 1 /\ n + 1 # NULL
          BY <2>3, <3>4, <4>2, NullAssumption DEF Proc
        <5>2. \A x \in Proc : x >= n /\ x # n <=> x >= n + 1
          BY <2>3 DEF Proc
        <5> QED  BY <3>2, <5>1, <5>2
      <4> QED  BY <4>1, <4>2
    <3> QED  BY <3>3, <3>5 DEF FreeListIsFree
  <2>13. EmbryosHaveOneCreator'
    <3>1. /\ new_proc'[p] = n
          /\ \A x \in Proc : x # p => new_proc'[x] = new_proc[x]
      BY <1>2, <2>2 DEF GTypeOK, TypeOK
    <3>2. EmbryosHaveOneCreator
      OBVIOUS
    <3>3. \A x \in Proc : x # p /\ pc'[x] \in {"create_port", "create_ready"} =>
             /\ pc[x] \in {"create_port", "create_ready"}
             /\ new_proc'[x] = new_proc[x] /\ new_proc[x] \in Proc
             /\ pc[new_proc[x]] = "embryo"
             /\ new_proc[x] # n /\ new_proc[x] # p
      BY <1>2, <2>3, <2>6, <3>1, <3>2 DEF EmbryosHaveOneCreator, Creating
    <3> HIDE DEF IInv
    <3> QED  BY <1>2, <2>3, <2>6, <3>1, <3>2, <3>3 DEF EmbryosHaveOneCreator, Creating
  <2>14. PortsHaveOwners'
    <3>1. /\ PortsHaveOwners
          /\ \A x \in Proc : x # n => ports'[x] = ports[x]
          /\ ports'[n] = <<>>
      BY <2>2, <2>3 DEF GTypeOK, TypeOK
    <3>2. \A x \in Port : port[x].owner # n
      BY <2>3, <3>1, NullNotProc DEF PortsHaveOwners
    <3>3. \A x \in Port : port[x].owner \in ProcOrNull
      BY DEF GTypeOK, TypeOK
    <3> HIDE DEF IInv
    <3>4. ASSUME NEW x \in Port
          PROVE  /\ x < next_free_port' <=> port'[x].owner # NULL
                 /\ port'[x].owner # NULL => pc'[port'[x].owner] # "free"
      BY <1>2, <2>2, <2>6, <3>1, <3>2, <3>3 DEF PortsHaveOwners, ProcOrNull
    <3>5. ASSUME NEW x \in Proc, NEW k \in DOMAIN ports'[x]
          PROVE  port'[ports'[x][k]].owner = x
      <4>1. x # n
        BY <3>1, <3>5
      <4> QED  BY <2>2, <3>1, <3>5, <4>1 DEF PortsHaveOwners
    <3>6. ASSUME NEW x \in Port, port'[x].owner # NULL
          PROVE  \E k \in DOMAIN ports'[port'[x].owner] : ports'[port'[x].owner][k] = x
      <4>1. port'[x] = port[x] /\ ports'[port[x].owner] = ports[port[x].owner]
        BY <2>2, <3>1, <3>2, <3>3, <3>6 DEF ProcOrNull
      <4> QED  BY <3>1, <3>6, <4>1 DEF PortsHaveOwners
    <3> QED  BY <3>4, <3>5, <3>6 DEF PortsHaveOwners
  <2>15. SendersKnowThePort'
    BY <2>2 DEF SendersKnowThePort
  <2>16. BlockedListsAreQueues' /\ NoLostWakeup'
    <3>1. \A x \in Port : BlockedOn(x)' = BlockedOn(x)
      BY <2>2, <2>5 DEF BlockedOn
    <3> QED  BY <2>2, <2>5, <3>1 DEF BlockedListsAreQueues, NoLostWakeup, Own
  <2>17. WaitersAreRegistered'
    <3>1. \A x \in Proc : pc'[x] = "wait_for_interrupt" <=> pc[x] = "wait_for_interrupt"
      BY <1>2, <2>3, <2>6
    <3>2. WaitersAreRegistered /\ interrupt_table' = interrupt_table
      BY <2>2
    <3> HIDE DEF IInv
    <3> QED  BY <2>5, <3>1, <3>2 DEF WaitersAreRegistered
  <2>18. EverySenderGetsAReply'
    <3>1. \A x, s \in Proc : InHand(x, s) => InHand(x, s)'
      BY <1>2, <2>2, <2>3, <2>5, <2>6 DEF InHand
    <3>2. EverySenderGetsAReply /\ \A x \in Proc : Own(x)' = Own(x)
      BY <2>2 DEF Own
    <3> HIDE DEF IInv
    <3> QED  BY <2>2, <2>5, <3>1, <3>2 DEF EverySenderGetsAReply
  <2> QED  BY <2>8, <2>9, <2>10, <2>11, <2>12, <2>13, <2>14, <2>15, <2>16, <2>17, <2>18
<1> QED  BY <1>4, <1>5

LEMMA CreateProcessPortInv ==
  ASSUME IInv, NEW p \in Programs, CreateProcessPort(p)
  PROVE  IInv' /\ HighestStep
<1> USE DEF IInv
<1>1. At(p, "create_port") /\ "create_port" \in Labels /\ Unchanged
  BY DEF CreateProcessPort, create_process_port, Labels
<1>2. /\ active_proc = p /\ p \in Proc /\ pc[p] = "create_port" /\ p \in Queued
      /\ rq.state[p] = "READY" /\ p # NullProcess
  BY <1>1, CallerIsReady
<1>3. new_proc[p] \in Proc /\ pc[new_proc[p]] = "embryo"
  BY <1>2 DEF EmbryosHaveOneCreator, Creating
<1>4. CASE PortFull
  BY <1>1, <1>4, PanicInv DEF PortFull, Unchanged, Halts
<1>5. CASE ~PortFull
  <2>1. /\ create_new_port(new_proc[p])
        /\ pc' = [pc EXCEPT ![p] = "create_ready"]
        /\ UNCHANGED <<rq, active_proc, param_proc, param_data, next_blocked,
                       next_free_pcb, new_proc, interrupt_table, halt,
                       waits_on, clients>>
    BY <1>1, <1>5 DEF CreateProcessPort, create_process_port, Goto, schedVars,
       procVars, Unchanged, clientVars
  <2>2. /\ pc' \in [Proc -> Labels] /\ pc'[p] = "create_ready"
        /\ \A x \in Proc : x # p => pc'[x] = pc[x]
    BY <1>2, <2>1 DEF GTypeOK, TypeOK, Labels
  <2>3. /\ ports' \in [Proc -> Seq(Port)] /\ next_free_port' \in 0 .. MAX_PORTS
        /\ port' \in [Port -> [open : BOOLEAN, owner : ProcOrNull,
                               blocked_list_head : ProcOrNull,
                               blocked_list_tail : ProcOrNull]]
        /\ PortsHaveOwners' /\ SendersKnowThePort' /\ BlockedListsAreQueues'
        /\ NoLostWakeup' /\ EverySenderGetsAReply'
    BY <1>2, <1>3, <2>1, <2>2, NewPort
  <2>4. Queued' = Queued
    BY <1>2, <2>1, <2>2 DEF Queued
  <2>5. GTypeOK'
    BY <1>1, <2>1, <2>2, <2>3 DEF GTypeOK, TypeOK, Unchanged, NoResult
  <2>6. RingsHoldTheReady' /\ ActiveIsReady' /\ HighestStep
    BY <1>2, <2>1, <2>4 DEF RingsHoldTheReady, ActiveIsReady, HighestStep, QueuedAt
  <2>7. LabelsMatchStates'
    BY <1>2, <2>1, <2>2, BootAndNull DEF LabelsMatchStates, StatesAt
  <2>8. FreeListIsFree'
    BY <1>2, <2>1, <2>2 DEF FreeListIsFree
  <2>9. EmbryosHaveOneCreator'
    <3>1. /\ EmbryosHaveOneCreator /\ new_proc' = new_proc
          /\ \A x \in Proc : Creating(x)' => Creating(x)
          /\ \A x \in Proc : pc[x] = "embryo" => pc'[x] = "embryo"
      BY <1>2, <2>1, <2>2 DEF Creating
    <3> HIDE DEF IInv
    <3> QED  BY <3>1 DEF EmbryosHaveOneCreator
  <2>10. WaitersAreRegistered'
    <3>1. /\ \A x \in Proc : pc'[x] = "wait_for_interrupt" <=> pc[x] = "wait_for_interrupt"
          /\ WaitersAreRegistered /\ UNCHANGED <<interrupt_table, rq>>
      BY <1>2, <2>1, <2>2
    <3> HIDE DEF IInv
    <3> QED  BY <3>1 DEF WaitersAreRegistered
  <2> QED  BY <2>3, <2>5, <2>6, <2>7, <2>8, <2>9, <2>10
<1> QED  BY <1>4, <1>5

LEMMA CreateProcessReadyInv ==
  ASSUME IInv, NEW p \in Programs, CreateProcessReady(p)
  PROVE  IInv' /\ HighestStep
<1> USE DEF IInv
<1>1. At(p, "create_ready") /\ "create_ready" \in Labels /\ Unchanged
  BY DEF CreateProcessReady, create_process_ready, Labels
<1>2. /\ active_proc = p /\ p \in Proc /\ pc[p] = "create_ready" /\ p \in Queued
      /\ rq.state[p] = "READY" /\ p # NullProcess
      /\ rq \in QueueRecord /\ RingsHold(rq, Queued) /\ Queued \in SUBSET Proc
  BY <1>1, CallerIsReady
<1>3. PICK n : n = new_proc[p]
  OBVIOUS
<1>4. /\ rq' = add_ready_queue(rq, n)
      /\ pc' = [pc EXCEPT ![p] = "user", ![n] = "user"]
      /\ new_proc' = [new_proc EXCEPT ![p] = NULL]
      /\ UNCHANGED <<active_proc, param_proc, param_data, next_blocked, port,
                     ports, next_free_port, next_free_pcb, interrupt_table,
                     halt, waits_on, clients>>
  BY <1>1, <1>3 DEF CreateProcessReady, create_process_ready, ipcVars, portVars,
     Unchanged, clientVars
<1>5. /\ n \in Proc /\ pc[n] = "embryo" /\ n # p /\ n # NullProcess
      /\ rq.state[n] = "READY" /\ n \notin Queued
  <2>1. n \in Proc /\ pc[n] = "embryo"
    BY <1>2, <1>3 DEF EmbryosHaveOneCreator, Creating
  <2> QED  BY <1>2, <2>1 DEF LabelsMatchStates, StatesAt, Queued
<1>6. /\ pc' \in [Proc -> Labels] /\ pc'[p] = "user" /\ pc'[n] = "user"
      /\ \A x \in Proc : x # p /\ x # n => pc'[x] = pc[x]
  BY <1>2, <1>4, <1>5 DEF GTypeOK, TypeOK, Labels
<1>7. rq'.state = rq.state
  <2>1. rq'.state = [rq.state EXCEPT ![n] = "READY"]
    BY <1>2, <1>4, <1>5, AddKeepsRings
  <2> QED  BY <1>2, <1>5, <2>1 DEF QueueRecord
<1>8. Queued' = Queued \cup {n}
  BY <1>2, <1>5, <1>6, <1>7 DEF Queued
<1>9. /\ rq' \in QueueRecord
      /\ RingsHoldTheReady' /\ ActiveIsReady' /\ HighestStep
      /\ active_proc' \in Proc
      /\ \A x \in Proc \ Queued : x # n => rq'.next[x] = rq.next[x]
  BY <1>2, <1>4, <1>5, <1>8, MadeReady
<1>10. GTypeOK'
  <2>1. new_proc' \in [Proc -> ProcOrNull]
    BY <1>4 DEF GTypeOK, TypeOK, ProcOrNull
  <2> QED  BY <1>1, <1>4, <1>6, <1>9, <2>1 DEF GTypeOK, TypeOK, Unchanged, NoResult
<1>11. LabelsMatchStates'
  BY <1>2, <1>5, <1>6, <1>7, BootAndNull DEF LabelsMatchStates, StatesAt
<1>12. FreeListIsFree'
  BY <1>2, <1>4, <1>5, <1>6, <1>9 DEF FreeListIsFree, Queued
<1>13. EmbryosHaveOneCreator'
  <2>1. /\ EmbryosHaveOneCreator
        /\ \A x \in Proc : x # p => new_proc'[x] = new_proc[x]
        /\ \A x \in Proc : Creating(x)' => Creating(x) /\ x # p
    BY <1>2, <1>4, <1>5, <1>6 DEF Creating, GTypeOK, TypeOK
  <2>2. \A x \in Proc : Creating(x) /\ x # p =>
          new_proc[x] # n /\ new_proc[x] # p
    BY <1>2, <1>3, <2>1 DEF EmbryosHaveOneCreator, Creating
  <2> HIDE DEF IInv
  <2> QED  BY <1>6, <2>1, <2>2 DEF EmbryosHaveOneCreator
<1>14. PortsHaveOwners' /\ SendersKnowThePort'
  <2>1. /\ \A x \in Proc : pc[x] # "free" => pc'[x] # "free"
        /\ \A x \in Port : port[x].owner # NULL => port[x].owner \in Proc
        /\ PortsHaveOwners /\ SendersKnowThePort
    BY <1>2, <1>6 DEF GTypeOK, TypeOK, ProcOrNull
  <2> HIDE DEF IInv
  <2> QED  BY <1>4, <2>1 DEF PortsHaveOwners, SendersKnowThePort
<1>15. BlockedListsAreQueues' /\ NoLostWakeup'
  <2>1. \A x \in Port : BlockedOn(x)' = BlockedOn(x)
    BY <1>4, <1>7 DEF BlockedOn
  <2> QED  BY <1>4, <1>7, <2>1 DEF BlockedListsAreQueues, NoLostWakeup, Own
<1>16. WaitersAreRegistered'
  <2>1. /\ \A x \in Proc : pc'[x] = "wait_for_interrupt" <=> pc[x] = "wait_for_interrupt"
        /\ WaitersAreRegistered /\ interrupt_table' = interrupt_table
    BY <1>2, <1>4, <1>5, <1>6
  <2> HIDE DEF IInv
  <2> QED  BY <1>7, <2>1 DEF WaitersAreRegistered
<1>17. EverySenderGetsAReply'
  <2>1. \A x, s \in Proc : InHand(x, s) => InHand(x, s)'
    BY <1>2, <1>4, <1>5, <1>6, <1>7 DEF InHand
  <2>2. EverySenderGetsAReply /\ \A x \in Proc : Own(x)' = Own(x)
    BY <1>4 DEF Own
  <2> HIDE DEF IInv
  <2> QED  BY <1>4, <1>7, <2>1, <2>2 DEF EverySenderGetsAReply
<1> QED  BY <1>9, <1>10, <1>11, <1>12, <1>13, <1>14, <1>15, <1>16, <1>17

-----------------------------------------------------------------------------
(* Zombies *)

(* A process that becomes a zombie or goes on as one changes nothing that   *)
(* is said of messages, free PCBs and interrupts.                          *)
LEMMA ZombieFrame ==
  ASSUME IInv, NEW p \in Proc, p # NullProcess, p \in Programs,
         pc[p] \in {"user", "zombie_remove", "zombie_resign"},
         rq.state[p] \in {"READY", "ZOMBIE"},
         NEW l \in {"zombie_remove", "zombie_resign", "zombie_loop"},
         rq' \in QueueRecord, active_proc' \in Proc,
         rq'.state = [rq.state EXCEPT ![p] = "ZOMBIE"],
         \A x \in Proc : pc[x] = "free" => rq'.next[x] = rq.next[x],
         pc' = [pc EXCEPT ![p] = l],
         UNCHANGED <<ipcVars, portVars, procVars, interrupt_table, halt>>,
         Unchanged
  PROVE  /\ GTypeOK' /\ LabelsMatchStates' /\ FreeListIsFree'
         /\ EmbryosHaveOneCreator' /\ PortsHaveOwners' /\ SendersKnowThePort'
         /\ BlockedListsAreQueues' /\ WaitersAreRegistered' /\ NoLostWakeup'
         /\ EverySenderGetsAReply'
<1> USE DEF IInv
<1>1. UNCHANGED <<param_proc, param_data, next_blocked, port, ports,
                  next_free_port, next_free_pcb, new_proc, interrupt_table,
                  halt, waits_on, clients>>
  BY DEF ipcVars, portVars, procVars, Unchanged, clientVars
<1>2. /\ pc' \in [Proc -> Labels] /\ pc'[p] = l
      /\ \A x \in Proc : x # p => pc'[x] = pc[x]
  BY DEF GTypeOK, TypeOK, Labels
<1>3. /\ rq'.state[p] = "ZOMBIE"
      /\ \A x \in Proc : x # p => rq'.state[x] = rq.state[x]
  BY DEF GTypeOK, TypeOK, QueueRecord
<1>4. GTypeOK'
  BY <1>1, <1>2 DEF GTypeOK, TypeOK, Unchanged, NoResult
<1>5. LabelsMatchStates'
  BY <1>2, <1>3, BootAndNull DEF LabelsMatchStates, StatesAt
<1>6. FreeListIsFree'
  BY <1>1, <1>2 DEF FreeListIsFree
<1>7. EmbryosHaveOneCreator'
  BY <1>1, <1>2 DEF EmbryosHaveOneCreator, Creating
<1>8. PortsHaveOwners' /\ SendersKnowThePort'
  <2>1. /\ \A x \in Proc : pc[x] # "free" => pc'[x] # "free"
        /\ \A x \in Port : port[x].owner # NULL => port[x].owner \in Proc
        /\ PortsHaveOwners /\ SendersKnowThePort
    BY <1>2 DEF GTypeOK, TypeOK, ProcOrNull
  <2> HIDE DEF IInv
  <2> QED  BY <1>1, <2>1 DEF PortsHaveOwners, SendersKnowThePort
<1>9. BlockedListsAreQueues' /\ NoLostWakeup'
  <2>1. \A x \in Port : BlockedOn(x)' = BlockedOn(x)
    BY <1>1, <1>3 DEF BlockedOn
  <2>2. \A x \in Proc : rq'.state[x] \in SendStates <=> rq.state[x] \in SendStates
    BY <1>3 DEF SendStates
  <2> QED  BY <1>1, <1>3, <2>1, <2>2 DEF BlockedListsAreQueues, NoLostWakeup, Own
<1>10. WaitersAreRegistered'
  <2>1. /\ \A x \in Proc : pc'[x] = "wait_for_interrupt" <=> pc[x] = "wait_for_interrupt"
        /\ \A x \in Proc : rq'.state[x] = "INTR_BLOCKED" => rq.state[x] = "INTR_BLOCKED"
        /\ WaitersAreRegistered /\ interrupt_table' = interrupt_table
    BY <1>1, <1>2, <1>3
  <2> HIDE DEF IInv
  <2> QED  BY <2>1 DEF WaitersAreRegistered
<1>11. EverySenderGetsAReply'
  <2>1. \A x, s \in Proc : InHand(x, s) => InHand(x, s)'
    BY <1>1, <1>2, <1>3 DEF InHand
  <2>2. /\ EverySenderGetsAReply /\ \A x \in Proc : Own(x)' = Own(x)
        /\ \A x \in Proc : rq'.state[x] = "REPLY_BLOCKED" <=>
                           rq.state[x] = "REPLY_BLOCKED"
    BY <1>1, <1>3 DEF Own
  <2> HIDE DEF IInv
  <2> QED  BY <1>1, <2>1, <2>2 DEF EverySenderGetsAReply
<1> QED  BY <1>4, <1>5, <1>6, <1>7, <1>8, <1>9, <1>10, <1>11

LEMMA BecomeZombieInv ==
  ASSUME IInv, NEW p \in Programs, BecomeZombie(p)
  PROVE  IInv' /\ HighestStep
<1>1. At(p, "user") /\ "user" \in Labels /\ Unchanged
  BY DEF BecomeZombie, become_zombie, Labels
<1>2. /\ active_proc = p /\ p \in Proc /\ pc[p] = "user" /\ p \in Queued
      /\ rq.state[p] = "READY" /\ p # NullProcess
      /\ rq \in QueueRecord /\ RingsHold(rq, Queued) /\ Queued \in SUBSET Proc
  BY <1>1, CallerIsReady
<1>3. /\ rq' = [rq EXCEPT !.state[p] = "ZOMBIE"]
      /\ pc' = [pc EXCEPT ![p] = "zombie_remove"]
      /\ active_proc' = active_proc
      /\ UNCHANGED <<ipcVars, portVars, procVars, interrupt_table, halt>>
  BY DEF BecomeZombie, become_zombie, Goto
<1>4. "ZOMBIE" \in States
  BY DEF States
<1>5. /\ rq' \in QueueRecord /\ SameRings(rq', rq)
      /\ rq'.state = [rq.state EXCEPT ![p] = "ZOMBIE"]
  BY <1>2, <1>3, <1>4 DEF QueueRecord, SameRings
<1>6. Queued' = Queued
  <2>1. pc \in [Proc -> Labels] /\ rq.state \in [Proc -> States]
    BY <1>2 DEF IInv, GTypeOK, TypeOK, QueueRecord
  <2> QED  BY <1>2, <1>3, <1>5, <2>1 DEF Queued
<1>7. RingsHold(rq', Queued)
  BY <1>2, <1>5, RingsIgnoreState DEF SameRings
<1>8. RingsHoldTheReady' /\ ActiveIsReady' /\ HighestStep
  BY <1>2, <1>3, <1>6, <1>7 DEF RingsHoldTheReady, RingsHold, QueuedAt, Level,
     ActiveIsReady, HighestStep
<1>9. rq'.next = rq.next
  BY <1>5 DEF SameRings
<1>10. /\ GTypeOK' /\ LabelsMatchStates' /\ FreeListIsFree'
       /\ EmbryosHaveOneCreator' /\ PortsHaveOwners' /\ SendersKnowThePort'
       /\ BlockedListsAreQueues' /\ WaitersAreRegistered' /\ NoLostWakeup'
       /\ EverySenderGetsAReply'
  BY <1>1, <1>2, <1>3, <1>5, <1>9, ZombieFrame
<1> QED  BY <1>8, <1>10 DEF IInv

LEMMA ZombieRemoveInv ==
  ASSUME IInv, NEW p \in Programs, ZombieRemove(p)
  PROVE  IInv' /\ HighestStep
<1>1. At(p, "zombie_remove") /\ "zombie_remove" \in Labels /\ Unchanged
  BY DEF ZombieRemove, zombie_remove, Labels
<1>2. /\ active_proc = p /\ p \in Proc /\ pc[p] = "zombie_remove" /\ p \in Queued
      /\ p # NullProcess /\ NullProcess \in Queued
      /\ rq \in QueueRecord /\ RingsHold(rq, Queued) /\ Queued \in SUBSET Proc
  BY <1>1, CallerIsReady
<1>3. /\ rq' = remove_ready_queue(rq, p)
      /\ pc' = [pc EXCEPT ![p] = "zombie_resign"]
      /\ active_proc' = active_proc
      /\ UNCHANGED <<ipcVars, portVars, procVars, interrupt_table, halt>>
  BY DEF ZombieRemove, zombie_remove, Goto
<1>4. rq.state[p] = "ZOMBIE"
  BY <1>2 DEF IInv, LabelsMatchStates, StatesAt
<1>5. LET M == Level(rq', Queued \ {p}, rq'.priority[p])
      IN  /\ rq' \in QueueRecord /\ RingsHold(rq', Queued \ {p})
          /\ rq'.priority = rq.priority /\ rq'.state = rq.state
          /\ \A x \in Proc : x \notin Queued \ {p} => rq'.next[x] = rq.next[x]
          /\ IF M = {} THEN rq'.next[p] = p ELSE rq'.next[p] \in M
  BY <1>2, <1>3, RemoveKeepsRings
<1>6. /\ pc \in [Proc -> Labels] /\ rq.state \in [Proc -> States]
      /\ rq'.state = [rq.state EXCEPT ![p] = "ZOMBIE"]
  BY <1>2, <1>4, <1>5 DEF IInv, GTypeOK, TypeOK, QueueRecord
<1>7. Queued' = Queued \ {p}
  BY <1>2, <1>3, <1>4, <1>5, <1>6 DEF Queued
<1>8. RingsHoldTheReady' /\ ActiveIsReady' /\ HighestStep
  <2>1. RingsHoldTheReady' /\ HighestStep
    BY <1>3, <1>5, <1>7 DEF RingsHoldTheReady, RingsHold, QueuedAt, Level, HighestStep
  <2>2. ActiveIsReady'
    <3>1. pc'[p] = "zombie_resign"
      BY <1>2, <1>3, <1>6
    <3>2. Level(rq', Queued \ {p}, rq'.priority[p]) = QueuedAt(rq.priority[p])'
      BY <1>5, <1>7 DEF Level, QueuedAt
    <3>3. rq'.next[p] = p \/ rq'.next[p] \in Level(rq', Queued \ {p}, rq'.priority[p])
      BY <1>5
    <3> QED  BY <1>2, <1>3, <1>5, <1>7, <3>1, <3>3 DEF ActiveIsReady, Level, QueuedAt
  <2> QED  BY <2>1, <2>2
<1>9. \A x \in Proc : pc[x] = "free" => rq'.next[x] = rq.next[x]
  <2>1. \A x \in Proc : pc[x] = "free" => x \notin Queued
    BY DEF Queued
  <2> QED  BY <1>5, <2>1
<1>10. /\ GTypeOK' /\ LabelsMatchStates' /\ FreeListIsFree'
       /\ EmbryosHaveOneCreator' /\ PortsHaveOwners' /\ SendersKnowThePort'
       /\ BlockedListsAreQueues' /\ WaitersAreRegistered' /\ NoLostWakeup'
       /\ EverySenderGetsAReply'
  BY <1>1, <1>2, <1>3, <1>4, <1>5, <1>6, <1>9, ZombieFrame
<1> QED  BY <1>8, <1>10 DEF IInv

LEMMA ZombieResignInv ==
  ASSUME IInv, NEW p \in Programs, ZombieResign(p)
  PROVE  IInv' /\ HighestStep
<1>1. /\ At(p, "zombie_resign") /\ Unchanged
      /\ rq' = rq /\ active_proc' = dispatcher(rq, active_proc)
      /\ pc' = [pc EXCEPT ![p] = "zombie_loop"]
      /\ UNCHANGED <<ipcVars, portVars, procVars, interrupt_table, halt>>
  BY DEF ZombieResign, zombie_resign, Goto, resign
<1>2. /\ active_proc = p /\ p \in Proc /\ pc[p] = "zombie_resign"
      /\ rq \in QueueRecord /\ RingsHold(rq, Queued) /\ Queued \in SUBSET Proc
      /\ NullProcess \in Queued /\ p # NullProcess
      /\ pc \in [Proc -> Labels]
  BY <1>1, NullIsQueued, RingsAreRings DEF IInv, At, Programs, GTypeOK, TypeOK, Queued
<1>3. rq.state[p] = "ZOMBIE" /\ p \notin Queued
  BY <1>2 DEF IInv, LabelsMatchStates, StatesAt, Queued
<1>4. rq'.state = [rq.state EXCEPT ![p] = "ZOMBIE"]
  BY <1>1, <1>2, <1>3 DEF QueueRecord
<1>5. Queued' = Queued
  BY <1>1, <1>2, <1>3 DEF Queued
<1>6. \/ rq.next[p] = p \/ rq.next[p] \in Level(rq, Queued, rq.priority[p])
  BY <1>2, <1>3 DEF IInv, ActiveIsReady, Level, QueuedAt
<1>7. pc'[p] = "zombie_loop"
  BY <1>1, <1>2
<1>8. RingsHoldTheReady' /\ ActiveIsReady' /\ HighestStep /\ active_proc' \in Proc
  BY <1>1, <1>2, <1>5, <1>6, <1>7, ZombieStep
<1>9. /\ GTypeOK' /\ LabelsMatchStates' /\ FreeListIsFree'
      /\ EmbryosHaveOneCreator' /\ PortsHaveOwners' /\ SendersKnowThePort'
      /\ BlockedListsAreQueues' /\ WaitersAreRegistered' /\ NoLostWakeup'
      /\ EverySenderGetsAReply'
  BY <1>1, <1>2, <1>3, <1>4, <1>8, ZombieFrame
<1> QED  BY <1>8, <1>9 DEF IInv

-----------------------------------------------------------------------------
(* The theorems *)

LEMMA NextInv ==
  ASSUME IInv, [GNext]_allVars
  PROVE  IInv' /\ (HighestStep \/ UNCHANGED allVars)
<1>1. ASSUME NEW p \in Programs, Call(p) PROVE IInv' /\ HighestStep
  <2>1. CASE CreatePort(p) \/ CreateProcess(p) \/ CreateProcessPort(p)
             \/ CreateProcessReady(p)
    BY <2>1, CreatePortInv, CreateProcessInv, CreateProcessPortInv,
       CreateProcessReadyInv
  <2>2. CASE BecomeZombie(p) \/ ZombieRemove(p) \/ ZombieResign(p)
    BY <2>2, BecomeZombieInv, ZombieRemoveInv, ZombieResignInv
  <2>3. CASE ZombieLoop(p)
    BY <2>3, StutterInv DEF ZombieLoop, zombie_loop
  <2>4. CASE OpenPort(p) \/ ClosePort(p) \/ Resign(p)
    BY <2>4, OpenCloseInv, ResignInv
  <2>5. CASE Send(p) \/ Message(p) \/ Receive(p) \/ ReceiveReturn(p) \/ Reply(p)
    BY <2>5, SendInv, MessageInv, ReceiveInv, ReceiveReturnInv, ReplyInv
  <2>6. CASE WaitForInterrupt(p) \/ WaitForInterruptReturn(p)
    BY <2>6, WaitForInterruptInv, WaitForInterruptReturnInv
  <2> QED  BY <1>1, <2>1, <2>2, <2>3, <2>4, <2>5, <2>6 DEF Call
<1>2. CASE NullLoop \/ Halted
  BY <1>2, StutterInv DEF NullLoop, Halted, null_process, halted
<1>3. CASE UNCHANGED allVars
  <2>1. /\ UNCHANGED vars /\ UNCHANGED clientVars /\ UNCHANGED received
    BY <1>3 DEF allVars
  <2>2. UNCHANGED <<rq, active_proc, param_proc, param_data, next_blocked, port,
                    ports, next_free_port, next_free_pcb, new_proc, halt,
                    interrupt_table, pc, waits_on, clients>>
    BY <2>1 DEF vars, schedVars, ipcVars, portVars, procVars, clientVars
  <2>3. Queued' = Queued
    BY <2>2 DEF Queued
  <2>4. GTypeOK'
    BY <2>1, <2>2 DEF IInv, GTypeOK, TypeOK
  <2>5. RingsHoldTheReady' /\ ActiveIsReady'
    BY <2>2, <2>3 DEF IInv, RingsHoldTheReady, ActiveIsReady, QueuedAt
  <2>6. LabelsMatchStates' /\ FreeListIsFree' /\ EmbryosHaveOneCreator'
    BY <2>2 DEF IInv, LabelsMatchStates, FreeListIsFree, EmbryosHaveOneCreator, Creating
  <2>7. rq'.state = rq.state
    BY <2>2
  <2>8. IInv'
    BY <2>2, <2>4, <2>5, <2>6, <2>7, SameMessages DEF IInv
  <2> QED  BY <1>3, <2>8
<1> QED  BY <1>1, <1>2, <1>3, InterruptInv DEF GNext

(* IInv is inductive: it holds in every reachable state, for every number  *)
(* of processes, ports and priorities and whatever the programs do.        *)
THEOREM Invariance == GSpec => []IInv
BY InitInv, NextInv, PTL DEF GSpec

(* Every variable keeps its type. *)
THEOREM TypeCorrect == GSpec => []GTypeOK
<1>1. IInv => GTypeOK
  BY DEF IInv
<1> QED  BY <1>1, Invariance, PTL

(* The ready queues hold exactly the processes that can run. *)
THEOREM ReadyQueuesCorrect == GSpec => []RingsHoldTheReady
<1>1. IInv => RingsHoldTheReady
  BY DEF IInv
<1> QED  BY <1>1, Invariance, PTL

(* The dispatcher always finds a process: the null process is always on a  *)
(* ready queue.                                                            *)
THEOREM DispatcherFindsOne == GSpec => []NeverIdle
<1>1. ASSUME IInv PROVE NeverIdle
  <2>1. /\ NullProcess \in Queued /\ NullProcess \in Proc /\ rq \in QueueRecord
        /\ RingsHold(rq, Queued)
    BY <1>1, NullIsQueued, RingsAreRings, BootAndNull DEF IInv, GTypeOK, TypeOK
  <2>2. NullProcess \in Level(rq, Queued, rq.priority[NullProcess])
    BY <2>1 DEF Level
  <2>3. rq.priority[NullProcess] \in rq.ready_procs
    BY <2>1, <2>2 DEF RingsHold, RingHolds, QueueRecord
  <2> QED  BY <1>1, <2>3 DEF IInv, ActiveIsReady, NeverIdle
<1> QED  BY <1>1, Invariance, PTL

(* Whenever the CPU changes hands, it goes to a ready process of the        *)
(* highest priority.                                                       *)
THEOREM DispatchCorrect == GSpec => DispatchesHighest
<1>1. IInv /\ [GNext]_allVars =>
        [active_proc' # active_proc =>
           /\ active_proc' \in Queued'
           /\ \A p \in Queued' : rq'.priority[p] <= rq'.priority[active_proc']
        ]_allVars
  BY NextInv DEF HighestStep
<1> QED  BY <1>1, Invariance, PTL DEF GSpec, DispatchesHighest

(* The lists of blocked senders hold each blocked sender once. *)
THEOREM ListsCorrect == GSpec => []BlockedListsAreQueues
<1>1. IInv => BlockedListsAreQueues
  BY DEF IInv
<1> QED  BY <1>1, Invariance, PTL

(* No process waits for a message that is already in its list. *)
THEOREM WakeupsCorrect == GSpec => []NoLostWakeup
<1>1. IInv => NoLostWakeup
  BY DEF IInv
<1> QED  BY <1>1, Invariance, PTL

(* Every sender that waits for a reply is held by the one process that can  *)
(* reply to it.                                                            *)
THEOREM RepliesCorrect == GSpec => []EverySenderGetsAReply
<1>1. IInv => EverySenderGetsAReply
  BY DEF IInv
<1> QED  BY <1>1, Invariance, PTL

(* A process that waits for an interrupt is in interrupt_table, once. *)
THEOREM InterruptTableCorrect == GSpec => []WaitersAreRegistered
<1>1. IInv => WaitersAreRegistered
  BY DEF IInv
<1> QED  BY <1>1, Invariance, PTL

=============================================================================
