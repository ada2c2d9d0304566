--------------------------- MODULE RendezvousProofs ---------------------------
(***************************************************************************)
(* The kernel calls of any programs implement Rendezvous, for every number *)
(* of processes and ports.                                                 *)
(***************************************************************************)
EXTENDS RendezvousRefinement, KernelProofs, SequenceTheorems

-----------------------------------------------------------------------------
(* Lists: links without a cycle, and the sequences that Chain reads off    *)
(* them.                                                                   *)

Links == [Proc -> ProcOrNull]

(* Every set of processes has one whose link leads out of it. *)
Acyclic(link) == \A S \in SUBSET Proc : S # {} => \E p \in S : link[p] \notin S

(* The sequences of the lists that start at each process of T. *)
IsFrom(link, T, f) ==
  f = [p \in T |-> <<p>> \o (IF link[p] = NULL THEN <<>> ELSE f[link[p]])]

From(link) == CHOOSE f : IsFrom(link, Proc, f)

ChainOf(link, head) == IF head = NULL THEN <<>> ELSE From(link)[head]

LEMMA ChainIsChainOf == \A h : Chain(h) = ChainOf(next_blocked, h)
  BY DEF Chain, ChainOf, From, IsFrom

(* T holds every process that a list starting in it passes. *)
ClosedUnder(link, T) == \A p \in T : link[p] = NULL \/ link[p] \in T

LEMMA PointwiseIsFrom ==
  ASSUME NEW link, NEW T, NEW f, f = [p \in T |-> f[p]],
         \A p \in T : f[p] = <<p>> \o (IF link[p] = NULL THEN <<>> ELSE f[link[p]])
  PROVE  IsFrom(link, T, f)
<1>1. [p \in T |-> f[p]] =
        [p \in T |-> <<p>> \o (IF link[p] = NULL THEN <<>> ELSE f[link[p]])]
  OBVIOUS
<1> QED BY <1>1 DEF IsFrom

(* Two functions that read off lists agree where both are defined. *)
LEMMA FromIsUnique ==
  ASSUME NEW link \in Links, Acyclic(link),
         NEW S \in SUBSET Proc, NEW T \in SUBSET Proc, NEW f, NEW g,
         ClosedUnder(link, S), ClosedUnder(link, T),
         IsFrom(link, S, f), IsFrom(link, T, g)
  PROVE  \A p \in S \cap T : f[p] = g[p]
<1> DEFINE D == {p \in S \cap T : f[p] # g[p]}
<1>1. ASSUME D # {} PROVE FALSE
  <2>1. PICK p \in D : link[p] \notin D
    BY <1>1 DEF Acyclic
  <2>2. f[p] = <<p>> \o (IF link[p] = NULL THEN <<>> ELSE f[link[p]])
    BY <2>1 DEF IsFrom
  <2>3. g[p] = <<p>> \o (IF link[p] = NULL THEN <<>> ELSE g[link[p]])
    BY <2>1 DEF IsFrom
  <2>4. link[p] = NULL \/ f[link[p]] = g[link[p]]
    BY <2>1 DEF ClosedUnder
  <2> QED BY <2>1, <2>2, <2>3, <2>4
<1> QED BY <1>1

(* The lists of links without a cycle can be read off. *)
LEMMA FromExists ==
  ASSUME NEW link \in Links, Acyclic(link)
  PROVE  IsFrom(link, Proc, From(link))
<1> DEFINE Readable == {T \in SUBSET Proc : /\ ClosedUnder(link, T)
                                            /\ \E f : IsFrom(link, T, f)}
           Of(T) == CHOOSE f : IsFrom(link, T, f)
           U == UNION Readable
           With(p) == CHOOSE T \in Readable : p \in T
           F == [p \in U |-> Of(With(p))[p]]
<1>1. \A T \in Readable : IsFrom(link, T, Of(T))
  OBVIOUS
<1>2. \A p \in U : With(p) \in Readable /\ p \in With(p)
  OBVIOUS
<1>3. \A T \in Readable : \A p \in T : F[p] = Of(T)[p]
  <2> SUFFICES ASSUME NEW T \in Readable, NEW p \in T PROVE F[p] = Of(T)[p]
    OBVIOUS
  <2>1. p \in U
    OBVIOUS
  <2>2. With(p) \in Readable /\ p \in With(p)
    BY <1>2, <2>1
  <2>3. IsFrom(link, T, Of(T)) /\ IsFrom(link, With(p), Of(With(p)))
    BY <1>1, <2>2
  <2>4. F[p] = Of(With(p))[p]
    BY <2>1
  <2>5. Of(With(p))[p] = Of(T)[p]
    <3>1. ClosedUnder(link, T) /\ ClosedUnder(link, With(p))
      BY <2>2
    <3>2. T \in SUBSET Proc /\ With(p) \in SUBSET Proc
      BY <2>2
    <3>3. p \in With(p) \cap T
      BY <2>2
    <3> HIDE DEF With, Of, Readable
    <3> QED BY <2>3, <3>1, <3>2, <3>3, FromIsUnique
  <2> QED BY <2>4, <2>5
<1>4. U \in SUBSET Proc /\ ClosedUnder(link, U)
  BY DEF ClosedUnder
<1>5. IsFrom(link, U, F)
  <2>0. F = [p \in U |-> F[p]]
    OBVIOUS
  <2> SUFFICES ASSUME NEW p \in U
               PROVE F[p] = <<p>> \o (IF link[p] = NULL THEN <<>> ELSE F[link[p]])
    <3> HIDE DEF F, U
    <3> QED BY <2>0, PointwiseIsFrom
  <2>1. PICK T \in Readable : p \in T
    OBVIOUS
  <2>2. Of(T)[p] = <<p>> \o (IF link[p] = NULL THEN <<>> ELSE Of(T)[link[p]])
    BY <1>1, <2>1 DEF IsFrom
  <2>3. link[p] = NULL \/ link[p] \in T
    BY <2>1 DEF ClosedUnder
  <2>4. link[p] = NULL \/ F[link[p]] = Of(T)[link[p]]
    BY <1>3, <2>1, <2>3
  <2>5. F[p] = Of(T)[p]
    BY <1>3, <2>1
  <2> HIDE DEF F, Of
  <2> QED BY <2>2, <2>4, <2>5
<1>6. U = Proc
  <2> SUFFICES ASSUME U # Proc PROVE FALSE
    OBVIOUS
  <2> DEFINE Rest == Proc \ U
  <2>1. PICK p \in Rest : link[p] \notin Rest
    BY <1>4 DEF Acyclic
  <2> DEFINE V == U \cup {p}
             G == [q \in V |-> IF q = p
                               THEN <<p>> \o (IF link[p] = NULL THEN <<>> ELSE F[link[p]])
                               ELSE F[q]]
  <2>2. link[p] = NULL \/ link[p] \in U
    BY <2>1 DEF Links, ProcOrNull
  <2>3. V \in SUBSET Proc /\ ClosedUnder(link, V)
    BY <1>4, <2>1, <2>2 DEF ClosedUnder
  <2>4. IsFrom(link, V, G)
    <3>0. G = [q \in V |-> G[q]]
      <4> HIDE DEF F, V
      <4> QED OBVIOUS
    <3> SUFFICES ASSUME NEW q \in V
                 PROVE G[q] = <<q>> \o (IF link[q] = NULL THEN <<>> ELSE G[link[q]])
      <4> HIDE DEF G, V
      <4> QED BY <3>0, PointwiseIsFrom
    <3>1. \A r \in U : G[r] = F[r]
      BY <2>1
    <3>2. CASE q = p
      <4>1. G[q] = <<p>> \o (IF link[p] = NULL THEN <<>> ELSE F[link[p]])
        BY <3>2
      <4>2. link[p] = NULL \/ G[link[p]] = F[link[p]]
        BY <2>2, <3>1
      <4> HIDE DEF G, F
      <4> QED BY <3>2, <4>1, <4>2
    <3>3. CASE q \in U
      <4>1. G[q] = F[q]
        BY <3>1, <3>3
      <4>2. F[q] = <<q>> \o (IF link[q] = NULL THEN <<>> ELSE F[link[q]])
        BY <1>5, <3>3 DEF IsFrom
      <4>3. link[q] = NULL \/ link[q] \in U
        BY <1>4, <3>3 DEF ClosedUnder
      <4>4. link[q] = NULL \/ G[link[q]] = F[link[q]]
        BY <3>1, <4>3
      <4> HIDE DEF G, F
      <4> QED BY <4>1, <4>2, <4>4
    <3> QED BY <3>2, <3>3
  <2>5. V \in Readable
    BY <2>3, <2>4
  <2> QED BY <2>1, <2>5
<1>7. \E f : IsFrom(link, Proc, f)
  <2>1. IsFrom(link, Proc, F)
    BY ONLY <1>5, <1>6
  <2> HIDE DEF F
  <2> QED BY ONLY <2>1, Zenon
<1> DEFINE P(f) == IsFrom(link, Proc, f)
<1>8. P(CHOOSE f : P(f))
  <2>1. \E f : P(f)
    BY <1>7
  <2> HIDE DEF P
  <2> QED BY ONLY <2>1, Zenon
<1> QED BY <1>8, Zenon DEF From

(* A list is its first process, and the list that starts behind it. *)
LEMMA ChainStep ==
  ASSUME NEW link \in Links, Acyclic(link)
  PROVE  /\ ChainOf(link, NULL) = <<>>
         /\ \A p \in Proc : ChainOf(link, p) = <<p>> \o ChainOf(link, link[p])
<1>1. IsFrom(link, Proc, From(link))
  BY FromExists
<1>2. \A p \in Proc : p # NULL
  BY SizesAssumption, NullAssumption DEF Proc
<1> DEFINE f == From(link)
<1>3. \A p \in Proc : f[p] = <<p>> \o (IF link[p] = NULL THEN <<>> ELSE f[link[p]])
  BY <1>1 DEF IsFrom
<1> HIDE DEF f
<1>4. \A h : ChainOf(link, h) = IF h = NULL THEN <<>> ELSE f[h]
  BY DEF ChainOf, f
<1> QED BY <1>2, <1>3, <1>4

(* The list that starts in a set closed under the links stays in it. *)
LEMMA ChainStaysInside ==
  ASSUME NEW link \in Links, Acyclic(link), NEW S \in SUBSET Proc,
         ClosedUnder(link, S)
  PROVE  \A h \in S \cup {NULL} : ChainOf(link, h) \in Seq(S)
<1> DEFINE C(h) == ChainOf(link, h)
           D == {p \in S : C(p) \notin Seq(S)}
<1>1. /\ C(NULL) = <<>>
      /\ \A p \in Proc : C(p) = <<p>> \o C(link[p])
  BY ChainStep
<1> HIDE DEF C
<1>2. ASSUME D # {} PROVE FALSE
  <2>1. PICK p \in D : link[p] \notin D
    BY <1>2 DEF Acyclic
  <2>2. C(link[p]) \in Seq(S)
    BY <1>1, <2>1, EmptySeq DEF ClosedUnder
  <2>3. C(p) = <<p>> \o C(link[p]) /\ <<p>> \in Seq(S)
    BY <1>1, <2>1
  <2>4. C(p) \in Seq(S)
    BY <2>2, <2>3, ConcatProperties
  <2> QED BY <2>1, <2>4
<1>3. \A h \in S \cup {NULL} : C(h) \in Seq(S)
  BY <1>1, <1>2, EmptySeq
<1> QED BY <1>3 DEF C

LEMMA ChainIsSequence ==
  ASSUME NEW link \in Links, Acyclic(link), NEW h \in ProcOrNull
  PROVE  ChainOf(link, h) \in Seq(Proc)
<1>1. ClosedUnder(link, Proc)
  BY DEF ClosedUnder, Links, ProcOrNull
<1> QED BY <1>1, ChainStaysInside DEF ProcOrNull

(* Head and tail of the list are those of the sequence. *)
LEMMA ChainEnds ==
  ASSUME NEW link \in Links, Acyclic(link), NEW p \in Proc
  PROVE  /\ ChainOf(link, p) # <<>>
         /\ Head(ChainOf(link, p)) = p
         /\ Tail(ChainOf(link, p)) = ChainOf(link, link[p])
<1> DEFINE rest == ChainOf(link, link[p])
<1>1. rest \in Seq(Proc)
  BY ChainIsSequence DEF Links
<1>2. ChainOf(link, p) = <<p>> \o rest
  BY ChainStep
<1> HIDE DEF rest
<1>3. <<p>> \o rest # <<>> /\ Head(<<p>> \o rest) = p /\ Tail(<<p>> \o rest) = rest
  BY <1>1
<1> QED BY <1>2, <1>3 DEF rest

(* A list does not depend on links outside it. *)
LEMMA ChainFrame ==
  ASSUME NEW link \in Links, Acyclic(link), NEW new \in Links, Acyclic(new),
         NEW S \in SUBSET Proc, ClosedUnder(link, S),
         \A p \in S : new[p] = link[p]
  PROVE  \A h \in S \cup {NULL} : ChainOf(new, h) = ChainOf(link, h)
<1> DEFINE C(h) == ChainOf(link, h)
           N(h) == ChainOf(new, h)
           D == {p \in S : N(p) # C(p)}
<1>1. /\ C(NULL) = <<>>
      /\ \A p \in Proc : C(p) = <<p>> \o C(link[p])
  BY ChainStep
<1>2. /\ N(NULL) = <<>>
      /\ \A p \in Proc : N(p) = <<p>> \o N(new[p])
  BY ChainStep
<1> HIDE DEF C, N
<1>3. ASSUME D # {} PROVE FALSE
  <2>1. PICK p \in D : link[p] \notin D
    BY <1>3 DEF Acyclic
  <2>2. N(link[p]) = C(link[p])
    BY <1>1, <1>2, <2>1 DEF ClosedUnder
  <2> QED BY <1>1, <1>2, <2>1, <2>2
<1>4. \A h \in S \cup {NULL} : N(h) = C(h)
  BY <1>1, <1>2, <1>3
<1> QED BY <1>4 DEF C, N

(* add_to_send_blocked_list appends to the list. *)
Appended(link, last, p) == [link EXCEPT ![last] = p, ![p] = NULL]

LEMMA AppendedIsAcyclic ==
  ASSUME NEW link \in Links, Acyclic(link), NEW last \in Proc, NEW p \in Proc
  PROVE  /\ Appended(link, last, p) \in Links
         /\ Acyclic(Appended(link, last, p))
<1>1. Appended(link, last, p) \in Links
  BY DEF Appended, Links, ProcOrNull
<1>2. ASSUME NEW S \in SUBSET Proc, S # {}
      PROVE \E r \in S : Appended(link, last, p)[r] \notin S
  <2>1. CASE p \in S
    <3>1. Appended(link, last, p)[p] = NULL
      BY DEF Appended, Links
    <3>2. NULL \notin Proc
      BY SizesAssumption, NullAssumption DEF Proc
    <3> QED BY <2>1, <3>1, <3>2
  <2>2. CASE p \notin S
    <3>1. PICK r \in S : link[r] \notin S
      BY <1>2 DEF Acyclic
    <3>2. Appended(link, last, p)[r] = IF r = last THEN p ELSE link[r]
      BY <2>2, <3>1 DEF Appended, Links
    <3> QED BY <2>2, <3>1, <3>2
  <2> QED BY <2>1, <2>2
<1> QED BY <1>1, <1>2 DEF Acyclic

LEMMA ChainAppends ==
  ASSUME NEW link \in Links, Acyclic(link), NEW B \in SUBSET Proc,
         NEW head, NEW last \in B, NEW p \in Proc \ B,
         ListHolds(link, head, last, B)
  PROVE  ChainOf(Appended(link, last, p), head) = Append(ChainOf(link, head), p)
<1> DEFINE new == Appended(link, last, p)
           C(h) == ChainOf(link, h)
           N(h) == ChainOf(new, h)
           D == {r \in B : N(r) # Append(C(r), p)}
<1>1. new \in Links /\ Acyclic(new)
  BY AppendedIsAcyclic
<1>2. /\ C(NULL) = <<>>
      /\ \A r \in Proc : C(r) = <<r>> \o C(link[r])
  BY ChainStep
<1>3. /\ N(NULL) = <<>>
      /\ \A r \in Proc : N(r) = <<r>> \o N(new[r])
  <2> HIDE DEF new
  <2> QED BY <1>1, ChainStep
<1>4. \A r \in B : C(link[r]) \in Seq(Proc)
  BY ChainIsSequence DEF Links
<1>5. /\ new[p] = NULL /\ new[last] = p
      /\ \A r \in B \ {last} : new[r] = link[r]
  BY DEF Appended, Links
<1>6. /\ link[last] = NULL /\ head \in B
      /\ \A r \in B \ {last} : link[r] \in B
  BY DEF ListHolds
<1> HIDE DEF new, C, N
<1>7. ASSUME D # {} PROVE FALSE
  <2>1. PICK r \in D : link[r] \notin D
    BY <1>7 DEF Acyclic
  <2>2. CASE r = last
    <3>1. N(r) = <<r>> \o (<<p>> \o <<>>)
      BY <1>3, <1>5, <2>2
    <3>2. C(r) = <<r>> \o <<>>
      BY <1>2, <1>6, <2>2
    <3>3. <<r>> \o (<<p>> \o <<>>) = Append(<<r>> \o <<>>, p)
      BY <2>1
    <3> QED BY <2>1, <3>1, <3>2, <3>3
  <2>3. CASE r # last
    <3>1. N(link[r]) = Append(C(link[r]), p)
      BY <1>6, <2>1, <2>3
    <3>2. N(r) = <<r>> \o Append(C(link[r]), p)
      BY <1>3, <1>5, <2>1, <2>3, <3>1
    <3>3. C(r) = <<r>> \o C(link[r]) /\ C(link[r]) \in Seq(Proc)
      BY <1>2, <1>4, <2>1
    <3>4. ASSUME NEW s \in Seq(Proc)
          PROVE <<r>> \o Append(s, p) = Append(<<r>> \o s, p)
      BY <2>1
    <3>5. N(r) = Append(C(r), p)
      BY <3>2, <3>3, <3>4
    <3> QED BY <2>1, <3>5
  <2> QED BY <2>2, <2>3
<1>8. N(head) = Append(C(head), p)
  BY <1>6, <1>7
<1> QED BY <1>8 DEF C, N, new

-----------------------------------------------------------------------------
(* The queue of a port: the messages of the processes in its list. *)

MessageIn(s, data, state) ==
  [proc |-> s, data |-> data[s], wants_reply |-> state[s] = "SEND_BLOCKED"]
Messages(list, data, state) ==
  [k \in DOMAIN list |-> MessageIn(list[k], data, state)]

QueueIn(link, head, data, state) == Messages(ChainOf(link, head), data, state)

LEMMA QueueIsQueueIn ==
  ASSUME NEW po
  PROVE  Queue(po) = QueueIn(next_blocked, port[po].blocked_list_head,
                             param_data, rq.state)
BY DEF Queue, Chain, QueueIn, ChainOf, From, IsFrom, Messages, MessageIn, MessageOf

LEMMA NextQueueIsQueueIn ==
  ASSUME NEW po \in Port
  PROVE  Queue(po)' = QueueIn(next_blocked', port'[po].blocked_list_head,
                              param_data', rq'.state)
BY DEF Queue, Chain, QueueIn, ChainOf, From, IsFrom, Messages, MessageIn, MessageOf

LEMMA SameMessagesRead ==
  ASSUME NEW S, NEW list \in Seq(S), NEW data, NEW state, NEW data2, NEW state2,
         \A s \in S : /\ data2[s] = data[s]
                      /\ state2[s] = "SEND_BLOCKED" <=> state[s] = "SEND_BLOCKED"
  PROVE  Messages(list, data2, state2) = Messages(list, data, state)
<1>1. ASSUME NEW k \in DOMAIN list
      PROVE  MessageIn(list[k], data2, state2) = MessageIn(list[k], data, state)
  <2>1. list[k] \in S
    OBVIOUS
  <2> QED BY <2>1 DEF MessageIn
<1> QED BY <1>1 DEF Messages

LEMMA SequenceIsFunction ==
  ASSUME NEW S, NEW seq \in Seq(S), NEW n, Len(seq) = n
  PROVE  seq = [k \in 1 .. n |-> seq[k]]
<1>1. seq \in [1 .. n -> S]
  BY LenProperties
<1> QED BY ONLY <1>1

LEMMA MessagesAppend ==
  ASSUME NEW list \in Seq(Proc), NEW p \in Proc, NEW data, NEW state
  PROVE  Messages(Append(list, p), data, state)
           = Append(Messages(list, data, state), MessageIn(p, data, state))
<1> DEFINE m(s) == MessageIn(s, data, state)
           a == [k \in DOMAIN Append(list, p) |-> m(Append(list, p)[k])]
           b == [k \in DOMAIN list |-> m(list[k])]
<1> HIDE DEF m
<1>1. DOMAIN list = 1 .. Len(list) /\ DOMAIN Append(list, p) = 1 .. Len(list) + 1
  OBVIOUS
<1>2. \A k \in 1 .. Len(list) : Append(list, p)[k] = list[k]
  OBVIOUS
<1>3. Append(list, p)[Len(list) + 1] = p
  OBVIOUS
<1>4. b = [k \in 1 .. Len(list) |-> m(list[k])]
  BY <1>1
<1>5. Len(list) \in Nat
  OBVIOUS
<1>6. Append(b, m(p)) = [k \in 1 .. Len(list) + 1 |->
                           IF k = Len(list) + 1 THEN m(p) ELSE m(list[k])]
  <2>1. \A T : (\A k \in 1 .. Len(list) : m(list[k]) \in T) /\ m(p) \in T =>
          /\ b \in Seq(T) /\ Len(b) = Len(list)
          /\ Append(b, m(p)) = [k \in 1 .. Len(list) + 1 |->
                 IF k = Len(list) + 1 THEN m(p) ELSE b[k]]
    <3> SUFFICES ASSUME NEW T, \A k \in 1 .. Len(list) : m(list[k]) \in T, m(p) \in T
                 PROVE /\ b \in Seq(T) /\ Len(b) = Len(list)
                       /\ Append(b, m(p)) = [k \in 1 .. Len(list) + 1 |->
                             IF k = Len(list) + 1 THEN m(p) ELSE b[k]]
      OBVIOUS
    <3>1. b \in Seq(T) /\ Len(b) = Len(list)
      BY <1>4, <1>5
    <3> HIDE DEF b
    <3>2. /\ Append(b, m(p)) \in Seq(T) /\ Len(Append(b, m(p))) = Len(list) + 1
          /\ \A k \in 1 .. Len(list) : Append(b, m(p))[k] = b[k]
          /\ Append(b, m(p))[Len(list) + 1] = m(p)
      BY <3>1, AppendProperties
    <3>3. Append(b, m(p)) = [k \in 1 .. Len(list) + 1 |-> Append(b, m(p))[k]]
      BY <3>2, SequenceIsFunction
    <3>4. \A k \in 1 .. Len(list) + 1 :
            Append(b, m(p))[k] = IF k = Len(list) + 1 THEN m(p) ELSE b[k]
      BY <1>5, <3>2
    <3> QED BY <3>1, <3>3, <3>4
  <2>2. Append(b, m(p)) = [k \in 1 .. Len(list) + 1 |->
                 IF k = Len(list) + 1 THEN m(p) ELSE b[k]]
    <3> DEFINE T == {m(list[k]) : k \in 1 .. Len(list)} \cup {m(p)}
    <3> QED BY <2>1
  <2>3. \A k \in 1 .. Len(list) + 1 :
          (IF k = Len(list) + 1 THEN m(p) ELSE b[k])
            = (IF k = Len(list) + 1 THEN m(p) ELSE m(list[k]))
    BY <1>4, <1>5
  <2> HIDE DEF b
  <2> QED BY <2>2, <2>3
<1>7. \A k \in 1 .. Len(list) + 1 :
        m(Append(list, p)[k]) = IF k = Len(list) + 1 THEN m(p) ELSE m(list[k])
  BY <1>2, <1>3, <1>5
<1>8. a = Append(b, m(p))
  BY <1>1, <1>6, <1>7
<1> QED BY <1>8 DEF Messages, m

LEMMA MessagesEnds ==
  ASSUME NEW p \in Proc, NEW rest \in Seq(Proc), NEW data, NEW state
  PROVE  LET q == Messages(<<p>> \o rest, data, state)
         IN  /\ q # <<>>
             /\ Head(q) = MessageIn(p, data, state)
             /\ Tail(q) = Messages(rest, data, state)
<1> DEFINE m(s) == MessageIn(s, data, state)
           list == <<p>> \o rest
           q == [k \in DOMAIN list |-> m(list[k])]
           T == {m(s) : s \in Proc}
<1> HIDE DEF m
<1>1. /\ list \in Seq(Proc) /\ Len(list) = Len(rest) + 1 /\ list[1] = p
      /\ \A k \in 1 .. Len(rest) : list[k + 1] = rest[k]
      /\ DOMAIN list = 1 .. Len(rest) + 1 /\ DOMAIN rest = 1 .. Len(rest)
      /\ Len(rest) \in Nat
  OBVIOUS
<1> HIDE DEF list
<1>2. q \in Seq(T) /\ Len(q) = Len(rest) + 1
  <2>1. \A k \in 1 .. Len(rest) + 1 : m(list[k]) \in T
    BY <1>1
  <2>2. q = [k \in 1 .. Len(rest) + 1 |-> m(list[k])]
    BY <1>1
  <2> HIDE DEF T, q
  <2> QED BY <1>1, <2>1, <2>2
<1>3. q[1] = m(p) /\ \A k \in 1 .. Len(rest) : q[k + 1] = m(rest[k])
  BY <1>1
<1> HIDE DEF T, q
<1>4. q # <<>> /\ Head(q) = m(p)
  BY <1>1, <1>2, <1>3
<1>5. Tail(q) = [k \in 1 .. Len(rest) |-> q[k + 1]]
  <2>1. Tail(q) \in Seq(T) /\ Len(Tail(q)) = Len(rest)
    BY <1>1, <1>2, <1>4
  <2>2. \A k \in 1 .. Len(rest) : Tail(q)[k] = q[k + 1]
    BY <1>1, <1>2, <1>4
  <2>3. Tail(q) = [k \in 1 .. Len(rest) |-> Tail(q)[k]]
    BY <2>1, SequenceIsFunction
  <2> QED BY <2>2, <2>3
<1>6. Tail(q) = [k \in DOMAIN rest |-> m(rest[k])]
  BY <1>1, <1>3, <1>5
<1> QED BY <1>4, <1>6 DEF Messages, m, q, list

LEMMA NoMessages ==
  ASSUME NEW data, NEW state PROVE Messages(<<>>, data, state) = <<>>
BY DEF Messages

LEMMA ListClosed ==
  ASSUME NEW link, NEW head, NEW last, NEW B \in SUBSET Proc,
         ListHolds(link, head, last, B)
  PROVE  /\ ClosedUnder(link, B)
         /\ head \in B \cup {NULL}
         /\ head = NULL <=> B = {}
<1>1. NULL \notin Proc
  BY SizesAssumption, NullAssumption DEF Proc
<1> QED BY <1>1 DEF ListHolds, ClosedUnder

(* What the lists of the ports are, by the invariant of the kernel. *)
LEMMA PortList ==
  ASSUME IInv, NEW po \in Port
  PROVE  /\ next_blocked \in Links
         /\ BlockedOn(po) \in SUBSET Proc
         /\ ListHolds(next_blocked, port[po].blocked_list_head,
                      port[po].blocked_list_tail, BlockedOn(po))
         /\ ClosedUnder(next_blocked, BlockedOn(po))
         /\ port[po].blocked_list_head \in BlockedOn(po) \cup {NULL}
         /\ port[po].blocked_list_head = NULL <=> BlockedOn(po) = {}
<1>1. next_blocked \in Links
  BY DEF IInv, GTypeOK, TypeOK, Links
<1>2. BlockedOn(po) \in SUBSET Proc
  BY DEF BlockedOn
<1>3. ListHolds(next_blocked, port[po].blocked_list_head,
                port[po].blocked_list_tail, BlockedOn(po))
  BY DEF IInv, BlockedListsAreQueues
<1>4. /\ ClosedUnder(next_blocked, BlockedOn(po))
      /\ port[po].blocked_list_head \in BlockedOn(po) \cup {NULL}
      /\ port[po].blocked_list_head = NULL <=> BlockedOn(po) = {}
  BY <1>2, <1>3, ListClosed
<1> QED BY <1>1, <1>2, <1>3, <1>4

(* A queue that no process joins or leaves. *)
LEMMA QueueFrame ==
  ASSUME IInv, Acyclic(next_blocked), next_blocked' \in Links,
         Acyclic(next_blocked'), NEW po \in Port,
         port'[po].blocked_list_head = port[po].blocked_list_head,
         \A s \in BlockedOn(po) : /\ next_blocked'[s] = next_blocked[s]
                                  /\ param_data'[s] = param_data[s]
                                  /\ rq'.state[s] = rq.state[s]
  PROVE  Queue(po)' = Queue(po)
<1> DEFINE B == BlockedOn(po)
           head == port[po].blocked_list_head
           list == ChainOf(next_blocked, head)
<1>1. /\ next_blocked \in Links /\ B \in SUBSET Proc /\ ClosedUnder(next_blocked, B)
      /\ head \in B \cup {NULL}
  BY PortList
<1>2. ChainOf(next_blocked', head) = list
  <2> HIDE DEF B
  <2> QED BY <1>1, ChainFrame DEF B
<1>3. list \in Seq(B)
  <2> HIDE DEF B, head
  <2> QED BY <1>1, ChainStaysInside
<1>4. \A s \in B : /\ param_data'[s] = param_data[s]
                   /\ rq'.state[s] = "SEND_BLOCKED" <=> rq.state[s] = "SEND_BLOCKED"
  OBVIOUS
<1> HIDE DEF B, list, head
<1>5. Messages(list, param_data', rq'.state) = Messages(list, param_data, rq.state)
  BY <1>3, <1>4, SameMessagesRead
<1>6. Queue(po) = Messages(list, param_data, rq.state)
  BY QueueIsQueueIn DEF QueueIn, list, head
<1>7. Queue(po)' = Messages(list, param_data', rq'.state)
  BY <1>2, NextQueueIsQueueIn DEF QueueIn, head
<1> QED BY <1>5, <1>6, <1>7

(* A sender joins its queue behind all others. *)
LEMMA QueueAppends ==
  ASSUME IInv, Acyclic(next_blocked), NEW po \in Port,
         NEW p \in Proc, p \notin BlockedOn(po), NEW data, NEW S \in States,
         add_to_send_blocked_list(po, p),
         param_data' = [param_data EXCEPT ![p] = data],
         rq'.state = [rq.state EXCEPT ![p] = S]
  PROVE  /\ next_blocked' \in Links /\ Acyclic(next_blocked')
         /\ Queue(po)' = Append(Queue(po), MessageIn(p, param_data', rq'.state))
<1> DEFINE B == BlockedOn(po)
           head == port[po].blocked_list_head
           last == port[po].blocked_list_tail
           list == ChainOf(next_blocked, head)
<1>1. /\ next_blocked \in Links /\ B \in SUBSET Proc /\ ClosedUnder(next_blocked, B)
      /\ head \in B \cup {NULL} /\ ListHolds(next_blocked, head, last, B)
      /\ head = NULL <=> B = {}
  BY PortList
<1>2. /\ param_data \in [Proc -> Data \cup {NULL}] /\ rq.state \in [Proc -> States]
      /\ port \in [Port -> [open : BOOLEAN, owner : ProcOrNull,
                        blocked_list_head : ProcOrNull,
                        blocked_list_tail : ProcOrNull]]
      /\ NULL \notin Proc
  BY SizesAssumption, NullAssumption DEF IInv, GTypeOK, TypeOK, QueueRecord, Proc
<1>3. head # NULL => last \in B
  BY <1>1, <1>2 DEF ListHolds
<1>4. next_blocked' = Appended(next_blocked, IF head = NULL THEN p ELSE last, p)
  BY <1>1 DEF add_to_send_blocked_list, Appended, Links
<1>5. port'[po].blocked_list_head = IF head = NULL THEN p ELSE head
  BY <1>2 DEF add_to_send_blocked_list
<1> HIDE DEF B, head, last
<1>6. next_blocked' \in Links /\ Acyclic(next_blocked')
  BY <1>1, <1>3, <1>4, AppendedIsAcyclic
<1>7. ChainOf(next_blocked', port'[po].blocked_list_head) = Append(list, p)
  <2>1. CASE head = NULL
    <3>1. next_blocked'[p] = NULL
      BY <1>1, <1>4 DEF Appended, Links
    <3>2. ChainOf(next_blocked', p) = <<p>> \o <<>> /\ list = <<>>
      BY <1>1, <1>6, <2>1, <3>1, ChainStep
    <3>3. <<p>> \o <<>> = Append(<<>>, p)
      OBVIOUS
    <3> QED BY <1>5, <2>1, <3>2, <3>3
  <2>2. CASE head # NULL
    <3>1. next_blocked' = Appended(next_blocked, last, p)
      BY <1>4, <2>2
    <3>2. p \in Proc \ B /\ last \in B
      BY <1>3, <2>2 DEF B
    <3>3. next_blocked \in Links /\ B \in SUBSET Proc
          /\ ListHolds(next_blocked, head, last, B)
      BY <1>1
    <3>4. ChainOf(Appended(next_blocked, last, p), head)
            = Append(ChainOf(next_blocked, head), p)
      BY ONLY Acyclic(next_blocked), <3>2, <3>3, ChainAppends
    <3> QED BY <1>5, <2>2, <3>1, <3>4
  <2> QED BY <2>1, <2>2
<1>8. list \in Seq(B) /\ list \in Seq(Proc)
  <2>1. list \in Seq(B)
    BY <1>1, ChainStaysInside
  <2>2. list \in Seq(Proc)
    BY <1>1, ChainIsSequence DEF ProcOrNull
  <2> QED BY <2>1, <2>2
<1>9. \A s \in B : /\ param_data'[s] = param_data[s]
                   /\ rq'.state[s] = "SEND_BLOCKED" <=> rq.state[s] = "SEND_BLOCKED"
  BY <1>1, <1>2 DEF B
<1> HIDE DEF list
<1>11. Messages(list, param_data', rq'.state) = Messages(list, param_data, rq.state)
  <2>1. list \in Seq(B)
    BY <1>8
  <2> QED BY ONLY <1>9, <2>1, SameMessagesRead
<1>12. Queue(po) = Messages(list, param_data, rq.state)
  BY QueueIsQueueIn DEF QueueIn, list, head
<1>13. Queue(po)' = Messages(Append(list, p), param_data', rq'.state)
  BY <1>7, NextQueueIsQueueIn DEF QueueIn
<1>14. Messages(Append(list, p), param_data', rq'.state)
         = Append(Messages(list, param_data', rq'.state),
                  MessageIn(p, param_data', rq'.state))
  BY <1>8, MessagesAppend
<1> QED BY <1>6, <1>11, <1>12, <1>13, <1>14

(* The first sender leaves its queue. *)
LEMMA QueueTakes ==
  ASSUME IInv, Acyclic(next_blocked), NEW po \in Port, NEW d \in Proc,
         d = port[po].blocked_list_head,
         port'[po].blocked_list_head = next_blocked[d],
         next_blocked' = next_blocked, param_data' = param_data,
         \A s \in Proc \ {d} : rq'.state[s] = rq.state[s]
  PROVE  /\ Queue(po) # <<>>
         /\ Head(Queue(po)) = MessageOf(d)
         /\ Queue(po)' = Tail(Queue(po))
<1> DEFINE B == BlockedOn(po)
           n == next_blocked[d]
           rest == ChainOf(next_blocked, n)
<1>1. /\ next_blocked \in Links /\ B \in SUBSET Proc /\ B # {}
      /\ ListHolds(next_blocked, d, port[po].blocked_list_tail, B)
  <2>1. NULL \notin Proc
    BY SizesAssumption, NullAssumption DEF Proc
  <2> QED BY <2>1, PortList
<1>2. ListHolds(next_blocked, n, IF n = NULL THEN NULL ELSE port[po].blocked_list_tail,
                B \ {d})
  <2> HIDE DEF B
  <2> QED BY <1>1, TakeKeepsList
<1>3. ClosedUnder(next_blocked, B \ {d}) /\ n \in (B \ {d}) \cup {NULL}
  <2>1. B \ {d} \in SUBSET Proc
    BY <1>1
  <2> HIDE DEF n, B
  <2> QED BY <1>2, <2>1, ListClosed
<1> HIDE DEF B, n
<1>4. rest \in Seq(B \ {d}) /\ rest \in Seq(Proc)
  <2>1. B \ {d} \in SUBSET Proc
    BY <1>1
  <2>2. rest \in Seq(B \ {d})
    BY <1>1, <1>3, <2>1, ChainStaysInside
  <2>3. rest \in Seq(Proc)
    BY <1>1, <1>3, ChainIsSequence DEF ProcOrNull
  <2> QED BY <2>2, <2>3
<1>5. ChainOf(next_blocked, d) = <<d>> \o rest
  BY <1>1, ChainStep DEF n
<1>6. \A s \in B \ {d} : /\ param_data'[s] = param_data[s]
                 /\ rq'.state[s] = "SEND_BLOCKED" <=> rq.state[s] = "SEND_BLOCKED"
  BY <1>1
<1> HIDE DEF rest
<1>7. Queue(po) = Messages(<<d>> \o rest, param_data, rq.state)
  BY <1>5, QueueIsQueueIn DEF QueueIn
<1>8. Queue(po)' = Messages(rest, param_data', rq'.state)
  BY NextQueueIsQueueIn DEF QueueIn, rest, n
<1>9. Messages(rest, param_data', rq'.state) = Messages(rest, param_data, rq.state)
  BY <1>4, <1>6, SameMessagesRead
<1>10. MessageOf(d) = MessageIn(d, param_data, rq.state)
  BY DEF MessageOf, MessageIn
<1> QED BY <1>4, <1>7, <1>8, <1>9, <1>10, MessagesEnds

(* A queue is empty if nobody is in the list. *)
LEMMA QueueIsEmpty ==
  ASSUME NEW po, port[po].blocked_list_head = NULL
  PROVE  Queue(po) = <<>>
BY QueueIsQueueIn, NoMessages DEF QueueIn, ChainOf

-----------------------------------------------------------------------------
(* The invariant of the refinement, beside that of the kernel *)

(* A receiver that has been woken was given the message of a process. *)
SenderInHand == \A p \in Proc : HasMessage(p) => param_proc[p] \in Proc

(* What a receive() has returned is seen for one step, that of its caller. *)
ResultIsOfTheRunning == \A p \in Proc : received[p] # NULL => p = active_proc

RInv == /\ Acyclic(next_blocked)
        /\ SenderInHand
        /\ ResultIsOfTheRunning

LEMMA AddState ==
  ASSUME NEW q, "state" \in DOMAIN q, NEW p
  PROVE  /\ "state" \in DOMAIN add_ready_queue(q, p)
         /\ add_ready_queue(q, p).state = [q.state EXCEPT ![p] = "READY"]
<1>1. CASE q.ready_queue[q.priority[p]] = NULL
  BY <1>1 DEF add_ready_queue
<1>2. CASE q.ready_queue[q.priority[p]] # NULL
  BY <1>2 DEF add_ready_queue
<1> QED BY <1>1, <1>2

LEMMA RemoveState ==
  ASSUME NEW q, "state" \in DOMAIN q, NEW p
  PROVE  /\ "state" \in DOMAIN remove_ready_queue(q, p)
         /\ remove_ready_queue(q, p).state = q.state
<1>1. CASE q.next[p] = p
  BY <1>1 DEF remove_ready_queue
<1>2. CASE q.next[p] # p
  BY <1>2 DEF remove_ready_queue
<1> QED BY <1>1, <1>2

LEMMA SetState ==
  ASSUME NEW q, "state" \in DOMAIN q, NEW p, NEW S
  PROVE  /\ "state" \in DOMAIN [q EXCEPT !.state[p] = S]
         /\ [q EXCEPT !.state[p] = S].state = [q.state EXCEPT ![p] = S]
OBVIOUS

(* A process stays in the same relation to its messages if it stays in the *)
(* same state, or goes from one to another in which it has none.           *)
AtEase == {"READY", "ZOMBIE", "INTR_BLOCKED"}
SameStanding(p) ==
  /\ pc'[p] = "receive" <=> pc[p] = "receive"
  /\ \/ rq'.state[p] = rq.state[p]
     \/ pc[p] # "receive" /\ rq.state[p] \in AtEase /\ rq'.state[p] \in AtEase

LEMMA StatusFrame ==
  ASSUME NEW p \in Proc, SameStanding(p)
  PROVE  /\ Waiting(p)' = Waiting(p)
         /\ HasMessage(p)' <=> HasMessage(p)
BY DEF SameStanding, Waiting, HasMessage, AtEase

LEMMA InboxFrame ==
  ASSUME SenderInHand, NEW p \in Proc, HasMessage(p)' <=> HasMessage(p),
         HasMessage(p) => /\ param_proc'[p] = param_proc[p]
                          /\ param_data'[p] = param_data[p]
                          /\ \A s \in Proc :
                               (rq'.state[s] = "REPLY_BLOCKED" /\ waits_on'[s] \in Own(p)')
                                 <=> (rq.state[s] = "REPLY_BLOCKED" /\ waits_on[s] \in Own(p))
  PROVE  Inbox(p)' = Inbox(p)
<1>1. CASE HasMessage(p)
  <2>1. param_proc[p] \in Proc
    BY <1>1 DEF SenderInHand
  <2>2. (rq'.state[param_proc[p]] = "REPLY_BLOCKED" /\ waits_on'[param_proc[p]] \in Own(p)')
          = (rq.state[param_proc[p]] = "REPLY_BLOCKED" /\ waits_on[param_proc[p]] \in Own(p))
    BY <1>1, <2>1
  <2> QED BY <1>1, <2>2 DEF Inbox
<1>2. CASE ~HasMessage(p)
  BY <1>2 DEF Inbox
<1> QED BY <1>1, <1>2

(* A step in which nobody's messages move. *)
LEMMA SameView ==
  ASSUME IInv, RInv, UNCHANGED <<param_proc, param_data, next_blocked, waits_on>>,
         \A po \in Port : port'[po].blocked_list_head = port[po].blocked_list_head,
         \A p \in Proc : SameStanding(p),
         \A p, s \in Proc : waits_on[s] \in Own(p)' <=> waits_on[s] \in Own(p)
  PROVE  /\ Queues' = Queues /\ Statuses' = Statuses /\ Inboxes' = Inboxes
         /\ Acyclic(next_blocked') /\ SenderInHand'
<1>1. Acyclic(next_blocked)' /\ next_blocked' \in Links
  BY DEF RInv, IInv, GTypeOK, TypeOK, Links, Acyclic
<1>2. ASSUME NEW po \in Port PROVE Queue(po)' = Queue(po)
  <2>1. \A s \in BlockedOn(po) : rq'.state[s] = rq.state[s]
    BY DEF SameStanding, AtEase, BlockedOn
  <2> QED BY <1>1, <2>1, QueueFrame DEF RInv, Acyclic
<1>3. \A p \in Proc : Waiting(p)' = Waiting(p) /\ (HasMessage(p)' <=> HasMessage(p))
  BY StatusFrame
<1>4. ASSUME NEW p \in Proc PROVE Inbox(p)' = Inbox(p)
  <2>1. \A s \in Proc : rq'.state[s] = "REPLY_BLOCKED" <=> rq.state[s] = "REPLY_BLOCKED"
    BY DEF SameStanding, AtEase
  <2> QED BY <1>3, <2>1, InboxFrame DEF RInv
<1>5. SenderInHand'
  BY <1>3 DEF SenderInHand, RInv
<1> QED BY <1>1, <1>2, <1>3, <1>4, <1>5 DEF Queues, Statuses, Inboxes, Acyclic

LEMMA Forgets ==
  ASSUME IInv, RInv,
         UNCHANGED <<param_proc, param_data, next_blocked, port, waits_on, clients>>,
         \A p \in Proc : SameStanding(p),
         received' = [p \in Proc |-> NULL]
  PROVE  Abstract!Next /\ RInv'
<1>1. /\ Queues' = Queues /\ Statuses' = Statuses /\ Inboxes' = Inboxes
      /\ Acyclic(next_blocked') /\ SenderInHand'
  BY SameView DEF Own
<1>2. Owners' = Owners /\ Opened' = Opened
  BY DEF Owners, Opened
<1>3. RInv'
  BY <1>1 DEF RInv, ResultIsOfTheRunning, Acyclic
<1>4. Abstract!Forget
  BY <1>1, <1>2 DEF Abstract!Forget, Abstract!NoResult
<1> QED BY <1>3, <1>4 DEF Abstract!Next

LEMMA NothingIsHeld ==
  ASSUME ~KeepsResults, NoResult PROVE received' = [p \in Proc |-> NULL]
BY DEF NoResult

LEMMA Typed ==
  ASSUME IInv
  PROVE  /\ "state" \in DOMAIN rq /\ rq.state \in [Proc -> States]
         /\ pc \in [Proc -> Labels]
         /\ \A p \in Proc : rq.state[p] \in StatesAt(pc[p])
BY DEF IInv, GTypeOK, TypeOK, QueueRecord, LabelsMatchStates

LEMMA StutterForgets ==
  ASSUME IInv, RInv, ~KeepsResults, NoResult,
         UNCHANGED <<rq, pc, param_proc, param_data, next_blocked, port,
                     waits_on, clients>>
  PROVE  Abstract!Next /\ RInv'
<1>1. \A p \in Proc : SameStanding(p)
  BY DEF SameStanding
<1> QED BY <1>1, Forgets, NothingIsHeld

LEMMA PanicForgets ==
  ASSUME IInv, RInv, ~KeepsResults, NEW msg, Panic(msg), Unchanged
  PROVE  Abstract!Next /\ RInv'
BY StutterForgets DEF Panic, Unchanged, schedVars, ipcVars, clientVars

(* The dispatcher alone. *)
LEMMA DispatchForgets ==
  ASSUME IInv, RInv, ~KeepsResults, NEW d \in Proc,
         rq.state[d] \in AtEase /\ pc[d] # "receive",
         rq' \in {rq, add_ready_queue(rq, d)}, UNCHANGED <<ipcVars, pc>>, Unchanged
  PROVE  Abstract!Next /\ RInv'
<1>1. "state" \in DOMAIN rq /\ rq.state \in [Proc -> States]
  BY Typed
<1>2. rq'.state = rq.state \/ rq'.state = [rq.state EXCEPT ![d] = "READY"]
  BY <1>1, AddState
<1>3. \A p \in Proc : SameStanding(p)
  BY <1>1, <1>2 DEF SameStanding, AtEase
<1> QED BY <1>3, Forgets, NothingIsHeld DEF Unchanged, ipcVars, clientVars

LEMMA InterruptForgets ==
  ASSUME IInv, RInv, ~KeepsResults, Interrupt
  PROVE  Abstract!Next /\ RInv'
<1>1. ASSUME NEW d, d \in Proc, rq.state[d] = "INTR_BLOCKED"
      PROVE  rq.state[d] \in AtEase /\ pc[d] # "receive"
  BY <1>1, Typed DEF AtEase, StatesAt
<1>2. interrupt_table \in [Irq -> ProcOrNull]
  BY DEF IInv, GTypeOK, TypeOK
<1>3. Boot \in Proc
  BY BootAndNull
<1>4. CASE IsrTimer
  <2> DEFINE d == interrupt_table[TIMER_IRQ]
  <2>1. d \in ProcOrNull
    BY <1>2 DEF Irq
  <2>2. CASE d # NULL /\ rq.state[d] = "INTR_BLOCKED"
    <3>1. d \in Proc /\ rq.state[d] \in AtEase /\ pc[d] # "receive"
      BY <1>1, <2>1, <2>2 DEF ProcOrNull
    <3>2. rq' = add_ready_queue(rq, d) /\ UNCHANGED <<ipcVars, pc>> /\ Unchanged
      BY <1>4, <2>2 DEF IsrTimer, isr_timer, resign
    <3> QED BY <3>1, <3>2, DispatchForgets
  <2>3. CASE ~(d # NULL /\ rq.state[d] = "INTR_BLOCKED")
    <3>1. rq' = rq /\ UNCHANGED <<ipcVars, pc>> /\ Unchanged
      BY <1>4, <2>3 DEF IsrTimer, isr_timer, resign
    <3> QED BY <3>1, StutterForgets DEF Unchanged, ipcVars, clientVars
  <2> QED BY <2>2, <2>3
<1>5. ASSUME NEW irq \in Irq, isr_device(irq), Unchanged
      PROVE  Abstract!Next /\ RInv'
  <2> DEFINE d == interrupt_table[irq]
  <2>1. d \in ProcOrNull
    BY <1>2
  <2>2. CASE d # NULL /\ rq.state[d] = "INTR_BLOCKED"
    <3>1. d \in Proc /\ rq.state[d] \in AtEase /\ pc[d] # "receive"
      BY <1>1, <2>1, <2>2 DEF ProcOrNull
    <3>2. rq' = add_ready_queue(rq, d) /\ UNCHANGED <<ipcVars, pc>> /\ Unchanged
      BY <1>5, <2>2 DEF isr_device, resign
    <3> QED BY <3>1, <3>2, DispatchForgets
  <2>3. CASE ~(d # NULL /\ rq.state[d] = "INTR_BLOCKED")
    BY <1>5, <2>3, PanicForgets DEF isr_device
  <2> QED BY <2>2, <2>3
<1> QED BY <1>4, <1>5 DEF Interrupt, IsrCom1, IsrKeyb, isr_com1, isr_keyb, Irq

(* The calls that have nothing to do with messages, and the process that   *)
(* makes them keeps its standing.                                          *)
LEMMA CallerForgets ==
  ASSUME IInv, RInv, ~KeepsResults, NEW p \in Programs,
         NEW l \in Labels \ {"receive"}, At(p, l),
         rq.state[p] \in AtEase,
         NEW S \in AtEase, NEW m, m # "receive",
         rq'.state \in {rq.state, [rq.state EXCEPT ![p] = S]},
         pc' \in {pc, [pc EXCEPT ![p] = m]},
         UNCHANGED ipcVars, Unchanged
  PROVE  Abstract!Next /\ RInv'
<1>1. rq.state \in [Proc -> States] /\ pc \in [Proc -> Labels] /\ pc[p] = l
  BY Typed DEF At
<1>2. \A r \in Proc : SameStanding(r)
  BY <1>1 DEF SameStanding
<1> QED BY <1>2, Forgets, NothingIsHeld DEF Unchanged, ipcVars, clientVars

LEMMA CreateProcessForgets ==
  ASSUME IInv, RInv, ~KeepsResults, NEW p \in Programs, CreateProcess(p)
  PROVE  Abstract!Next /\ RInv'
<1>1. PICK prio \in Priorities : create_process(p, prio)
  BY DEF CreateProcess
<1>2. Unchanged
  BY DEF CreateProcess
<1>3. CASE prio >= MAX_READY_QUEUES \/ next_free_pcb = NULL
  <2>0. prio >= MAX_READY_QUEUES => ~(prio < MAX_READY_QUEUES)
    BY ProgramsAssumption, SizesAssumption
  <2>1. Panic("create(): Bad priority") \/ Panic("create(): PCB full")
    BY <1>1, <1>3, <2>0, Zenon DEF create_process
  <2> QED BY <1>2, <2>1, PanicForgets
<1>4. CASE ~(prio >= MAX_READY_QUEUES \/ next_free_pcb = NULL)
  <2> DEFINE n == next_free_pcb
  <2>1. n \in Proc /\ pc[n] = "free"
    BY <1>4 DEF IInv, GTypeOK, TypeOK, ProcOrNull, FreeListIsFree, Proc
  <2>2. rq' = [rq EXCEPT !.state[n] = "READY", !.priority[n] = prio]
    BY <1>1, <1>4, Zenon DEF create_process
  <2>3. /\ pc' = [pc EXCEPT ![p] = "create_port", ![n] = "embryo"]
        /\ UNCHANGED ipcVars /\ pc[p] = "user"
    BY <1>1, <1>4, PanicForgets DEF create_process, At
  <2>4. /\ rq.state \in [Proc -> States] /\ pc \in [Proc -> Labels]
        /\ rq.state[n] = "READY"
    BY <2>1, Typed DEF StatesAt
  <2>5. rq'.state = [rq.state EXCEPT ![n] = "READY"]
    BY <2>2, Typed DEF IInv, GTypeOK, TypeOK, QueueRecord
  <2> HIDE DEF n
  <2>6. \A r \in Proc : SameStanding(r)
    BY <2>1, <2>3, <2>4, <2>5 DEF SameStanding
  <2> QED BY <1>2, <2>3, <2>6, Forgets, NothingIsHeld DEF Unchanged, ipcVars, clientVars
<1> QED BY <1>3, <1>4

LEMMA CreateProcessReadyForgets ==
  ASSUME IInv, RInv, ~KeepsResults, NEW p \in Programs, CreateProcessReady(p)
  PROVE  Abstract!Next /\ RInv'
<1> DEFINE n == new_proc[p]
<1>1. /\ pc[p] = "create_ready" /\ rq' = add_ready_queue(rq, n)
      /\ pc' = [pc EXCEPT ![p] = "user", ![n] = "user"]
      /\ UNCHANGED ipcVars /\ Unchanged
  BY DEF CreateProcessReady, create_process_ready, At
<1>2. n \in Proc /\ pc[n] = "embryo"
  BY <1>1 DEF IInv, EmbryosHaveOneCreator, Creating, Programs
<1>3. /\ rq.state \in [Proc -> States] /\ pc \in [Proc -> Labels]
      /\ rq.state[n] = "READY" /\ "state" \in DOMAIN rq
  BY <1>2, Typed DEF StatesAt
<1>4. rq'.state = [rq.state EXCEPT ![n] = "READY"]
  BY <1>1, <1>3, AddState
<1> HIDE DEF n
<1>5. \A r \in Proc : SameStanding(r)
  BY <1>1, <1>2, <1>3, <1>4 DEF SameStanding
<1> QED BY <1>1, <1>5, Forgets, NothingIsHeld DEF Unchanged, ipcVars, clientVars

LEMMA ResignForgets ==
  ASSUME IInv, RInv, ~KeepsResults, NEW p \in Programs, Resign(p)
  PROVE  Abstract!Next /\ RInv'
BY StutterForgets DEF Resign, resign_call, resign, Unchanged, ipcVars, clientVars

LEMMA ZombieForgets ==
  ASSUME IInv, RInv, ~KeepsResults, NEW p \in Programs,
         BecomeZombie(p) \/ ZombieRemove(p) \/ ZombieResign(p) \/ ZombieLoop(p)
  PROVE  Abstract!Next /\ RInv'
<1>1. "state" \in DOMAIN rq /\ \A r \in Proc : rq.state[r] \in StatesAt(pc[r])
  BY Typed
<1>2. p \in Proc
  BY DEF Programs
<1>3. "ZOMBIE" \in AtEase /\ "READY" \in AtEase
  BY DEF AtEase
<1>4. CASE BecomeZombie(p)
  <2>1. /\ At(p, "user") /\ Unchanged /\ UNCHANGED ipcVars
        /\ rq' = [rq EXCEPT !.state[p] = "ZOMBIE"]
        /\ pc' = [pc EXCEPT ![p] = "zombie_remove"]
    BY <1>4 DEF BecomeZombie, become_zombie, Goto
  <2>2. rq.state[p] = "READY"
    BY <2>1, CallerIsReady DEF Labels
  <2>3. rq'.state = [rq.state EXCEPT ![p] = "ZOMBIE"]
    BY <1>1, <2>1, SetState
  <2> QED BY <1>3, <2>1, <2>2, <2>3, CallerForgets DEF Labels
<1>5. CASE ZombieRemove(p)
  <2>1. /\ At(p, "zombie_remove") /\ Unchanged /\ UNCHANGED ipcVars
        /\ rq' = remove_ready_queue(rq, p)
        /\ pc' = [pc EXCEPT ![p] = "zombie_resign"]
    BY <1>5 DEF ZombieRemove, zombie_remove, Goto
  <2>2. rq.state[p] = "ZOMBIE"
    BY <1>1, <1>2, <2>1 DEF StatesAt, At
  <2>3. rq'.state = rq.state
    BY <1>1, <2>1, RemoveState
  <2> QED BY <1>3, <2>1, <2>2, <2>3, CallerForgets DEF Labels
<1>6. CASE ZombieResign(p)
  <2>1. /\ At(p, "zombie_resign") /\ Unchanged /\ UNCHANGED ipcVars
        /\ rq' = rq /\ pc' = [pc EXCEPT ![p] = "zombie_loop"]
    BY <1>6 DEF ZombieResign, zombie_resign, Goto, resign
  <2>2. rq.state[p] = "ZOMBIE"
    BY <1>1, <1>2, <2>1 DEF StatesAt, At
  <2> QED BY <1>3, <2>1, <2>2, CallerForgets DEF Labels
<1>7. CASE ZombieLoop(p)
  BY <1>7, StutterForgets
     DEF ZombieLoop, zombie_loop, vars, schedVars, ipcVars, Unchanged, clientVars
<1> QED BY <1>4, <1>5, <1>6, <1>7

LEMMA WaitForInterruptForgets ==
  ASSUME IInv, RInv, ~KeepsResults, NEW p \in Programs,
         WaitForInterrupt(p) \/ WaitForInterruptReturn(p)
  PROVE  Abstract!Next /\ RInv'
<1>1. "state" \in DOMAIN rq /\ \A r \in Proc : rq.state[r] \in StatesAt(pc[r])
  BY Typed
<1>2. p \in Proc
  BY DEF Programs
<1>3. CASE WaitForInterrupt(p)
  <2>1. PICK irq \in Irq : wait_for_interrupt(p, irq)
    BY <1>3 DEF WaitForInterrupt
  <2>2. Unchanged /\ At(p, "user")
    BY <1>3, <2>1 DEF WaitForInterrupt, wait_for_interrupt
  <2>3. CASE interrupt_table[irq] # NULL
    BY <2>1, <2>2, <2>3, PanicForgets DEF wait_for_interrupt
  <2>4. CASE interrupt_table[irq] = NULL
    <3>1. /\ rq' = [remove_ready_queue(rq, p) EXCEPT !.state[p] = "INTR_BLOCKED"]
          /\ pc' = [pc EXCEPT ![p] = "wait_for_interrupt"] /\ UNCHANGED ipcVars
      BY <2>1, <2>4 DEF wait_for_interrupt, Goto, resign
    <3>2. rq.state[p] = "READY"
      BY <2>2, CallerIsReady DEF Labels
    <3>3. rq'.state = [rq.state EXCEPT ![p] = "INTR_BLOCKED"]
      BY <1>1, <3>1, RemoveState, SetState
    <3>4. "INTR_BLOCKED" \in AtEase /\ rq.state[p] \in AtEase
      BY <3>2 DEF AtEase
    <3>5. "user" \in Labels \ {"receive"}
      BY DEF Labels
    <3>6. /\ rq'.state \in {rq.state, [rq.state EXCEPT ![p] = "INTR_BLOCKED"]}
          /\ pc' \in {pc, [pc EXCEPT ![p] = "wait_for_interrupt"]}
          /\ UNCHANGED ipcVars /\ Unchanged
      BY <2>2, <3>1, <3>3
    <3>7. "wait_for_interrupt" # "receive"
      OBVIOUS
    <3> QED BY <2>2, <3>4, <3>5, <3>6, <3>7, CallerForgets, Zenon
  <2> QED BY <2>3, <2>4
<1>4. CASE WaitForInterruptReturn(p)
  <2>1. /\ At(p, "wait_for_interrupt") /\ Unchanged /\ UNCHANGED ipcVars
        /\ rq' = rq /\ pc' = [pc EXCEPT ![p] = "user"]
    BY <1>4 DEF WaitForInterruptReturn, wait_for_interrupt_return, Goto, schedVars
  <2>2. rq.state[p] \in AtEase
    BY <1>1, <1>2, <2>1 DEF StatesAt, At, AtEase
  <2>3. "READY" \in AtEase /\ rq'.state = rq.state
    BY <2>1 DEF AtEase
  <2> QED BY <2>1, <2>2, <2>3, CallerForgets DEF Labels, CallLabels
<1> QED BY <1>3, <1>4

-----------------------------------------------------------------------------
(* Ports *)

LEMMA NewPortIsAbstract ==
  ASSUME IInv, RInv, NEW owner \in Proc, create_new_port(owner),
         UNCHANGED <<rq, param_proc, param_data, next_blocked, waits_on, clients>>,
         \A p \in Proc : pc'[p] = "receive" <=> pc[p] = "receive",
         received' = [p \in Proc |-> NULL]
  PROVE  Abstract!Next /\ RInv'
<1> DEFINE po == next_free_port
<1>1. po \in Port /\ po < MAX_PORTS
  BY PortsAssumption DEF create_new_port, IInv, GTypeOK, TypeOK, Port
<1>2. /\ port \in [Port -> [open : BOOLEAN, owner : ProcOrNull,
                        blocked_list_head : ProcOrNull,
                        blocked_list_tail : ProcOrNull]]
      /\ NULL \notin Proc /\ waits_on \in [Proc -> Port \cup {NULL}]
  BY SizesAssumption, NullAssumption DEF IInv, GTypeOK, TypeOK, Proc
<1>3. port[po].owner = NULL
  BY <1>1 DEF IInv, PortsHaveOwners, Port
<1>4. \A s \in Proc : waits_on[s] # po
  BY <1>1, <1>2, <1>3, NullAssumption DEF IInv, SendersKnowThePort, Programs, Port
<1>5. port[po].blocked_list_head = NULL
  <2>1. BlockedOn(po) = {}
    BY <1>4 DEF BlockedOn
  <2> QED BY <1>1, <2>1, PortList
<1>6. /\ \A x \in Port \ {po} : port'[x] = port[x]
      /\ port'[po].blocked_list_head = NULL
      /\ port'[po].open = TRUE /\ port'[po].owner = owner
  BY <1>1, <1>2 DEF create_new_port
<1> HIDE DEF po
<1>7. \A x \in Port : port'[x].blocked_list_head = port[x].blocked_list_head
  BY <1>5, <1>6
<1>8. \A p, s \in Proc : waits_on[s] \in Own(p)' <=> waits_on[s] \in Own(p)
  BY <1>4, <1>6 DEF Own
<1>9. /\ Queues' = Queues /\ Statuses' = Statuses /\ Inboxes' = Inboxes
      /\ Acyclic(next_blocked') /\ SenderInHand'
  <2>1. \A p \in Proc : SameStanding(p)
    BY DEF SameStanding
  <2> QED BY <1>7, <1>8, <2>1, SameView
<1>10. /\ Owners' = [Owners EXCEPT ![po] = owner]
       /\ Opened' = [Opened EXCEPT ![po] = TRUE]
       /\ Owners[po] = NULL
  BY <1>1, <1>3, <1>6 DEF Owners, Opened
<1>11. Abstract!CreatePort(po, owner)
  BY <1>9, <1>10 DEF Abstract!CreatePort, Abstract!NoResult
<1>12. RInv'
  BY <1>9 DEF RInv, ResultIsOfTheRunning, Acyclic
<1> QED BY <1>1, <1>11, <1>12 DEF Abstract!Next

LEMMA CreatePortIsAbstract ==
  ASSUME IInv, RInv, ~KeepsResults, NEW p \in Programs,
         CreatePort(p) \/ CreateProcessPort(p)
  PROVE  Abstract!Next /\ RInv'
<1>1. Unchanged
  BY DEF CreatePort, CreateProcessPort
<1>2. received' = [r \in Proc |-> NULL] /\ UNCHANGED <<waits_on, clients>>
  BY <1>1, NothingIsHeld DEF Unchanged, clientVars
<1>3. pc \in [Proc -> Labels] /\ p \in Proc
  BY Typed DEF Programs
<1>4. CASE PortFull
  BY <1>1, <1>4, PanicForgets DEF PortFull
<1>5. CASE CreatePort(p) /\ ~PortFull
  <2>1. /\ create_new_port(p)
        /\ UNCHANGED <<rq, param_proc, param_data, next_blocked, pc>>
    BY <1>5 DEF CreatePort, create_port, schedVars
  <2> QED BY <1>2, <1>3, <2>1, NewPortIsAbstract
<1>6. CASE CreateProcessPort(p) /\ ~PortFull
  <2>1. /\ create_new_port(new_proc[p]) /\ pc[p] = "create_port"
        /\ UNCHANGED <<rq, param_proc, param_data, next_blocked>>
        /\ pc' = [pc EXCEPT ![p] = "create_ready"]
    BY <1>6 DEF CreateProcessPort, create_process_port, schedVars, Goto, At
  <2>2. new_proc[p] \in Proc
    BY <1>3, <2>1 DEF IInv, EmbryosHaveOneCreator, Creating
  <2>3. \A r \in Proc : pc'[r] = "receive" <=> pc[r] = "receive"
    BY <1>3, <2>1
  <2> QED BY <1>2, <2>1, <2>2, <2>3, NewPortIsAbstract
<1> QED BY <1>4, <1>5, <1>6

LEMMA SetOpenIsAbstract ==
  ASSUME IInv, RInv, ~KeepsResults, NEW p \in Programs,
         OpenPort(p) \/ ClosePort(p)
  PROVE  Abstract!Next /\ RInv'
<1>1. PICK po \in Own(p), b \in BOOLEAN :
        /\ port' = [port EXCEPT ![po].open = b]
        /\ UNCHANGED <<rq, param_proc, param_data, next_blocked, pc>>
        /\ At(p, "user") /\ Unchanged
  BY DEF OpenPort, ClosePort, open_port, close_port, schedVars
<1>2. received' = [r \in Proc |-> NULL] /\ UNCHANGED <<waits_on, clients>>
  BY <1>1, NothingIsHeld DEF Unchanged, clientVars
<1>3. /\ po \in Port /\ port[po].owner = p /\ p \in Proc /\ p # NULL
      /\ port \in [Port -> [open : BOOLEAN, owner : ProcOrNull,
                        blocked_list_head : ProcOrNull,
                        blocked_list_tail : ProcOrNull]]
  BY SizesAssumption, NullAssumption DEF IInv, GTypeOK, TypeOK, Own, Programs, Proc
<1>4. rq.state[p] = "READY" /\ pc[p] = "user"
  BY <1>1, CallerIsReady DEF Labels
<1>5. /\ \A x \in Port : /\ port'[x].owner = port[x].owner
                         /\ port'[x].blocked_list_head = port[x].blocked_list_head
                         /\ port'[x].open = IF x = po THEN b ELSE port[x].open
  BY <1>1, <1>3
<1>6. /\ Queues' = Queues /\ Statuses' = Statuses /\ Inboxes' = Inboxes
      /\ Acyclic(next_blocked') /\ SenderInHand'
  <2>1. \A r \in Proc : SameStanding(r)
    BY <1>1 DEF SameStanding
  <2>2. \A r, s \in Proc : waits_on[s] \in Own(r)' <=> waits_on[s] \in Own(r)
    BY <1>5 DEF Own
  <2> QED BY <1>1, <1>2, <1>5, <2>1, <2>2, SameView
<1>7. /\ Owners' = Owners /\ Opened' = [Opened EXCEPT ![po] = b]
      /\ Owners[po] = p
  BY <1>3, <1>5 DEF Owners, Opened
<1>8. Statuses[p] = "idle"
  BY <1>3, <1>4 DEF Statuses, Waiting, HasMessage
<1>9. Abstract!SetOpen(po, b)
  BY <1>2, <1>3, <1>6, <1>7, <1>8 DEF Abstract!SetOpen, Abstract!NoResult
<1>10. RInv'
  BY <1>2, <1>6 DEF RInv, ResultIsOfTheRunning, Acyclic
<1> QED BY <1>3, <1>9, <1>10 DEF Abstract!Next

-----------------------------------------------------------------------------
(* Sending *)

(* A message into the hands of a waiting receiver. *)
LEMMA DeliveryIsAbstract ==
  ASSUME IInv, RInv, NEW p \in Programs, NEW po \in Known, NEW data \in Data,
         NEW wants \in BOOLEAN, NEW dest, dest = port[po].owner,
         At(p, "user"), CanDeliver(po),
         rq'.state[p] = IF wants THEN "REPLY_BLOCKED" ELSE "READY",
         rq'.state[dest] = "READY",
         \A x \in Proc \ {p, dest} : rq'.state[x] = rq.state[x],
         param_proc' = [param_proc EXCEPT ![dest] = p],
         param_data'[dest] = data,
         \A x \in Proc \ {p, dest} : param_data'[x] = param_data[x],
         wants => waits_on'[p] = po,
         \A x \in Proc \ {p} : waits_on'[x] = waits_on[x],
         UNCHANGED <<next_blocked, port, pc, clients>>,
         received' = [r \in Proc |-> NULL]
  PROVE  Abstract!Next /\ RInv'
<1>1. /\ pc[p] = "user" /\ rq.state[p] = "READY" /\ p \in Proc
  BY CallerIsReady DEF Labels
<1>2. /\ po \in Port /\ dest \in Proc /\ dest # NULL /\ port[po].open
      /\ rq.state[dest] = "RECEIVE_BLOCKED" /\ pc[dest] = "receive" /\ dest # p
  <2>1. /\ po \in Port /\ dest \in Proc /\ dest # NULL /\ port[po].open
        /\ rq.state[dest] = "RECEIVE_BLOCKED"
    BY SizesAssumption, NullAssumption DEF CanDeliver, Known, Programs, Proc
  <2>2. rq.state[dest] \in StatesAt(pc[dest]) /\ pc[dest] \in Labels
    BY <2>1, Typed
  <2> QED BY <1>1, <2>1, <2>2 DEF StatesAt, Labels, CallLabels
<1>3. /\ param_proc \in [Proc -> ProcOrNull]
      /\ next_blocked' \in Links /\ Acyclic(next_blocked')
      /\ Acyclic(next_blocked)
  BY DEF IInv, GTypeOK, TypeOK, Links, RInv, Acyclic
<1>4. Owners' = Owners /\ Opened' = Opened /\ Owners[po] = dest /\ Opened[po]
  BY <1>2 DEF Owners, Opened
<1>5. Queues' = Queues
  <2>1. ASSUME NEW x \in Port PROVE Queue(x)' = Queue(x)
    <3>1. \A s \in BlockedOn(x) : s \in Proc \ {p, dest}
      BY <1>1, <1>2 DEF BlockedOn
    <3> QED BY <1>3, <3>1, QueueFrame
  <2> QED BY <2>1 DEF Queues
<1>6. \A r \in Proc \ {p, dest} : /\ Waiting(r)' = Waiting(r)
                                  /\ HasMessage(r)' <=> HasMessage(r)
  BY StatusFrame DEF SameStanding
<1>7. /\ Waiting(p)' = (IF wants THEN "awaiting_reply" ELSE "idle")
      /\ Waiting(p) = "idle" /\ ~HasMessage(p) /\ ~HasMessage(p)'
  BY <1>1 DEF Waiting, HasMessage
<1>8. /\ Waiting(dest)' = "delivered" /\ Waiting(dest) = "receiving"
      /\ HasMessage(dest)'
  BY <1>2 DEF Waiting, HasMessage
<1>9. /\ Statuses' = [Statuses EXCEPT ![dest] = "delivered",
                             ![p] = IF wants THEN "awaiting_reply" ELSE "idle"]
      /\ Statuses[p] = "idle" /\ Statuses[dest] = "receiving"
  BY <1>1, <1>2, <1>6, <1>7, <1>8 DEF Statuses
<1>10. ASSUME NEW r \in Proc \ {dest} PROVE Inbox(r)' = Inbox(r)
  <2>1. HasMessage(r)' <=> HasMessage(r)
    BY <1>6, <1>7
  <2>2. ASSUME HasMessage(r)
        PROVE  /\ param_proc'[r] = param_proc[r] /\ param_data'[r] = param_data[r]
               /\ \A s \in Proc :
                    (rq'.state[s] = "REPLY_BLOCKED" /\ waits_on'[s] \in Own(r)')
                      <=> (rq.state[s] = "REPLY_BLOCKED" /\ waits_on[s] \in Own(r))
    <3>1. r # p
      BY <1>7, <2>2
    <3>2. param_proc'[r] = param_proc[r] /\ param_data'[r] = param_data[r]
      BY <1>3, <3>1
    <3>3. Own(r)' = Own(r) /\ po \notin Own(r)
      BY DEF Own
    <3>4. ASSUME NEW s \in Proc
          PROVE  (rq'.state[s] = "REPLY_BLOCKED" /\ waits_on'[s] \in Own(r)')
                   <=> (rq.state[s] = "REPLY_BLOCKED" /\ waits_on[s] \in Own(r))
      <4>1. CASE s = p
        BY <1>1, <3>3, <4>1
      <4>2. CASE s = dest
        BY <1>2, <4>2
      <4>3. CASE s \notin {p, dest}
        BY <3>3, <4>3
      <4> QED BY <4>1, <4>2, <4>3
    <3> QED BY <3>2, <3>4
  <2> QED BY <2>1, <2>2, InboxFrame DEF RInv
<1>11. Inbox(dest)' = [proc |-> p, data |-> data, wants_reply |-> wants]
  <2>1. param_proc'[dest] = p
    BY <1>2, <1>3
  <2>2. (rq'.state[p] = "REPLY_BLOCKED" /\ waits_on'[p] \in Own(dest)') = wants
    BY <1>2 DEF Own
  <2> QED BY <1>8, <2>1, <2>2 DEF Inbox
<1>12. Inboxes' = [Inboxes EXCEPT ![dest] = Abstract!Envelope(p, data, wants)]
  BY <1>2, <1>10, <1>11 DEF Inboxes, Abstract!Envelope
<1>13. Abstract!Give(p)
  <2> DEFINE m == Abstract!Envelope(p, data, wants)
  <2>1. m.proc = p /\ m.wants_reply = wants
    BY DEF Abstract!Envelope
  <2> HIDE DEF m
  <2>2. Abstract!HandOver(m, po)
    BY <1>4, <1>5, <1>9, <1>12, <2>1 DEF Abstract!HandOver, m
  <2> QED BY <1>2, <1>4, <1>9, <2>2 DEF Abstract!Give, Abstract!NoResult, m
<1>14. RInv'
  <2>1. SenderInHand'
    BY <1>1, <1>2, <1>3, <1>6, <1>7 DEF SenderInHand, RInv
  <2> QED BY <1>3, <2>1 DEF RInv, ResultIsOfTheRunning, Acyclic
<1> QED BY <1>1, <1>13, <1>14 DEF Abstract!Next

(* A message behind those that are in the queue of the port. *)
LEMMA QueueingIsAbstract ==
  ASSUME IInv, RInv, NEW p \in Programs, NEW po \in Known, NEW data \in Data,
         NEW S \in {"SEND_BLOCKED", "MESSAGE_BLOCKED"},
         At(p, "user"), ~CanDeliver(po), add_to_send_blocked_list(po, p),
         rq'.state = [rq.state EXCEPT ![p] = S],
         param_data' = [param_data EXCEPT ![p] = data],
         \A x \in Proc \ {p} : waits_on'[x] = waits_on[x],
         UNCHANGED <<pc, clients>>,
         received' = [r \in Proc |-> NULL]
  PROVE  Abstract!Next /\ RInv'
<1> DEFINE wants == S = "SEND_BLOCKED"
           m == Abstract!Envelope(p, data, wants)
<1>1. /\ pc[p] = "user" /\ rq.state[p] = "READY" /\ p \in Proc
      /\ p \in Queued
  BY CallerIsReady DEF Labels
<1>2. /\ po \in Port /\ port[po].owner \in Proc /\ port[po].owner # NULL
      /\ NULL \notin Proc
  BY SizesAssumption, NullAssumption DEF Known, Programs, Proc
<1>3. /\ rq.state \in [Proc -> States] /\ param_data \in [Proc -> Data \cup {NULL}]
      /\ port \in [Port -> [open : BOOLEAN, owner : ProcOrNull,
                        blocked_list_head : ProcOrNull,
                        blocked_list_tail : ProcOrNull]]
      /\ next_blocked \in Links /\ Acyclic(next_blocked)
  BY Typed DEF IInv, GTypeOK, TypeOK, RInv, Links
<1>4. /\ rq'.state[p] = S
      /\ \A x \in Proc \ {p} : rq'.state[x] = rq.state[x]
      /\ \A x \in Proc \ {p} : param_data'[x] = param_data[x]
  BY <1>1, <1>3
<1>5. \A x \in Port : p \notin BlockedOn(x)
  BY <1>1 DEF BlockedOn
<1>6. /\ next_blocked' \in Links /\ Acyclic(next_blocked')
      /\ Queue(po)' = Append(Queue(po), m)
  <2>1. p \notin BlockedOn(po) /\ S \in States
    BY <1>2, <1>5 DEF States
  <2>2. m = MessageIn(p, param_data', rq'.state)
    BY <1>1, <1>3, <1>4 DEF Abstract!Envelope, MessageIn
  <2> HIDE DEF m
  <2>3. /\ IInv /\ Acyclic(next_blocked) /\ po \in Port /\ p \in Proc
        /\ p \notin BlockedOn(po) /\ S \in States
        /\ add_to_send_blocked_list(po, p)
        /\ param_data' = [param_data EXCEPT ![p] = data]
        /\ rq'.state = [rq.state EXCEPT ![p] = S]
    BY <1>1, <1>2, <1>3, <2>1
  <2>4. /\ next_blocked' \in Links /\ Acyclic(next_blocked')
        /\ Queue(po)' = Append(Queue(po), MessageIn(p, param_data', rq'.state))
    BY ONLY <2>3, QueueAppends, Zenon
  <2> QED BY <2>2, <2>4
<1>7. /\ \A x \in Port : /\ port'[x].owner = port[x].owner
                         /\ port'[x].open = port[x].open
      /\ \A x \in Port \ {po} : port'[x] = port[x]
      /\ param_proc' = param_proc
  BY <1>2, <1>3 DEF add_to_send_blocked_list
<1>8. ASSUME NEW x \in Port \ {po} PROVE Queue(x)' = Queue(x)
  <2>1. /\ \A s \in BlockedOn(x) : s \in Proc \ {p} /\ s \notin BlockedOn(po)
    BY <1>5 DEF BlockedOn
  <2>2. /\ ListHolds(next_blocked, port[po].blocked_list_head,
                     port[po].blocked_list_tail, BlockedOn(po))
        /\ port[po].blocked_list_head = NULL <=> BlockedOn(po) = {}
    BY <1>2, PortList
  <2>3. port[po].blocked_list_head # NULL => port[po].blocked_list_tail \in BlockedOn(po)
    BY <2>2 DEF ListHolds
  <2>4. \A s \in BlockedOn(x) : next_blocked'[s] = next_blocked[s]
    BY <1>3, <2>1, <2>3 DEF add_to_send_blocked_list, Links
  <2>5. port'[x].blocked_list_head = port[x].blocked_list_head
    BY <1>7
  <2> QED BY <1>3, <1>4, <1>6, <2>1, <2>4, <2>5, QueueFrame
<1> HIDE DEF m, wants
<1>9. Queues' = [Queues EXCEPT ![po] = Append(@, m)]
  BY <1>2, <1>6, <1>8 DEF Queues
<1>10. Owners' = Owners /\ Opened' = Opened
  BY <1>7 DEF Owners, Opened
<1>11. \A r \in Proc \ {p} : /\ Waiting(r)' = Waiting(r)
                             /\ HasMessage(r)' <=> HasMessage(r)
  BY <1>4, StatusFrame DEF SameStanding
<1>12. /\ Waiting(p)' = "queued" /\ Waiting(p) = "idle"
       /\ ~HasMessage(p) /\ ~HasMessage(p)'
  BY <1>1, <1>4 DEF Waiting, HasMessage
<1>13. Statuses' = [Statuses EXCEPT ![p] = "queued"] /\ Statuses[p] = "idle"
  BY <1>1, <1>11, <1>12 DEF Statuses
<1>14. ASSUME NEW r \in Proc PROVE Inbox(r)' = Inbox(r)
  <2>1. HasMessage(r)' <=> HasMessage(r)
    BY <1>11, <1>12
  <2>2. HasMessage(r) => r # p
    BY <1>12
  <2>3. HasMessage(r) => param_data'[r] = param_data[r] /\ param_proc'[r] = param_proc[r]
    BY <1>4, <1>7, <2>2
  <2>4. ASSUME NEW s \in Proc
        PROVE  (rq'.state[s] = "REPLY_BLOCKED" /\ waits_on'[s] \in Own(r)')
                 <=> (rq.state[s] = "REPLY_BLOCKED" /\ waits_on[s] \in Own(r))
    <3>1. CASE s = p
      BY <1>1, <1>4, <3>1
    <3>2. CASE s # p
      BY <1>4, <1>7, <3>2 DEF Own
    <3> QED BY <3>1, <3>2
  <2> QED BY <2>1, <2>3, <2>4, InboxFrame DEF RInv
<1>15. Inboxes' = Inboxes
  BY <1>14 DEF Inboxes
<1>16. /\ Owners[po] # NULL
       /\ ~(Owners[po] # NULL /\ Opened[po] /\ Statuses[Owners[po]] = "receiving")
  <2>1. Owners[po] = port[po].owner /\ Opened[po] = port[po].open
    BY <1>2 DEF Owners, Opened
  <2>2. Statuses[port[po].owner] = "receiving" => rq.state[port[po].owner] = "RECEIVE_BLOCKED"
    BY <1>2 DEF Statuses, Waiting
  <2> QED BY <1>2, <2>1, <2>2 DEF CanDeliver
<1>17. Abstract!Give(p)
  <2>1. m.proc = p
    BY DEF m, Abstract!Envelope
  <2>2. Abstract!Enqueue(m, po)
    BY <1>9, <1>13, <1>15, <2>1 DEF Abstract!Enqueue
  <2>3. wants \in BOOLEAN
    BY DEF wants
  <2> QED BY <1>2, <1>10, <1>13, <1>16, <2>2, <2>3
          DEF Abstract!Give, Abstract!NoResult, m
<1>18. RInv'
  <2>1. SenderInHand'
    BY <1>7, <1>11, <1>12 DEF SenderInHand, RInv
  <2> QED BY <1>6, <2>1 DEF RInv, ResultIsOfTheRunning, Acyclic
<1> QED BY <1>1, <1>17, <1>18 DEF Abstract!Next

LEMMA SendIsAbstract ==
  ASSUME IInv, RInv, ~KeepsResults, NEW p \in Programs, Send(p)
  PROVE  Abstract!Next /\ RInv'
<1>1. PICK po \in Known, data \in Payload[p] :
        /\ send(p, po, data) /\ WaitsOn(p, po) /\ NoResult /\ UNCHANGED clients
  BY DEF Send
<1>2. data \in Data /\ At(p, "user") /\ received' = [r \in Proc |-> NULL]
  BY <1>1, ProgramsAssumption, NothingIsHeld DEF send, Programs
<1>3. /\ p \in Proc /\ rq.state[p] = "READY" /\ "state" \in DOMAIN rq
      /\ rq.state \in [Proc -> States]
      /\ param_data \in [Proc -> Data \cup {NULL}]
      /\ waits_on \in [Proc -> Port \cup {NULL}]
  <2>1. p \in Proc /\ rq.state[p] = "READY"
    BY <1>2, CallerIsReady DEF Labels
  <2>2. "state" \in DOMAIN rq /\ rq.state \in [Proc -> States]
    BY Typed
  <2> QED BY <2>1, <2>2 DEF IInv, GTypeOK, TypeOK
<1>4. /\ UNCHANGED pc
      /\ \A x \in Proc \ {p} : waits_on'[x] = waits_on[x]
  BY <1>1, <1>3 DEF send, WaitsOn
<1>5. CASE CanDeliver(po)
  <2>0. PICK dest, wants : dest = port[po].owner /\ wants = TRUE
    OBVIOUS
  <2> DEFINE q1 == [rq EXCEPT !.state[p] = "REPLY_BLOCKED"]
             q2 == add_ready_queue(q1, dest)
  <2>1. /\ rq' = remove_ready_queue(q2, p)
        /\ param_proc' = [param_proc EXCEPT ![dest] = p]
        /\ param_data' = [param_data EXCEPT ![dest] = data, ![p] = data]
        /\ UNCHANGED <<next_blocked, port>>
    BY <1>1, <1>5, <2>0 DEF send, Deliver, resign
  <2>2. dest \in Proc /\ rq.state[dest] = "RECEIVE_BLOCKED"
    BY <1>5, <2>0 DEF CanDeliver, Known, Programs
  <2>3. "state" \in DOMAIN q1 /\ q1.state = [rq.state EXCEPT ![p] = "REPLY_BLOCKED"]
    BY <1>3, SetState
  <2> HIDE DEF q1
  <2>4. "state" \in DOMAIN q2 /\ q2.state = [q1.state EXCEPT ![dest] = "READY"]
    BY <2>3, AddState
  <2> HIDE DEF q2
  <2>5. rq'.state = q2.state
    BY <2>1, <2>4, RemoveState
  <2>6. /\ rq'.state[p] = "REPLY_BLOCKED" /\ rq'.state[dest] = "READY"
        /\ \A x \in Proc \ {p, dest} : rq'.state[x] = rq.state[x]
    BY <1>3, <2>2, <2>3, <2>4, <2>5
  <2>7. waits_on'[p] = po
    BY <1>1, <1>3, <2>6 DEF WaitsOn, SendStates
  <2>8. /\ param_data'[dest] = data
        /\ \A x \in Proc \ {p, dest} : param_data'[x] = param_data[x]
    BY <1>3, <2>1, <2>2
  <2>9. dest = port[po].owner /\ wants \in BOOLEAN
    BY <2>0
  <2>10. rq'.state[p] = IF wants THEN "REPLY_BLOCKED" ELSE "READY"
    BY <2>0, <2>6
  <2>11. /\ UNCHANGED <<next_blocked, port, pc, clients>>
         /\ wants => waits_on'[p] = po
         /\ \A x \in Proc \ {p} : waits_on'[x] = waits_on[x]
    BY <1>1, <1>4, <2>1, <2>7
  <2>12. /\ IInv /\ RInv /\ p \in Programs /\ po \in Known /\ data \in Data
         /\ wants \in BOOLEAN /\ dest = port[po].owner
         /\ At(p, "user") /\ CanDeliver(po)
         /\ rq'.state[p] = IF wants THEN "REPLY_BLOCKED" ELSE "READY"
         /\ rq'.state[dest] = "READY"
         /\ \A x \in Proc \ {p, dest} : rq'.state[x] = rq.state[x]
         /\ param_proc' = [param_proc EXCEPT ![dest] = p]
         /\ param_data'[dest] = data
         /\ \A x \in Proc \ {p, dest} : param_data'[x] = param_data[x]
         /\ wants => waits_on'[p] = po
         /\ \A x \in Proc \ {p} : waits_on'[x] = waits_on[x]
         /\ UNCHANGED <<next_blocked, port, pc, clients>>
         /\ received' = [r \in Proc |-> NULL]
    BY <1>2, <1>5, <2>1, <2>6, <2>8, <2>9, <2>10, <2>11
  <2> QED BY ONLY <2>12, DeliveryIsAbstract, Zenon
<1>6. CASE ~CanDeliver(po)
  <2>1. /\ add_to_send_blocked_list(po, p)
        /\ param_data' = [param_data EXCEPT ![p] = data]
        /\ rq' = remove_ready_queue([rq EXCEPT !.state[p] = "SEND_BLOCKED"], p)
    BY <1>1, <1>6 DEF send, resign
  <2>2. rq'.state = [rq.state EXCEPT ![p] = "SEND_BLOCKED"]
    BY <1>3, <2>1, SetState, RemoveState
  <2>3. "SEND_BLOCKED" \in {"SEND_BLOCKED", "MESSAGE_BLOCKED"}
    OBVIOUS
  <2>4. /\ UNCHANGED <<pc, clients>>
        /\ \A x \in Proc \ {p} : waits_on'[x] = waits_on[x]
    BY <1>1, <1>4
  <2> QED BY ONLY IInv, RInv, p \in Programs, po \in Known, <1>2, <1>6, <2>1, <2>2,
             <2>3, <2>4, QueueingIsAbstract, Zenon
<1> QED BY <1>5, <1>6

LEMMA MessageIsAbstract ==
  ASSUME IInv, RInv, ~KeepsResults, NEW p \in Programs, Message(p)
  PROVE  Abstract!Next /\ RInv'
<1>1. PICK po \in Known, data \in Payload[p] :
        /\ message(p, po, data) /\ WaitsOn(p, po) /\ NoResult /\ UNCHANGED clients
  BY DEF Message
<1>2. data \in Data /\ At(p, "user") /\ received' = [r \in Proc |-> NULL]
  BY <1>1, ProgramsAssumption, NothingIsHeld DEF message, Programs
<1>3. /\ p \in Proc /\ rq.state[p] = "READY" /\ "state" \in DOMAIN rq
      /\ rq.state \in [Proc -> States]
      /\ param_data \in [Proc -> Data \cup {NULL}]
      /\ waits_on \in [Proc -> Port \cup {NULL}]
  <2>1. p \in Proc /\ rq.state[p] = "READY"
    BY <1>2, CallerIsReady DEF Labels
  <2>2. "state" \in DOMAIN rq /\ rq.state \in [Proc -> States]
    BY Typed
  <2> QED BY <2>1, <2>2 DEF IInv, GTypeOK, TypeOK
<1>4. /\ UNCHANGED pc
      /\ \A x \in Proc \ {p} : waits_on'[x] = waits_on[x]
  BY <1>1, <1>3 DEF message, WaitsOn
<1>5. CASE CanDeliver(po)
  <2>0. PICK dest, wants : dest = port[po].owner /\ wants = FALSE
    OBVIOUS
  <2>1. /\ rq' = add_ready_queue(rq, dest)
        /\ param_proc' = [param_proc EXCEPT ![dest] = p]
        /\ param_data' = [param_data EXCEPT ![dest] = data]
        /\ UNCHANGED <<next_blocked, port>>
    BY <1>1, <1>5, <2>0 DEF message, Deliver, resign
  <2>2. dest \in Proc /\ rq.state[dest] = "RECEIVE_BLOCKED" /\ dest # p
    BY <1>3, <1>5, <2>0 DEF CanDeliver, Known, Programs
  <2>3. rq'.state = [rq.state EXCEPT ![dest] = "READY"]
    BY <1>3, <2>1, AddState
  <2>4. /\ rq'.state[p] = "READY" /\ rq'.state[dest] = "READY"
        /\ \A x \in Proc \ {p, dest} : rq'.state[x] = rq.state[x]
    BY <1>3, <2>2, <2>3
  <2>5. /\ param_data'[dest] = data
        /\ \A x \in Proc \ {p, dest} : param_data'[x] = param_data[x]
    BY <1>3, <2>1, <2>2
  <2>6. dest = port[po].owner /\ wants \in BOOLEAN
    BY <2>0
  <2>7. rq'.state[p] = IF wants THEN "REPLY_BLOCKED" ELSE "READY"
    BY <2>0, <2>4
  <2>8. /\ UNCHANGED <<next_blocked, port, pc, clients>>
        /\ wants => waits_on'[p] = po
        /\ \A x \in Proc \ {p} : waits_on'[x] = waits_on[x]
    BY <1>1, <1>4, <2>0, <2>1
  <2>9. /\ IInv /\ RInv /\ p \in Programs /\ po \in Known /\ data \in Data
        /\ wants \in BOOLEAN /\ dest = port[po].owner
        /\ At(p, "user") /\ CanDeliver(po)
        /\ rq'.state[p] = IF wants THEN "REPLY_BLOCKED" ELSE "READY"
        /\ rq'.state[dest] = "READY"
        /\ \A x \in Proc \ {p, dest} : rq'.state[x] = rq.state[x]
        /\ param_proc' = [param_proc EXCEPT ![dest] = p]
        /\ param_data'[dest] = data
        /\ \A x \in Proc \ {p, dest} : param_data'[x] = param_data[x]
        /\ wants => waits_on'[p] = po
        /\ \A x \in Proc \ {p} : waits_on'[x] = waits_on[x]
        /\ UNCHANGED <<next_blocked, port, pc, clients>>
        /\ received' = [r \in Proc |-> NULL]
    BY <1>2, <1>5, <2>1, <2>4, <2>5, <2>6, <2>7, <2>8
  <2> QED BY ONLY <2>9, DeliveryIsAbstract, Zenon
<1>6. CASE ~CanDeliver(po)
  <2>1. /\ add_to_send_blocked_list(po, p)
        /\ param_data' = [param_data EXCEPT ![p] = data]
        /\ rq' = [remove_ready_queue(rq, p) EXCEPT !.state[p] = "MESSAGE_BLOCKED"]
    BY <1>1, <1>6 DEF message, resign
  <2>2. rq'.state = [rq.state EXCEPT ![p] = "MESSAGE_BLOCKED"]
    BY <1>3, <2>1, SetState, RemoveState
  <2>3. "MESSAGE_BLOCKED" \in {"SEND_BLOCKED", "MESSAGE_BLOCKED"}
    OBVIOUS
  <2>4. /\ UNCHANGED <<pc, clients>>
        /\ \A x \in Proc \ {p} : waits_on'[x] = waits_on[x]
    BY <1>1, <1>4
  <2> QED BY ONLY IInv, RInv, p \in Programs, po \in Known, <1>2, <1>6, <2>1, <2>2,
             <2>3, <2>4, QueueingIsAbstract, Zenon
<1> QED BY <1>5, <1>6

-----------------------------------------------------------------------------
(* Receiving *)

LEMMA TakeIsAbstract ==
  ASSUME IInv, RInv, NEW p \in Programs, Receive(p), receive_pending(p),
         ports[p] # <<>>, At(p, "user")
  PROVE  Abstract!Next /\ RInv'
<1>1. PICK k \in Pending(p) :
        LET po           == ports[p][k]
            deliver_proc == port[po].blocked_list_head
            rest         == next_blocked[deliver_proc]
        IN
        /\ received' = [received EXCEPT ![p] =
                          <<deliver_proc, param_data[deliver_proc]>>]
        /\ port' = [port EXCEPT
                      ![po].blocked_list_head = rest,
                      ![po].blocked_list_tail = IF rest = NULL THEN NULL ELSE @]
        /\ rq' = CASE rq.state[deliver_proc] = "MESSAGE_BLOCKED" ->
                        add_ready_queue(rq, deliver_proc)
                   [] rq.state[deliver_proc] = "SEND_BLOCKED" ->
                        [rq EXCEPT !.state[deliver_proc] = "REPLY_BLOCKED"]
        /\ UNCHANGED <<active_proc, param_proc, param_data, next_blocked, pc>>
  BY DEF receive_pending
<1>2. PICK po, d : po = ports[p][k] /\ d = port[po].blocked_list_head
  OBVIOUS
<1>3. /\ pc[p] = "user" /\ rq.state[p] = "READY" /\ p \in Proc /\ active_proc = p
  BY CallerIsReady DEF Labels
<1>4. /\ "state" \in DOMAIN rq /\ rq.state \in [Proc -> States]
      /\ \A r \in Proc : rq.state[r] \in StatesAt(pc[r])
  BY Typed
<1>5. /\ port \in [Port -> [open : BOOLEAN, owner : ProcOrNull,
                        blocked_list_head : ProcOrNull,
                        blocked_list_tail : ProcOrNull]]
      /\ clients \in [Proc -> SUBSET Proc]
      /\ received \in [Proc -> (ProcOrNull \X (Data \cup {NULL})) \cup {NULL}]
      /\ ports \in [Proc -> Seq(Port)]
      /\ NULL \notin Proc
  BY SizesAssumption, NullAssumption DEF IInv, GTypeOK, TypeOK, Proc
<1>6. /\ po \in Port /\ port[po].open /\ d # NULL /\ port[po].owner = p
  <2>1. k \in DOMAIN ports[p] /\ port[ports[p][k]].open
        /\ port[ports[p][k]].blocked_list_head # NULL
    BY DEF Pending
  <2>2. port[ports[p][k]].owner = p
    BY <1>3, <2>1 DEF IInv, PortsHaveOwners
  <2>3. ports[p][k] \in Port
    BY <1>3, <1>5, <2>1
  <2> QED BY <1>2, <2>1, <2>2, <2>3
<1>7. /\ d \in BlockedOn(po) /\ d \in Proc
      /\ rq.state[d] \in {"SEND_BLOCKED", "MESSAGE_BLOCKED"} /\ waits_on[d] = po
  BY <1>2, <1>6, PortList DEF BlockedOn
<1>8. d # p /\ pc[d] = "user"
  BY <1>3, <1>4, <1>7, Typed DEF StatesAt, Labels, CallLabels
<1>9. /\ rq'.state[d] = IF rq.state[d] = "SEND_BLOCKED" THEN "REPLY_BLOCKED" ELSE "READY"
      /\ \A x \in Proc \ {d} : rq'.state[x] = rq.state[x]
  <2>1. CASE rq.state[d] = "SEND_BLOCKED"
    <3>1. rq' = [rq EXCEPT !.state[d] = "REPLY_BLOCKED"]
      BY <1>1, <1>2, <2>1
    <3>2. rq'.state = [rq.state EXCEPT ![d] = "REPLY_BLOCKED"]
      BY <1>4, <3>1, SetState
    <3> QED BY <1>4, <1>7, <2>1, <3>2
  <2>2. CASE rq.state[d] = "MESSAGE_BLOCKED"
    <3>1. rq' = add_ready_queue(rq, d)
      BY <1>1, <1>2, <2>2
    <3>2. rq'.state = [rq.state EXCEPT ![d] = "READY"]
      BY <1>4, <3>1, AddState
    <3> QED BY <1>4, <1>7, <2>2, <3>2
  <2> QED BY <1>7, <2>1, <2>2
<1>10. /\ received' = [received EXCEPT ![p] = <<d, param_data[d]>>]
       /\ UNCHANGED <<active_proc, param_proc, param_data, next_blocked, pc>>
  BY <1>1, <1>2
<1>11. /\ port'[po].blocked_list_head = next_blocked[d]
       /\ \A x \in Port \ {po} : port'[x] = port[x]
       /\ \A x \in Port : port'[x].owner = port[x].owner /\ port'[x].open = port[x].open
  BY <1>1, <1>2, <1>5, <1>6
<1>12. /\ clients' = [clients EXCEPT ![p] = @ \cup NewClient(p)]
       /\ \A s \in Proc : rq'.state[s] \in SendStates => waits_on'[s] = waits_on[s]
  BY DEF Receive
<1>13. next_blocked' \in Links /\ Acyclic(next_blocked') /\ Acyclic(next_blocked)
  BY <1>10 DEF IInv, GTypeOK, TypeOK, Links, RInv, Acyclic
<1> DEFINE m == MessageOf(d)
<1>14. /\ Queue(po) # <<>> /\ Head(Queue(po)) = m /\ Queue(po)' = Tail(Queue(po))
  <2> HIDE DEF m
  <2>1. /\ IInv /\ Acyclic(next_blocked) /\ po \in Port /\ d \in Proc
        /\ d = port[po].blocked_list_head
        /\ port'[po].blocked_list_head = next_blocked[d]
        /\ next_blocked' = next_blocked /\ param_data' = param_data
        /\ \A s \in Proc \ {d} : rq'.state[s] = rq.state[s]
    BY <1>2, <1>6, <1>7, <1>9, <1>10, <1>11, <1>13
  <2>2. /\ Queue(po) # <<>> /\ Head(Queue(po)) = MessageOf(d)
        /\ Queue(po)' = Tail(Queue(po))
    BY ONLY <2>1, QueueTakes, Zenon
  <2> QED BY <2>2 DEF m
<1>15. m.proc = d /\ m.data = param_data[d] /\ m.wants_reply = (rq.state[d] = "SEND_BLOCKED")
  BY DEF MessageOf
<1> HIDE DEF m
<1>16. ASSUME NEW x \in Port \ {po} PROVE Queue(x)' = Queue(x)
  <2>1. \A s \in BlockedOn(x) : s \in Proc \ {d}
    BY <1>7 DEF BlockedOn
  <2> QED BY <1>9, <1>10, <1>11, <1>13, <2>1, QueueFrame
<1>17. Queues' = [Queues EXCEPT ![po] = Tail(@)] /\ Queues[po] # <<>> /\ Head(Queues[po]) = m
  BY <1>6, <1>14, <1>16 DEF Queues
<1>18. /\ Owners' = Owners /\ Opened' = Opened /\ Owners[po] = p /\ Opened[po]
  BY <1>6, <1>11 DEF Owners, Opened
<1>19. \A r \in Proc \ {d} : /\ Waiting(r)' = Waiting(r)
                             /\ HasMessage(r)' <=> HasMessage(r)
  BY <1>9, <1>10, StatusFrame DEF SameStanding
<1>20. /\ Waiting(d)' = IF m.wants_reply THEN "awaiting_reply" ELSE "idle"
       /\ ~HasMessage(d) /\ ~HasMessage(d)'
       /\ Waiting(p) = "idle" /\ ~HasMessage(p)
  BY <1>3, <1>7, <1>8, <1>9, <1>10, <1>15 DEF Waiting, HasMessage
<1>21. /\ Statuses' = [Statuses EXCEPT ![m.proc] =
                         IF m.wants_reply THEN "awaiting_reply" ELSE "idle"]
       /\ Statuses[p] = "idle"
  BY <1>3, <1>7, <1>15, <1>19, <1>20 DEF Statuses
<1>22. ASSUME NEW r \in Proc PROVE Inbox(r)' = Inbox(r)
  <2>1. HasMessage(r)' <=> HasMessage(r)
    BY <1>19, <1>20
  <2>2. Own(r)' = Own(r)
    BY <1>11 DEF Own
  <2>3. ASSUME HasMessage(r), NEW s \in Proc
        PROVE  (rq'.state[s] = "REPLY_BLOCKED" /\ waits_on'[s] \in Own(r)')
                 <=> (rq.state[s] = "REPLY_BLOCKED" /\ waits_on[s] \in Own(r))
    <3>1. r # p
      BY <1>20, <2>3
    <3>2. rq'.state[s] = "REPLY_BLOCKED" => waits_on'[s] = waits_on[s]
      BY <1>12 DEF SendStates
    <3>3. CASE s = d
      BY <1>6, <1>7, <2>2, <3>1, <3>2, <3>3 DEF Own
    <3>4. CASE s # d
      BY <1>9, <2>2, <3>2, <3>4
    <3> QED BY <3>3, <3>4
  <2> QED BY <1>10, <2>1, <2>3, InboxFrame DEF RInv
<1>23. Inboxes' = Inboxes
  BY <1>22 DEF Inboxes
<1>24. received' = [r \in Proc |-> IF r = p THEN <<m.proc, m.data>> ELSE NULL]
  <2>1. \A r \in Proc \ {p} : received[r] = NULL
    BY <1>3 DEF RInv, ResultIsOfTheRunning
  <2> QED BY <1>3, <1>5, <1>10, <1>15, <2>1
<1>25. clients' = [clients EXCEPT ![p] = IF m.wants_reply THEN @ \cup {m.proc} ELSE @]
  <2>1. received'[p][1] = d
    BY <1>3, <1>15, <1>24
  <2>2. NewClient(p) = IF m.wants_reply THEN {d} ELSE {}
    BY <1>6, <1>7, <1>9, <1>15, <2>1 DEF NewClient, Own
  <2> QED BY <1>5, <1>12, <1>15, <2>2
<1>26. Abstract!Take(p, po)
  <2>1. Abstract!Hold(p, m)
    BY <1>24, <1>25 DEF Abstract!Hold
  <2> QED BY <1>17, <1>18, <1>21, <1>23, <2>1 DEF Abstract!Take
<1>27. RInv'
  <2>1. SenderInHand'
    BY <1>10, <1>19, <1>20 DEF SenderInHand, RInv
  <2>2. ResultIsOfTheRunning'
    BY <1>3, <1>10, <1>24 DEF ResultIsOfTheRunning
  <2> QED BY <1>13, <2>1, <2>2 DEF RInv, Acyclic
<1> QED BY <1>3, <1>6, <1>26, <1>27 DEF Abstract!Next

LEMMA BlockIsAbstract ==
  ASSUME IInv, RInv, NEW p \in Programs, Receive(p), receive_block(p), At(p, "user")
  PROVE  Abstract!Next /\ RInv'
<1>1. /\ pc[p] = "user" /\ rq.state[p] = "READY" /\ p \in Proc /\ active_proc = p
  BY CallerIsReady DEF Labels
<1>2. /\ "state" \in DOMAIN rq /\ rq.state \in [Proc -> States] /\ pc \in [Proc -> Labels]
  BY Typed
<1>3. /\ Pending(p) = {}
      /\ param_data' = [param_data EXCEPT ![p] = NULL]
      /\ rq' = [remove_ready_queue(rq, p) EXCEPT !.state[p] = "RECEIVE_BLOCKED"]
      /\ pc' = [pc EXCEPT ![p] = "receive"]
      /\ received' = [received EXCEPT ![p] = NULL]
      /\ UNCHANGED <<param_proc, next_blocked, port>>
  BY DEF receive_block, resign, Goto
<1>4. rq'.state = [rq.state EXCEPT ![p] = "RECEIVE_BLOCKED"]
  BY <1>2, <1>3, RemoveState, SetState
<1>5. /\ rq'.state[p] = "RECEIVE_BLOCKED" /\ pc'[p] = "receive"
      /\ \A x \in Proc \ {p} : rq'.state[x] = rq.state[x] /\ pc'[x] = pc[x]
  BY <1>1, <1>2, <1>3, <1>4
<1>6. /\ param_data \in [Proc -> Data \cup {NULL}]
      /\ clients \in [Proc -> SUBSET Proc]
      /\ received \in [Proc -> (ProcOrNull \X (Data \cup {NULL})) \cup {NULL}]
  BY DEF IInv, GTypeOK, TypeOK
<1>7. \A x \in Proc \ {p} : param_data'[x] = param_data[x]
  BY <1>3, <1>6
<1>8. /\ clients' = clients
      /\ \A s \in Proc : rq'.state[s] \in SendStates => waits_on'[s] = waits_on[s]
  BY <1>1, <1>3, <1>6 DEF Receive
<1>9. received' = [r \in Proc |-> NULL]
  BY <1>1, <1>3, <1>6 DEF RInv, ResultIsOfTheRunning
<1>10. next_blocked' \in Links /\ Acyclic(next_blocked') /\ Acyclic(next_blocked)
  BY <1>3 DEF IInv, GTypeOK, TypeOK, Links, RInv, Acyclic
<1>11. Owners' = Owners /\ Opened' = Opened
  BY <1>3 DEF Owners, Opened
<1>12. Queues' = Queues
  <2>1. ASSUME NEW x \in Port PROVE Queue(x)' = Queue(x)
    <3>1. \A s \in BlockedOn(x) : s \in Proc \ {p}
      BY <1>1 DEF BlockedOn
    <3> QED BY <1>3, <1>5, <1>7, <1>10, <3>1, QueueFrame
  <2> QED BY <2>1 DEF Queues
<1>13. \A r \in Proc \ {p} : /\ Waiting(r)' = Waiting(r)
                             /\ HasMessage(r)' <=> HasMessage(r)
  BY <1>5, StatusFrame DEF SameStanding
<1>14. /\ Waiting(p)' = "receiving" /\ Waiting(p) = "idle"
       /\ ~HasMessage(p) /\ ~HasMessage(p)'
  BY <1>1, <1>5 DEF Waiting, HasMessage
<1>15. Statuses' = [Statuses EXCEPT ![p] = "receiving"] /\ Statuses[p] = "idle"
  BY <1>1, <1>13, <1>14 DEF Statuses
<1>16. ASSUME NEW r \in Proc PROVE Inbox(r)' = Inbox(r)
  <2>1. HasMessage(r)' <=> HasMessage(r)
    BY <1>13, <1>14
  <2>2. HasMessage(r) => param_data'[r] = param_data[r] /\ param_proc'[r] = param_proc[r]
    BY <1>3, <1>7, <1>14
  <2>3. ASSUME NEW s \in Proc
        PROVE  (rq'.state[s] = "REPLY_BLOCKED" /\ waits_on'[s] \in Own(r)')
                 <=> (rq.state[s] = "REPLY_BLOCKED" /\ waits_on[s] \in Own(r))
    <3>1. rq'.state[s] = "REPLY_BLOCKED" <=> rq.state[s] = "REPLY_BLOCKED"
      BY <1>1, <1>5
    <3>2. rq'.state[s] = "REPLY_BLOCKED" => waits_on'[s] = waits_on[s]
      BY <1>8 DEF SendStates
    <3> QED BY <1>3, <3>1, <3>2 DEF Own
  <2> QED BY <2>1, <2>2, <2>3, InboxFrame DEF RInv
<1>17. Inboxes' = Inboxes
  BY <1>16 DEF Inboxes
<1>18. ASSUME NEW x \in Port, Owners[x] = p, Opened[x] PROVE Queues[x] = <<>>
  <2>1. port[x].owner = p /\ port[x].open
    BY <1>18 DEF Owners, Opened
  <2>2. PICK k \in DOMAIN ports[p] : ports[p][k] = x
    BY <1>1, <2>1, SizesAssumption, NullAssumption DEF IInv, PortsHaveOwners, Proc
  <2>3. port[x].blocked_list_head = NULL
    BY <1>3, <2>1, <2>2 DEF Pending
  <2> QED BY <2>3, QueueIsEmpty DEF Queues
<1>19. Abstract!StartReceiving(p)
  BY <1>8, <1>9, <1>11, <1>12, <1>15, <1>17, <1>18
     DEF Abstract!StartReceiving, Abstract!NoResult
<1>20. RInv'
  <2>1. SenderInHand'
    BY <1>3, <1>13, <1>14 DEF SenderInHand, RInv
  <2>2. ResultIsOfTheRunning'
    BY <1>9 DEF ResultIsOfTheRunning
  <2> QED BY <1>10, <2>1, <2>2 DEF RInv, Acyclic
<1> QED BY <1>1, <1>19, <1>20 DEF Abstract!Next

LEMMA ReceiveIsAbstract ==
  ASSUME IInv, RInv, NEW p \in Programs, Receive(p)
  PROVE  (Abstract!Next \/ UNCHANGED Abstract!rvars) /\ RInv'
<1>1. receive(p) /\ At(p, "user")
  BY Zenon DEF Receive, receive
<1>2. CASE ports[p] = <<>>
  <2>0. PICK msg : Panic(msg) /\ received' = received
    BY <1>1, <1>2, Zenon DEF receive
  <2>1. /\ UNCHANGED <<rq, pc, active_proc, param_proc, param_data, next_blocked,
                       port, received>>
        /\ Pending(p) = {}
    BY <1>2, <2>0 DEF Panic, schedVars, ipcVars, Pending
  <2>2. /\ waits_on \in [Proc -> Port \cup {NULL}]
        /\ clients \in [Proc -> SUBSET Proc]
    BY DEF IInv, GTypeOK
  <2>3. clients' = clients
    BY <2>1, <2>2 DEF Receive
  <2>4. \A s \in Proc : rq'.state[s] \notin SendStates => waits_on[s] = NULL
    BY <2>1 DEF IInv, BlockedListsAreQueues
  <2>5. waits_on' = waits_on
    BY <2>2, <2>4 DEF Receive
  <2>6. /\ Queues' = Queues /\ Statuses' = Statuses /\ Inboxes' = Inboxes
        /\ Acyclic(next_blocked') /\ SenderInHand'
    BY <2>1, <2>5, SameView DEF Own, SameStanding
  <2>7. Owners' = Owners /\ Opened' = Opened
    BY <2>1 DEF Owners, Opened
  <2>8. RInv'
    BY <2>1, <2>6 DEF RInv, ResultIsOfTheRunning, Acyclic
  <2> QED BY <2>1, <2>3, <2>6, <2>7, <2>8 DEF Abstract!rvars
<1>3. CASE ports[p] # <<>>
  <2>1. receive_pending(p) \/ receive_block(p)
    BY <1>1, <1>3, Zenon DEF receive
  <2> QED BY <1>1, <1>3, <2>1, TakeIsAbstract, BlockIsAbstract
<1> QED BY <1>2, <1>3

LEMMA ReturnIsAbstract ==
  ASSUME IInv, RInv, NEW p \in Programs, ReceiveReturn(p)
  PROVE  Abstract!Next /\ RInv'
<1>1. /\ active_proc = p /\ pc[p] = "receive" /\ p \in Proc
      /\ rq.state[p] = "READY"
  BY CallerIsReady DEF Labels, CallLabels, ReceiveReturn, receive_return
<1>2. /\ received' = [received EXCEPT ![p] = <<param_proc[p], param_data[p]>>]
      /\ pc' = [pc EXCEPT ![p] = "user"]
      /\ clients' = [clients EXCEPT ![p] = @ \cup NewClient(p)]
      /\ UNCHANGED <<rq, active_proc, param_proc, param_data, next_blocked, port,
                     waits_on>>
  BY DEF ReceiveReturn, receive_return, Goto, schedVars, ipcVars
<1>3. /\ clients \in [Proc -> SUBSET Proc] /\ pc \in [Proc -> Labels]
      /\ received \in [Proc -> (ProcOrNull \X (Data \cup {NULL})) \cup {NULL}]
  BY DEF IInv, GTypeOK, TypeOK
<1> DEFINE s == param_proc[p]
           m == Inbox(p)
<1>4. HasMessage(p) /\ s \in Proc
  BY <1>1, Zenon DEF HasMessage, RInv, SenderInHand
<1>5. /\ m.proc = s /\ m.data = param_data[p]
      /\ m.wants_reply = (rq.state[s] = "REPLY_BLOCKED" /\ waits_on[s] \in Own(p))
  BY <1>4 DEF Inbox
<1> HIDE DEF m
<1>6. /\ pc'[p] = "user" /\ rq' = rq
      /\ \A r \in Proc \ {p} : pc'[r] = pc[r]
  BY <1>1, <1>2, <1>3
<1>7. \A r \in Proc \ {p} : Waiting(r)' = Waiting(r) /\ (HasMessage(r)' <=> HasMessage(r))
  BY <1>6, StatusFrame DEF SameStanding
<1>8. /\ Waiting(p) = "delivered" /\ Waiting(p)' = "idle" /\ ~HasMessage(p)'
  BY <1>1, <1>6 DEF Waiting, HasMessage
<1>9. Statuses[p] = "delivered" /\ Statuses' = [Statuses EXCEPT ![p] = "idle"]
  BY <1>1, <1>7, <1>8 DEF Statuses
<1>10. ASSUME NEW r \in Proc \ {p} PROVE Inbox(r)' = Inbox(r)
  BY <1>2, <1>7, InboxFrame DEF RInv, Own
<1>11. Inbox(p)' = NULL
  BY <1>8 DEF Inbox
<1>12. Inboxes[p] = m /\ Inboxes' = [Inboxes EXCEPT ![p] = NULL]
  BY <1>1, <1>10, <1>11 DEF Inboxes, m
<1>13. Acyclic(next_blocked) /\ Acyclic(next_blocked') /\ next_blocked' \in Links
  BY <1>2 DEF RInv, Acyclic, IInv, GTypeOK, TypeOK, Links
<1>14. ASSUME NEW po \in Port PROVE Queue(po)' = Queue(po)
  BY <1>2, <1>13, QueueFrame
<1>15. Queues' = Queues
  BY <1>14 DEF Queues
<1>16. Owners' = Owners /\ Opened' = Opened
  BY <1>2 DEF Owners, Opened
<1>17. received' = [r \in Proc |-> IF r = p THEN <<m.proc, m.data>> ELSE NULL]
  <2>1. \A r \in Proc \ {p} : received[r] = NULL
    BY <1>1 DEF RInv, ResultIsOfTheRunning
  <2> QED BY <1>1, <1>2, <1>3, <1>5, <2>1
<1>18. clients' = [clients EXCEPT ![p] = IF m.wants_reply THEN @ \cup {m.proc} ELSE @]
  <2>1. received'[p][1] = s
    BY <1>1, <1>5, <1>17
  <2>2. Own(p)' = Own(p)
    BY <1>2 DEF Own
  <2>3. NewClient(p) = IF m.wants_reply THEN {s} ELSE {}
    BY <1>2, <1>4, <1>5, <2>1 DEF NewClient
  <2> QED BY <1>2, <1>3, <1>5, <2>3
<1>19. Abstract!FinishReceiving(p)
  <2>1. Abstract!Hold(p, m)
    BY <1>17, <1>18 DEF Abstract!Hold
  <2> QED BY <1>9, <1>12, <1>15, <1>16, <2>1 DEF Abstract!FinishReceiving
<1>20. RInv'
  <2>1. SenderInHand'
    BY <1>2, <1>7, <1>8 DEF SenderInHand, RInv
  <2>2. ResultIsOfTheRunning'
    BY <1>1, <1>2, <1>17 DEF ResultIsOfTheRunning
  <2> QED BY <1>13, <2>1, <2>2 DEF RInv, Acyclic
<1> QED BY <1>1, <1>19, <1>20 DEF Abstract!Next

LEMMA ReplyIsAbstract ==
  ASSUME IInv, RInv, ~KeepsResults, NEW p \in Programs, Reply(p)
  PROVE  Abstract!Next /\ RInv'
<1>1. PICK s \in Proc :
        /\ s \in clients[p] \/ rq.state[s] # "REPLY_BLOCKED"
        /\ reply(p, s)
        /\ IF s \in clients[p]
           THEN /\ clients' = [clients EXCEPT ![p] = @ \ {s}]
                /\ waits_on' = [waits_on EXCEPT ![s] = NULL]
           ELSE UNCHANGED clientVars
        /\ NoResult
  BY DEF Reply
<1>2. p \in Proc /\ At(p, "user")
  BY <1>1 DEF reply, Programs
<1>3. CASE rq.state[s] # "REPLY_BLOCKED"
  <2>1. s \notin clients[p]
    BY <1>2, <1>3 DEF IInv, EverySenderGetsAReply
  <2>2. Unchanged
    BY <1>1, <2>1 DEF Unchanged
  <2>3. PICK msg : Panic(msg)
    BY <1>1, <1>3, Zenon DEF reply
  <2> QED BY <2>2, <2>3, PanicForgets
<1>4. CASE rq.state[s] = "REPLY_BLOCKED"
  <2>1. /\ rq' = add_ready_queue(rq, s)
        /\ UNCHANGED <<param_proc, param_data, next_blocked, port, pc>>
    BY <1>1, <1>4 DEF reply, resign, ipcVars
  <2>2. /\ s \in clients[p]
        /\ clients' = [clients EXCEPT ![p] = @ \ {s}]
        /\ waits_on' = [waits_on EXCEPT ![s] = NULL]
    BY <1>1, <1>4
  <2>3. /\ pc[p] = "user" /\ rq.state[p] = "READY"
    BY <1>2, CallerIsReady DEF Labels
  <2>4. /\ "state" \in DOMAIN rq /\ rq.state \in [Proc -> States]
        /\ pc[s] = "user"
    BY <1>4, Typed DEF StatesAt, Labels, CallLabels
  <2>5. rq'.state = [rq.state EXCEPT ![s] = "READY"]
    BY <2>1, <2>4, AddState
  <2>6. /\ rq'.state[s] = "READY" /\ \A x \in Proc \ {s} : rq'.state[x] = rq.state[x]
    BY <2>4, <2>5
  <2>7. waits_on \in [Proc -> Port \cup {NULL}] /\ clients \in [Proc -> SUBSET Proc]
    BY DEF IInv, GTypeOK
  <2>8. \A r \in Proc \ {s} : Waiting(r)' = Waiting(r) /\ (HasMessage(r)' <=> HasMessage(r))
    BY <2>1, <2>6, StatusFrame DEF SameStanding
  <2>9. /\ Waiting(s) = "awaiting_reply" /\ Waiting(s)' = "idle"
        /\ ~HasMessage(s) /\ ~HasMessage(s)'
        /\ Waiting(p) = "idle" /\ ~HasMessage(p)
    BY <1>4, <2>1, <2>3, <2>4, <2>6 DEF Waiting, HasMessage
  <2>10. /\ Statuses[p] = "idle" /\ Statuses[s] = "awaiting_reply"
         /\ Statuses' = [Statuses EXCEPT ![s] = "idle"]
    BY <1>2, <2>8, <2>9 DEF Statuses
  <2>11. waits_on[s] \in Own(p)
    BY <1>2, <2>2 DEF IInv, EverySenderGetsAReply
  <2>12. ASSUME NEW r \in Proc PROVE Inbox(r)' = Inbox(r)
    <3>1. HasMessage(r)' <=> HasMessage(r)
      BY <2>8, <2>9
    <3>2. Own(r)' = Own(r)
      BY <2>1 DEF Own
    <3>3. ASSUME HasMessage(r), NEW x \in Proc
          PROVE  (rq'.state[x] = "REPLY_BLOCKED" /\ waits_on'[x] \in Own(r)')
                   <=> (rq.state[x] = "REPLY_BLOCKED" /\ waits_on[x] \in Own(r))
      <4>1. CASE x = s
        <5>1. r # p
          BY <2>9, <3>3
        <5>2. waits_on[s] \notin Own(r)
          BY <2>11, <5>1 DEF Own
        <5> QED BY <2>6, <4>1, <5>2
      <4>2. CASE x # s
        <5>1. waits_on'[x] = waits_on[x]
          BY <2>2, <2>7, <4>2
        <5> QED BY <2>6, <3>2, <4>2, <5>1
      <4> QED BY <4>1, <4>2
    <3> QED BY <2>1, <3>1, <3>3, InboxFrame DEF RInv
  <2>13. Inboxes' = Inboxes
    BY <2>12 DEF Inboxes
  <2>14. Acyclic(next_blocked) /\ Acyclic(next_blocked') /\ next_blocked' \in Links
    BY <2>1 DEF RInv, Acyclic, IInv, GTypeOK, TypeOK, Links
  <2>15. ASSUME NEW po \in Port PROVE Queue(po)' = Queue(po)
    <3>1. \A x \in BlockedOn(po) : x \in Proc \ {s}
      BY <1>4 DEF BlockedOn
    <3> QED BY <2>1, <2>6, <2>14, <3>1, QueueFrame
  <2>16. Queues' = Queues
    BY <2>15 DEF Queues
  <2>17. Owners' = Owners /\ Opened' = Opened
    BY <2>1 DEF Owners, Opened
  <2>18. received' = [r \in Proc |-> NULL]
    BY <1>1, NothingIsHeld
  <2>19. Abstract!Reply(p, s)
    BY <2>2, <2>10, <2>13, <2>16, <2>17, <2>18 DEF Abstract!Reply, Abstract!NoResult
  <2>20. RInv'
    <3>1. SenderInHand'
      BY <2>1, <2>8, <2>9 DEF SenderInHand, RInv
    <3>2. ResultIsOfTheRunning'
      BY <2>18 DEF ResultIsOfTheRunning
    <3> QED BY <2>14, <3>1, <3>2 DEF RInv, Acyclic
  <2> QED BY <1>2, <2>19, <2>20 DEF Abstract!Next
<1> QED BY <1>3, <1>4

-----------------------------------------------------------------------------
(* The refinement *)

LEMMA NextIsAbstract ==
  ASSUME IInv, RInv, ~KeepsResults, [GNext]_allVars
  PROVE  [Abstract!Next]_Abstract!rvars /\ RInv'
<1>1. CASE UNCHANGED allVars
  <2>1. /\ UNCHANGED <<rq, pc, active_proc, param_proc, param_data, next_blocked,
                       port, received, waits_on, clients>>
    BY <1>1 DEF allVars, vars, schedVars, ipcVars, clientVars
  <2>2. /\ Queues' = Queues /\ Statuses' = Statuses /\ Inboxes' = Inboxes
        /\ Acyclic(next_blocked') /\ SenderInHand'
    BY <2>1, SameView DEF Own, SameStanding
  <2>3. Owners' = Owners /\ Opened' = Opened
    BY <2>1 DEF Owners, Opened
  <2>4. RInv'
    BY <2>1, <2>2 DEF RInv, ResultIsOfTheRunning, Acyclic
  <2> QED BY <2>1, <2>2, <2>3, <2>4 DEF Abstract!rvars
<1>2. CASE NullLoop \/ Halted
  BY <1>2, StutterForgets
     DEF NullLoop, null_process, Halted, halted, Unchanged, vars, schedVars, ipcVars,
         clientVars
<1>3. CASE Interrupt
  BY <1>3, InterruptForgets
<1>4. ASSUME NEW p \in Programs, Call(p)
      PROVE  (Abstract!Next \/ UNCHANGED Abstract!rvars) /\ RInv'
  <2>1. CASE CreatePort(p) \/ CreateProcessPort(p)
    BY <2>1, CreatePortIsAbstract
  <2>2. CASE CreateProcess(p)
    BY <2>2, CreateProcessForgets
  <2>3. CASE CreateProcessReady(p)
    BY <2>3, CreateProcessReadyForgets
  <2>4. CASE Resign(p)
    BY <2>4, ResignForgets
  <2>5. CASE BecomeZombie(p) \/ ZombieRemove(p) \/ ZombieResign(p) \/ ZombieLoop(p)
    BY <2>5, ZombieForgets
  <2>6. CASE OpenPort(p) \/ ClosePort(p)
    BY <2>6, SetOpenIsAbstract
  <2>7. CASE Send(p)
    BY <2>7, SendIsAbstract
  <2>8. CASE Message(p)
    BY <2>8, MessageIsAbstract
  <2>9. CASE Receive(p)
    BY <2>9, ReceiveIsAbstract
  <2>10. CASE ReceiveReturn(p)
    BY <2>10, ReturnIsAbstract
  <2>11. CASE Reply(p)
    BY <2>11, ReplyIsAbstract
  <2>12. CASE WaitForInterrupt(p) \/ WaitForInterruptReturn(p)
    BY <2>12, WaitForInterruptForgets
  <2> QED BY <1>4, <2>1, <2>2, <2>3, <2>4, <2>5, <2>6, <2>7, <2>8, <2>9, <2>10,
             <2>11, <2>12 DEF Call
<1> QED BY <1>1, <1>2, <1>3, <1>4 DEF GNext

LEMMA InitIsAbstract == GInit => Abstract!Init /\ RInv
<1> SUFFICES ASSUME GInit PROVE Abstract!Init /\ RInv
  OBVIOUS
<1>1. IInv
  BY InitInv
<1>2. /\ next_blocked = [p \in Proc |-> NULL]
      /\ pc = [p \in Proc |-> IF p \in {Boot, NullProcess} THEN "user" ELSE "free"]
      /\ received = [p \in Proc |-> NULL]
      /\ clients = [p \in Proc |-> {}]
      /\ \A po \in Port : /\ port[po].blocked_list_head = NULL
                          /\ port[po].owner \in Proc \cup {NULL}
                          /\ port[po].open \in BOOLEAN
      /\ \A p \in Proc : rq.state[p] = "READY"
  BY BootAndNull DEF GInit, Init
<1>3. Queues = [po \in Port |-> <<>>]
  BY <1>2, QueueIsEmpty DEF Queues
<1>4. \A p \in Proc : Waiting(p) = "idle" /\ ~HasMessage(p)
  BY <1>2 DEF Waiting, HasMessage
<1>5. Statuses = [p \in Proc |-> "idle"] /\ Inboxes = [p \in Proc |-> NULL]
  BY <1>4 DEF Statuses, Inboxes, Inbox
<1>6. Owners \in [Port -> Proc \cup {NULL}] /\ Opened \in [Port -> BOOLEAN]
  BY <1>2 DEF Owners, Opened
<1>7. Abstract!Init
  BY <1>2, <1>3, <1>5, <1>6 DEF Abstract!Init
<1>8. Acyclic(next_blocked)
  BY <1>2, NullNotProc DEF Acyclic
<1> QED BY <1>2, <1>4, <1>7, <1>8 DEF RInv, SenderInHand, ResultIsOfTheRunning

(* ipc.c keeps the promise of Rendezvous under any programs: every message *)
(* is received once, in the order of its port, by the owner, with its      *)
(* sender and data; a sender of send() is released by the reply of the     *)
(* process that received it, and by nothing else.  What a receive() has    *)
(* returned is compared in the step it returns in.                         *)
THEOREM KernelImplementsRendezvous ==
  ASSUME ~KeepsResults PROVE GSpec => ImplementsRendezvous
<1>1. GInit => Abstract!Init /\ RInv
  BY InitIsAbstract
<1>2. IInv /\ RInv /\ [GNext]_allVars => [Abstract!Next]_Abstract!rvars /\ RInv'
  BY NextIsAbstract
<1>3. GSpec => []IInv
  BY Invariance
<1> QED BY <1>1, <1>2, <1>3, PTL DEF GSpec, ImplementsRendezvous, Abstract!Spec

=============================================================================
